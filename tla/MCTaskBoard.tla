----------------------------- MODULE MCTaskBoard -----------------------------
(***************************************************************************)
(* Two agents with a room (the lobby stays empty) and a task, three        *)
(* versions of it and two fields, so that two updates may lose one         *)
(* another; one crash.                                                     *)
(***************************************************************************)
EXTENDS TaskBoard, TLC

CONSTANTS a1, a2

MCAgents == {a1, a2}
Symmetric == Permutations(MCAgents) \cup Permutations(Fields)

EmptyLobby == members[Lobby] = <<>>
=============================================================================
