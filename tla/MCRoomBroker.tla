---------------------------- MODULE MCRoomBroker ----------------------------
(* Two agents, one of them with two live connection tasks (a taken-over    *)
(* session whose last handler is still running), the lobby and one room    *)
(* that can be created and destroyed.                                      *)
EXTENDS RoomBroker, TLC

CONSTANTS a1, a2, c1, c2, c3

MCAgents == {a1, a2}
MCConns == {c1, c2, c3}
MCAgentOf == (c1 :> a1) @@ (c2 :> a2) @@ (c3 :> a1)

(* One connection per agent. *)
MCPlainConns == {c1, c2}
MCPlainAgentOf == (c1 :> a1) @@ (c2 :> a2)

(* At most two of the handlers are under way at a time. *)
TwoAtATime == Cardinality({c \in Conns : pc[c] # Idle}) <= 2
=============================================================================
