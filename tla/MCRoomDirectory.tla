--------------------------- MODULE MCRoomDirectory ---------------------------
(***************************************************************************)
(* Two requests at a time and one member.  Either two rooms beside the     *)
(* lobby, of any visibility and parent, or one private room with an invite *)
(* and two keys it may be redeemed for; two names, one of them spelled in  *)
(* two ways, and one that is refused.                                      *)
(***************************************************************************)
EXTENDS RoomDirectory, TLC

CONSTANTS n1, n2, pad, bad, t1, t2, g1, g2, r1, r2

MCTrimmed == n1 :> n1 @@ n2 :> n2 @@ pad :> n1 @@ bad :> None
MCTasks == {t1, t2}
MCRooms == {Lobby, r1, r2}
Symmetric == Permutations(MCTasks) \cup Permutations({g1, g2})
                 \cup Permutations({r1, r2})

Inviting == made # {} \/ \E c \in Tasks : task[c].at = "invite"

InvitesApart ==
    IF Inviting
    THEN /\ Cardinality(used) <= 2
         /\ \A r \in Rooms \ {Lobby} :
                Exists(r) => rooms[r].parent = None /\ ~rooms[r].public
         /\ \A c \in Tasks : task[c].room # Lobby /\ task[c].at # "create"
    ELSE apiKeys = Members
=============================================================================
