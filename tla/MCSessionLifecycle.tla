------------------------- MODULE MCSessionLifecycle -------------------------
(***************************************************************************)
(* Three connections of one agent id, which are interchangeable.  What the *)
(* third can do to the others is explored without renames, which concern   *)
(* one session and the stash it claims.                                    *)
(***************************************************************************)
EXTENDS SessionLifecycle, TLC

CONSTANTS c1, c2, c3

MCConns == {c1, c2, c3}
ConnsSymmetric == Permutations(MCConns)

RenamesOfTwo ==
    \A r \in Rooms : version[r] > 0 => \E c \in Conns : pc[c] = "new"
=============================================================================
