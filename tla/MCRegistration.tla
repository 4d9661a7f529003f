--------------------------- MODULE MCRegistration ---------------------------
(***************************************************************************)
(* Two interchangeable connections and keys: what a race takes.  A server  *)
(* crash or counters inserted over others, once; rooms, and counters that  *)
(* were inserted over others, are explored apart from the identities of    *)
(* agents, with which they share nothing.                                  *)
(***************************************************************************)
EXTENDS Registration, TLC

CONSTANTS c1, c2, k1, k2

MCSockets == {c1, c2}
MCKeys == {k1, k2}
Symmetric == Permutations(MCSockets) \cup Permutations(MCKeys)

OneTrouble == restarts + Cardinality(replaced) <= 1

Roomy(k) == owned[k] > 0 \/ usage[k].rooms > 0

CountersApart ==
    /\ Cardinality({k \in Keys : Roomy(k)}) <= 1
    /\ (\E k \in Keys : Roomy(k) \/ k \in replaced) =>
           \A i \in Ids : owner[i] = None /\ live[i] = None /\ stash[i] = NoStash
=============================================================================
