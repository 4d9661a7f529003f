-------------------------- MODULE MCServerInstance --------------------------
(***************************************************************************)
(* Two processes at a time and three starts over one socket path: two      *)
(* databases, one of them under an alias, and one with two hard links.     *)
(* Both processes want the TCP address or none does; the address, the      *)
(* links and a database that cannot be opened are for two starts, and a    *)
(* process with an application is explored apart from others.              *)
(***************************************************************************)
EXTENDS ServerInstance, TLC

CONSTANTS a, alias, b, h, k, c1, c2, c3, c4, f1, f2, f3

MCCanon == [n \in Names |-> (a :> c1 @@ alias :> c1 @@ b :> c2 @@ h :> c3 @@ k :> c4)[n]]
Up == {p \in Servers : proc[p] # Off}

Apart ==
    /\ \A p, q \in Up : proc[p].tcp = proc[q].tcp
    /\ \A p \in Up : proc[p].app => Up = {p} /\ ~proc[p].tcp
    /\ starts = MaxStarts => \A p \in Up :
           ~proc[p].tcp /\ ~At(p, "undo") /\ Links(proc[p].db) = {proc[p].db}

MCFile == c1 :> f1 @@ c2 :> f2 @@ c3 :> f3 @@ c4 :> f3
=============================================================================
