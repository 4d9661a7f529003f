------------------------------- MODULE Numbers -------------------------------
(* Extremes of sets of natural numbers. *)
EXTENDS Naturals

(* The greatest element; 0 if there is none, as SQL's COALESCE(MAX(..), 0). *)
MaxOf(S) == IF S = {} THEN 0 ELSE CHOOSE x \in S : \A y \in S : y <= x

(* The least element of a non-empty set. *)
MinOf(S) == CHOOSE x \in S : \A y \in S : x <= y

(* SQL's MAX(a, b). *)
Larger(a, b) == IF a < b THEN b ELSE a
=============================================================================
