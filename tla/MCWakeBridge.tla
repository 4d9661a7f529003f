---------------------------- MODULE MCWakeBridge ----------------------------
(* Calls are interchangeable; the events differ in priority and in whether *)
(* their caller supplies the time.                                         *)
EXTENDS WakeBridge, TLC

CONSTANTS c1, c2

MCCalls == {c1, c2}
CallsSymmetric == Permutations(Calls)
=============================================================================
