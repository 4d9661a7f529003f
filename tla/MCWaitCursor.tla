---------------------------- MODULE MCWaitCursor ----------------------------
(* Two senders; the other bounds are in the cfg files.                     *)
EXTENDS WaitCursor

CONSTANTS s1, s2

MCSenders == {s1, s2}

(* What each command is explored with: peers' messages and the kind of row *)
(* its own code treats differently.                                        *)
KindsOf == [follow |-> {"chat", "thinking"},
            loop   |-> {"chat", "self"},
            drain  |-> {"chat", "filtered"}]
KindsBound == \A q \in Seqs : kind[q] \in {"free"} \cup KindsOf[mode]

(* A behaviour has a loss (of a connection, a page, the server) or a       *)
(* killed process, not both.                                               *)
OneTrouble == losses + crashes <= 1
=============================================================================
