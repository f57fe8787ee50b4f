-------------------------- MODULE MCRequestManager --------------------------
(* Values of the constants of RequestManager for TLC.                      *)
EXTENDS RequestManager

CONSTANTS c1, c2, u1, u2, Nothing

\* One client has time to log in and out, the other for one command meanwhile.
Limits == [c \in {c1, c2} |-> IF c = c1 THEN 2 ELSE 1]

=============================================================================
