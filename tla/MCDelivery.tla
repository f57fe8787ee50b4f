----------------------------- MODULE MCDelivery -----------------------------
(* Values of the constants of Delivery for TLC.                            *)
EXTENDS Delivery

CONSTANTS c1, c2

Back == <<c2, c1>>

UpToTwo == [c \in {c1, c2} |-> IF c = c1 THEN 2 ELSE 1]

=============================================================================
