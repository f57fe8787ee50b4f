-------------------------- MODULE MCConnectedUsers --------------------------
(* Values of the constants of ConnectedUsers for TLC.                      *)
EXTENDS ConnectedUsers, TLC

CONSTANTS c1, c2, c3, u1, u2, f1, f2, f3, NoOne

Interchangeable == Permutations({c1, c2, c3}) \cup Permutations({u1, u2})
                     \cup Permutations({f1, f2, f3})
Pairwise == Permutations({c1, c2}) \cup Permutations({u1, u2})
                     \cup Permutations({f1, f2})

=============================================================================
