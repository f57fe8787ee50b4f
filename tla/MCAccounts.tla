----------------------------- MODULE MCAccounts -----------------------------
(* Values of the constants of Accounts for TLC.                            *)
EXTENDS Accounts, TLC

CONSTANTS r1, r2, r3, n1, n2, w1, w2, Noise, Nothing

Typed    == {<<w1>>, <<w2>>, <<w1, w2>>}
AnyFile  == {<<>>, <<<<n1, w1>>>>, <<<<n1, w1>>, <<n2, w1>>>>}
AnyOrder == Permutations({r1, r2, r3})

=============================================================================
