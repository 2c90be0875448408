----------------------------- MODULE MCConnect -----------------------------
(* Small instances of Connect for TLC. *)
EXTENDS Connect, TLC

CONSTANTS w1, w2, k1, k2, k3, o1, o2, o3, o4

\* Nothing tells the workers, the keys nor the operation ids apart.
Symmetric ==
    Permutations({w1, w2}) \cup Permutations({k1, k2, k3}) \cup Permutations({o1, o2, o3, o4})

=============================================================================
