----------------------------- MODULE MCRefunds ------------------------------
(* Small instances of Refunds for TLC. *)
EXTENDS Refunds, TLC

CONSTANTS w1, w2, r1, r2

SymmetricWorkers == Permutations({w1, w2})
SymmetricRefunds == Permutations({r1, r2})
=============================================================================
