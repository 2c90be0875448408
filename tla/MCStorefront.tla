---------------------------- MODULE MCStorefront ----------------------------
(* Small instances of Storefront.                                          *)
EXTENDS Storefront, TLC

CONSTANTS w1, w2, m1, m2, c1, c2

\* Two customers of two accounts, and of two planes.
SomeOwners ==
    { (c1 :> <<"test", m1>>) @@ (c2 :> other) :
        other \in { <<"test", m2>>, <<"live", m1>> } }

SymmetricWorkers == Permutations({w1, w2})
=============================================================================
