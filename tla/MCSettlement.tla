---------------------------- MODULE MCSettlement ----------------------------
(* Small instances of Settlement for TLC. *)
EXTENDS Settlement, TLC

CONSTANTS t1, t2, w1, w2, s1, s2, s3

\* t1 and t2 pay for the same order.
SameOrder == t1 :> {t2} @@ t2 :> {t1}

\* t1 alone.
NoSiblings == t1 :> {}

\* Nothing tells the workers, nor the sessions, nor t1 and t2 apart.
Symmetric == Permutations({w1, w2}) \cup Permutations({s1, s2}) \cup Permutations({t1, t2})

SymmetricSessions == Permutations({s1, s2, s3}) \cup Permutations({t1, t2})

SymmetricWorkers == Permutations({w1, w2})

=============================================================================
