-------------------------- MODULE IdempotencyKeys --------------------------
(***************************************************************************)
(* The idempotency keys of xpay/idempotency.py, as sequences of tokens     *)
(* (strings).  The digest of anything is one token, its text, which no     *)
(* reference contains: a digest that never collides.  Budget is _BUDGET,   *)
(* in tokens; Unsafe are the tokens the key's alphabet lacks.              *)
(***************************************************************************)
EXTENDS Integers, Sequences, TLC

CONSTANTS Budget, Unsafe

\* _sanitize: what the platform's key alphabet lacks becomes a dash.
Sanitize(reference) ==
    [i \in DOMAIN reference |-> IF reference[i] \in Unsafe THEN "-" ELSE reference[i]]

\* The first n tokens, or all.
Cut(tokens, n) == SubSeq(tokens, 1, IF Len(tokens) < n THEN Len(tokens) ELSE n)

Digest(text) == ToString(text)

Keyed_CutBlindly(prefix, reference, suffix) == Cut(prefix \o reference \o suffix, Budget)

(***************************************************************************)
(* _keyed: prefix and suffix tell operations apart and are never cut; a    *)
(* reference that does not fit is, and its digest takes the place of the   *)
(* rest.                                                                   *)
(***************************************************************************)
Keyed(prefix, reference, suffix) ==
    LET room == Budget - Len(prefix) - Len(suffix)
        kept == Cut(reference, room - 2)
    IN  prefix
        \o (IF Len(reference) <= room THEN reference
            ELSE kept \o <<"_", Digest(reference)>>)
        \o suffix

SessionKey(reference, attempt, retry) ==
    Keyed(<<"odoo_">>, Sanitize(reference),
          <<"_s", ToString(attempt)>> \o (IF retry THEN <<"r">> ELSE <<>>))

RefundKeyText(reference, recorded, rejected, minor) ==
    Keyed(<<"odoo_ref_">>, Sanitize(reference),
          <<"_n", ToString(recorded), "_x", ToString(rejected), "_", ToString(minor)>>)

\* bind_to_body: cut to the budget, then the hash of the body.
BindToBody(key, body) == Cut(key, Budget) \o <<"_", Digest(body)>>
=============================================================================
