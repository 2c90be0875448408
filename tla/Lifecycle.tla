----------------------------- MODULE Lifecycle -----------------------------
(***************************************************************************)
(* The payment-lifecycle rules of xpay_payment/xpay/lifecycle.py: what a   *)
(* checkout session's payload means, whose session it is, and what that    *)
(* means for a transaction in a given state.  Pure operators, used by      *)
(* every module that settles or refunds a payment.                         *)
(***************************************************************************)
EXTENDS Integers, Sequences

CONSTANTS
    None,    \* Python's None, and an absent value where code only tests its truth
    Unset    \* the False that the ORM reads from an empty Char field: not None

-----------------------------------------------------------------------------
(* Webhook event names, xpay/events.py.                                    *)

COMPLETED              == "checkout.session.completed"
EXPIRED_EVENT          == "checkout.session.expired"
ASYNC_PAYMENT_SUCCEEDED == "checkout.session.async_payment_succeeded"
ASYNC_PAYMENT_FAILED   == "checkout.session.async_payment_failed"
PAYMENT_FAILED         == "payment_intent.payment_failed"

CheckoutEvents == {COMPLETED, EXPIRED_EVENT, ASYNC_PAYMENT_SUCCEEDED, ASYNC_PAYMENT_FAILED}

-----------------------------------------------------------------------------
(* A session payload is a record with the fields id, status, isExpired and *)
(* paymentStatus, the last one None when the payload lacks it.             *)

\* Mutant: a payload without a paymentStatus passes for a paid one.
Verdict_AbsentIsPaid(session, eventType) ==
    IF session.status = "complete" /\ session.paymentStatus # "unpaid" THEN "PAID"
    ELSE IF session.status = "complete" THEN "AWAITING"
    ELSE "UNKNOWN"

\* The order of the tests is the source's: each one is reached only when
\* those before it did not decide.
Verdict(session, eventType) ==
    IF session.paymentStatus = None THEN "UNKNOWN"
    ELSE IF eventType = ASYNC_PAYMENT_FAILED THEN "FAILED"
    ELSE IF session.status = "expired" \/ session.isExpired THEN "EXPIRED"
    ELSE IF session.status # "complete" THEN "UNKNOWN"
    ELSE IF session.paymentStatus = "paid" THEN "PAID"
    ELSE IF session.paymentStatus = "unpaid" THEN "AWAITING"
    ELSE "UNKNOWN"

InSeq(x, seq) == \E i \in 1..Len(seq) : seq[i] = x

\* Mutant: a session of the ledger counts as the transaction's own.
Ownership_LedgerIsOwn(sessionId, storedId, superseded) ==
    IF sessionId = storedId \/ InSeq(sessionId, superseded) THEN "CURRENT" ELSE "FOREIGN"

\* An empty stored id is not None, so it reaches compare_digest, which takes
\* no False: the TypeError answers FOREIGN before the ledger is consulted.
Ownership(sessionId, storedId, superseded) ==
    IF storedId = Unset THEN "FOREIGN"
    ELSE IF storedId # None /\ sessionId = storedId THEN "CURRENT"
    ELSE IF InSeq(sessionId, superseded) THEN "SUPERSEDED"
    ELSE "FOREIGN"

\* Mutant: money that arrives on a closed transaction is dropped.
Plan_NoPark(verdict, txState) ==
    CASE verdict = "PAID" /\ txState \notin {"cancel", "error"} -> "SET_DONE"
      [] verdict = "AWAITING" /\ txState = "draft" -> "SET_PENDING"
      [] verdict = "EXPIRED"  /\ txState = "draft" -> "SET_CANCELED"
      [] verdict = "FAILED"   /\ txState \in {"draft", "pending"} -> "SET_ERROR"
      [] OTHER -> "NONE"

\* Mutant: the state of the transaction is left to the setters alone.
Plan_Unguarded(verdict, txState) ==
    CASE verdict = "PAID" -> "SET_DONE"
      [] verdict = "AWAITING" -> "SET_PENDING"
      [] verdict = "EXPIRED" -> "SET_CANCELED"
      [] verdict = "FAILED" -> "SET_ERROR"
      [] OTHER -> "NONE"

\* Mutant: any completed session parks on a closed transaction.
Plan_ParksUnpaid(verdict, txState) ==
    CASE verdict \in {"PAID", "AWAITING"} /\ txState \in {"cancel", "error"} -> "PARK"
      [] verdict = "PAID" -> "SET_DONE"
      [] verdict = "AWAITING" /\ txState = "draft" -> "SET_PENDING"
      [] verdict = "EXPIRED"  /\ txState = "draft" -> "SET_CANCELED"
      [] verdict = "FAILED"   /\ txState \in {"draft", "pending"} -> "SET_ERROR"
      [] OTHER -> "NONE"

Plan(verdict, txState) ==
    CASE verdict = "PAID" ->
            IF txState \in {"cancel", "error"} THEN "PARK" ELSE "SET_DONE"
      [] verdict = "AWAITING" /\ txState = "draft" -> "SET_PENDING"
      [] verdict = "EXPIRED"  /\ txState = "draft" -> "SET_CANCELED"
      [] verdict = "FAILED"   /\ txState \in {"draft", "pending"} -> "SET_ERROR"
      [] OTHER -> "NONE"

-----------------------------------------------------------------------------
(* The bounded list of processed event ids.                                *)

\* Mutant: the list grows without bound.
Newest_Uncapped(seq, cap) == seq

\* seq[-cap:]
Newest(seq, cap) ==
    IF Len(seq) <= cap THEN seq ELSE SubSeq(seq, Len(seq) - cap + 1, Len(seq))

IsReplay(processed, eventId) == InSeq(eventId, processed)

Without(seq, x) == SelectSeq(seq, LAMBDA y : y # x)

RememberEvent(processed, eventId, cap) ==
    LET deduped == IF IsReplay(processed, eventId)
                   THEN Without(processed, eventId) ELSE processed
    IN  Newest(Append(deduped, eventId), cap)

-----------------------------------------------------------------------------
(* The framework's setters: each is a no-op from any other state.          *)

SetPending(st)  == IF st = "draft" THEN "pending" ELSE st
SetDone(st)     == IF st \in {"draft", "pending", "error"} THEN "done" ELSE st
SetCanceled(st) == IF st \in {"draft", "pending"} THEN "cancel" ELSE st
SetError(st)    == IF st \in {"draft", "pending"} THEN "error" ELSE st
=============================================================================
