------------------------------ MODULE Payment -------------------------------
(***************************************************************************)
(* What the integration promises of payments, said without requests, locks *)
(* or messages ("payment done exactly once", services/order_sync.py; "the  *)
(* module never silently completes or refunds money it cannot account      *)
(* for", _park): a transaction is open until it is settled by one payment  *)
(* made for it or closed without one, and is never reopened; all that is   *)
(* ever made of other money is to put it in front of a human.  That this   *)
(* happens is not part of the promise.                                     *)
(***************************************************************************)
CONSTANTS Tx, Session

VARIABLES
    outcome,    \* of a transaction: "open", "done" or "closed" (canceled, in error)
    paid,       \* the sessions on which money has moved
    applied,    \* <<t, s>>: s is the payment that settled t
    escalated   \* <<t, s>>: a human was told of the payment s while t was looked at

pvars == <<outcome, paid, applied, escalated>>

PInit ==
    /\ outcome = [t \in Tx |-> "open"]
    /\ paid = {}
    /\ applied = {}
    /\ escalated = {}

Pay(s) ==
    /\ paid' = paid \cup {s}
    /\ UNCHANGED <<outcome, applied, escalated>>

Settle(t, s) ==
    /\ outcome[t] = "open"
    /\ s \in paid
    /\ \A u \in Tx : <<u, s>> \notin applied
    /\ outcome' = [outcome EXCEPT ![t] = "done"]
    /\ applied' = applied \cup {<<t, s>>}
    /\ UNCHANGED <<paid, escalated>>

Close(t) ==
    /\ outcome[t] = "open"
    /\ outcome' = [outcome EXCEPT ![t] = "closed"]
    /\ UNCHANGED <<paid, applied, escalated>>

\* A payment of the wrong amount closes its transaction as it is escalated.
Escalate(t, s) ==
    /\ s \in paid
    /\ escalated' = escalated \cup {<<t, s>>}
    /\ \/ UNCHANGED outcome
       \/ outcome[t] = "open" /\ outcome' = [outcome EXCEPT ![t] = "closed"]
    /\ UNCHANGED <<paid, applied>>

PNext ==
    \/ \E s \in Session : Pay(s)
    \/ \E t \in Tx : Close(t)
    \/ \E t \in Tx, s \in Session : Settle(t, s) \/ Escalate(t, s)

PSpec == PInit /\ [][PNext]_pvars
=============================================================================
