----------------------------- MODULE Settlement -----------------------------
(***************************************************************************)
(* How a payment.transaction of the xpay provider is settled: the checkout *)
(* requests that open platform sessions and supersede those of sibling     *)
(* transactions (services/checkout_service.py), and the two asynchronous   *)
(* paths that report what became of a session, the webhook and the         *)
(* shopper's return (controllers/main.py), both of which end in            *)
(* services/order_sync.py:apply_locked under the row lock.                 *)
(*                                                                         *)
(* A step of a request is what it does between two points where another    *)
(* request can get in: a database search, a call to the platform, the      *)
(* lock, the commit.  The database writes of a request take effect at its  *)
(* commit (Odoo commits when the response is returned) or not at all; a    *)
(* call to the platform takes effect at once and is never rolled back.     *)
(* A read before the lock may be stale: no isolation beyond the lock the   *)
(* source takes is assumed.                                                *)
(***************************************************************************)
EXTENDS Lifecycle, FiniteSets

CONSTANTS
    Tx,            \* payment transactions, each named by its reference
    Session,       \* platform checkout session ids
    Worker,        \* concurrent HTTP requests Odoo can be serving
    Siblings,      \* of a transaction: those on the same sale orders or invoices
    ProcessedCap,  \* length of xpay_processed_event_ids, 20 in the source
    SupersededCap, \* length of xpay_superseded_session_ids, 10 in the source
    Recheckout,    \* whether processing values are asked for again for an
                   \* existing draft transaction
    Amounts,       \* bound: what a session's reported amount may be
    MaxEvents      \* bound: the events the platform emits in a behaviour

ASSUME ConstantsAssumption ==
    /\ None \notin Tx \cup Session \cup Worker
    /\ Unset \notin Session \cup {None}
    /\ Siblings \in [Tx -> SUBSET Tx]
    /\ \A t \in Tx : t \notin Siblings[t]
    /\ ProcessedCap \in Nat \ {0}
    /\ SupersededCap \in Nat \ {0}
    /\ Recheckout \in BOOLEAN
    /\ Amounts \subseteq {"match", "mismatch", "unreadable"}
    /\ MaxEvents \in Nat

VARIABLES
    row,     \* the payment_transaction table
    lock,    \* the row lock of each transaction: the request holding it, or None
    job,     \* what each request being served is at
    parked,  \* payments put in front of a human: <<transaction, session>>
    sess,    \* the platform's checkout sessions
    handed,  \* the sessions whose client secret has reached a shopper
    sent,    \* the webhook events the platform has emitted
    acked    \* those the store has answered 200, no longer redelivered for sure

store    == <<row, lock, job, parked>>
platform == <<sess, sent>>
vars     == <<row, lock, job, parked, sess, handed, sent, acked>>

-----------------------------------------------------------------------------
(* The data.                                                               *)

EventType == CheckoutEvents \cup {PAYMENT_FAILED}

SessionPayload == [id : Session, status : {"open", "complete", "expired"},
            isExpired : BOOLEAN, paymentStatus : {"paid", "unpaid", None}]

\* An event is its own id: the platform emits one event of a type about a
\* session.  A decline carries a payment intent, of which only the session
\* it names matters here.
Event == [type : EventType, session : SessionPayload]

ASSUME NoneIsNoEvent == None \notin Event

\* The payment_data dict; the return route's has no event type and no id.
PaymentData == [event_id : Event \cup {None}, event_type : EventType \cup {None},
                session : SessionPayload]

\* "absent" is a transaction whose creating request has not committed yet.
\* The payment intent and charge ids of a session are named by the session;
\* they are only tested for truth, so an empty one may be None here.
Row == [state : {"absent", "draft", "pending", "done", "cancel", "error"},
        xpay_session_id : Session \cup {Unset},
        superseded : Seq(Session),
        intent : Session \cup {None},
        charge : Session \cup {None},
        processed : Seq(Event)]

NoRow == [state |-> "absent", xpay_session_id |-> Unset, superseded |-> << >>,
          intent |-> None, charge |-> None, processed |-> << >>]

\* What a checkout request read of a sibling when it searched for it.
SeenRow == [xpay_session_id : Session, superseded : Seq(Session)]

ASSUME NoneIsNoSeenRow == None \notin SeenRow

Job == [step : {"idle"}]
       \cup [step : {"reading"}, tx : Tx, session : Session]
       \cup [step : {"found", "locked"}, tx : Tx, data : PaymentData]
       \cup [step : {"sweeping"}, tx : Tx, seen : [Tx -> SeenRow \cup {None}], todo : SUBSET Tx]
       \cup [step : {"storing"}, tx : Tx, seen : [Tx -> SeenRow \cup {None}], session : Session]

Idle == [step |-> "idle"]

\* amount: whether the charge the session reports equals the transaction's
\* amount, differs from it, or cannot be read off the payload
\* (money.session_charge raising ValueError).
PlatformSession == [status : {"none", "open", "complete", "expired"},
                    isExpired : BOOLEAN,
                    paymentStatus : {"paid", "unpaid", None},
                    owner : Tx \cup {None},
                    amount : {"match", "mismatch", "unreadable"}]

NoSession == [status |-> "none", isExpired |-> FALSE, paymentStatus |-> "unpaid",
              owner |-> None, amount |-> "match"]

\* What is told of the session s when it stands as p.
Payload(s, p) == [id |-> s, status |-> p.status, isExpired |-> p.isExpired,
                  paymentStatus |-> p.paymentStatus]

Emitted(type, s) == \E e \in sent : e.type = type /\ e.session.id = s

\* The platform tells of a session as it is from now on.
Emit(type, s, now) ==
    /\ Cardinality(sent) < MaxEvents
    /\ sent' = sent \cup {[type |-> type, session |-> Payload(s, now)]}

-----------------------------------------------------------------------------
(* services/order_sync.py on one row.                                      *)

\* Mutant: whatever amount was charged will do.
ValidateAmount_Off(r, s) == r

\* The framework's amount check, run on whatever session payload reached the
\* transaction, before its lock, its dedupe and its ownership test.
ValidateAmount(r, s) ==
    IF sess[s].amount = "mismatch" THEN [r EXCEPT !.state = SetError(@)] ELSE r

\* Mutant: an id slot that is taken is not written again.
RecordPaymentIds_FirstWins(r, session) ==
    [r EXCEPT !.intent = IF session.status = "complete" THEN session.id ELSE @,
              !.charge = IF session.paymentStatus = "paid" /\ @ = None THEN session.id ELSE @]

\* Only a complete session has a payment intent, and only a paid one a charge.
RecordPaymentIds(r, session) ==
    [r EXCEPT !.intent = IF session.status = "complete" THEN session.id ELSE @,
              !.charge = IF session.paymentStatus = "paid" THEN session.id ELSE @]

\* Mutant: a park records its ids whichever session they are of.
ParkIds_Always(r, session, isCurrent) == RecordPaymentIds(r, session)

\* The id slots after a park.  The row's state never changes.
ParkIds(r, session, isCurrent) ==
    IF isCurrent \/ (r.intent = None /\ r.charge = None)
    THEN RecordPaymentIds(r, session) ELSE r

\* _apply_session_payload's return value.
SessionAction(r, data) ==
    LET relation == Ownership(data.session.id, r.xpay_session_id, r.superseded)
        verdict  == Verdict(data.session, data.event_type)
    IN  CASE relation = "FOREIGN" -> "foreign"
          [] relation = "SUPERSEDED" ->
                IF verdict = "PAID" THEN "superseded_paid" ELSE "superseded_ignored"
          [] relation = "CURRENT" -> Plan(verdict, r.state)

ApplyAction(r, action, session) ==
    CASE action = "SET_DONE" ->
            [RecordPaymentIds(r, session) EXCEPT !.state = SetDone(@)]
      [] action = "SET_PENDING" ->
            [RecordPaymentIds(r, session) EXCEPT !.state = SetPending(@)]
      [] action = "SET_CANCELED" -> [r EXCEPT !.state = SetCanceled(@)]
      [] action = "SET_ERROR" -> [r EXCEPT !.state = SetError(@)]
      [] action = "PARK" -> ParkIds(r, session, TRUE)
      [] action = "superseded_paid" -> ParkIds(r, session, FALSE)
      [] OTHER -> r

Parks(action) == action \in {"PARK", "superseded_paid"}

Replayed(r, data) == data.event_id # None /\ IsReplay(r.processed, data.event_id)

Remember(r, eventId) ==
    IF eventId = None THEN r
    ELSE [r EXCEPT !.processed = RememberEvent(@, eventId, ProcessedCap)]

-----------------------------------------------------------------------------
(* Checkout: _get_specific_processing_values, which is session_for.        *)

InCheckout(t) == \E w \in Worker : job[w].step \in {"sweeping", "storing"} /\ job[w].tx = t

\* The sibling drafts with a session that the domain of
\* _expire_sibling_sessions finds.
OpenSiblings(t) ==
    {u \in Siblings[t] : row[u].state = "draft" /\ row[u].xpay_session_id # Unset}

\* The framework creates the transaction and asks for its processing values
\* in one request, so that the row is seen by no one before the commit.
CheckoutStart(w, t) ==
    /\ job[w] = Idle
    /\ ~InCheckout(t)
    /\ row[t].state = "absent" \/ (Recheckout /\ row[t].state = "draft")
    /\ job' = [job EXCEPT ![w] =
                 [step |-> "sweeping", tx |-> t, todo |-> OpenSiblings(t),
                  seen |-> [u \in Tx |->
                              IF u \in OpenSiblings(t)
                              THEN [xpay_session_id |-> row[u].xpay_session_id,
                                    superseded |-> row[u].superseded]
                              ELSE None]]]
    /\ UNCHANGED <<row, lock, parked, sess, handed, sent, acked>>

\* The platform expires an open session and tells so; of any other session
\* it refuses to.
PlatformExpire(s) ==
    /\ sess[s].status = "open"
    /\ LET now == [sess[s] EXCEPT !.status = "expired", !.isExpired = TRUE]
       IN  sess' = [sess EXCEPT ![s] = now] /\ Emit(EXPIRED_EVENT, s, now)

\* One round of the loop: the expire call may fail, before or after the
\* platform acted on it, and the round goes on.
SweepSibling(w, u) ==
    /\ job[w].step = "sweeping"
    /\ u \in job[w].todo
    /\ job' = [job EXCEPT ![w].todo = @ \ {u}]
    /\ \/ PlatformExpire(job[w].seen[u].xpay_session_id)
       \/ UNCHANGED platform
    /\ UNCHANGED <<row, lock, parked, handed, acked>>

\* The POST: the platform answers with a new session, or, the idempotency
\* key being bound to the transaction and to the request's body, with one it
\* opened for this transaction before.
CreateSession(w, s, amount) ==
    /\ job[w].step = "sweeping"
    /\ job[w].todo = {}
    /\ LET t == job[w].tx IN
       /\ \/ /\ sess[s].status = "none"
             /\ sess' = [sess EXCEPT ![s] = [NoSession EXCEPT !.status = "open", !.owner = t,
                                                              !.amount = amount]]
          \/ sess[s].owner = t /\ sess[s].amount = amount /\ UNCHANGED sess
       /\ job' = [job EXCEPT ![w] = [step |-> "storing", tx |-> t, seen |-> job[w].seen,
                                     session |-> s]]
    /\ UNCHANGED <<row, lock, parked, handed, sent, acked>>

\* Mutant: the id is cleared and not kept.
Supersede_Forgets(r, seen) == [r EXCEPT !.xpay_session_id = Unset]

\* The sibling's write: its current id, as it was read, joins the ledger.
Supersede(r, seen) ==
    [r EXCEPT !.xpay_session_id = Unset,
              !.superseded = Newest(Append(seen.superseded, seen.xpay_session_id),
                                    SupersededCap)]

\* The request's commit and its response: the session is stored, the sweep's
\* writes land, and the shopper gets the client secret.  A write waits for
\* the row's lock, it does not give up.
CheckoutCommit(w) ==
    /\ job[w].step = "storing"
    /\ LET t    == job[w].tx
           seen == job[w].seen
           s    == job[w].session
       IN  /\ \A u \in Tx : (u = t \/ seen[u] # None) => lock[u] = None
           /\ row' = [u \in Tx |->
                        IF u = t THEN
                            [row[t] EXCEPT !.xpay_session_id = s,
                                           !.state = IF @ = "absent" THEN "draft" ELSE @]
                        ELSE IF seen[u] # None THEN Supersede(row[u], seen[u])
                        ELSE row[u]]
           /\ handed' = handed \cup {s}
    /\ job' = [job EXCEPT ![w] = Idle]
    /\ UNCHANGED <<lock, parked, sess, sent, acked>>

-----------------------------------------------------------------------------
(* The webhook route.                                                      *)

\* _search_by_reference: the transaction whose current session this is,
\* else one that has it in its ledger.
SearchBySession(s) ==
    LET current == {t \in Tx : row[t].xpay_session_id = s}
    IN  IF current # {} THEN current
        ELSE {t \in Tx : InSeq(s, row[t].superseded)}

\* _handle_decline looks at current sessions only.
SearchDeclined(s) == {t \in Tx : row[t].xpay_session_id = s}

\* A delivery, the first or a repeated one, that finds a transaction.  One
\* that finds none is answered 404 and changes nothing.
WebhookFind(w, e, t) ==
    /\ job[w] = Idle
    /\ e \in sent
    /\ t \in IF e.type = PAYMENT_FAILED THEN SearchDeclined(e.session.id)
             ELSE SearchBySession(e.session.id)
    /\ job' = [job EXCEPT ![w] =
                 [step |-> "found", tx |-> t,
                  data |-> [event_id |-> e, event_type |-> e.type, session |-> e.session]]]
    /\ UNCHANGED <<row, lock, parked, sess, handed, sent, acked>>

\* The return route: the transaction's session id is read, and then, in
\* ReturnRead, the session itself, from the platform.
ReturnFind(w, t) ==
    /\ job[w] = Idle
    /\ row[t].state # "absent"
    /\ row[t].xpay_session_id # Unset
    /\ job' = [job EXCEPT ![w] = [step |-> "reading", tx |-> t,
                                  session |-> row[t].xpay_session_id]]
    /\ UNCHANGED <<row, lock, parked, sess, handed, sent, acked>>

ReturnRead(w) ==
    /\ job[w].step = "reading"
    /\ job' = [job EXCEPT ![w] =
                 [step |-> "found", tx |-> job[w].tx,
                  data |-> [event_id |-> None, event_type |-> None,
                            session |-> Payload(job[w].session, sess[job[w].session])]]]
    /\ UNCHANGED <<row, lock, parked, sess, handed, sent, acked>>

\* order_sync.lock: SELECT ... FOR UPDATE NOWAIT.
Lock(w) ==
    /\ job[w].step = "found"
    /\ lock[job[w].tx] = None
    /\ lock' = [lock EXCEPT ![job[w].tx] = w]
    /\ job' = [job EXCEPT ![w].step = "locked"]
    /\ UNCHANGED <<row, parked, sess, handed, sent, acked>>

LockBusy_Acks(w) ==
    /\ job[w].step = "found"
    /\ lock[job[w].tx] # None
    /\ job' = [job EXCEPT ![w] = Idle]
    /\ acked' = acked \cup ({job[w].data.event_id} \ {None})
    /\ UNCHANGED <<row, lock, parked, sess, handed, sent>>

\* OrderLockBusy: answered 500, or swallowed by the return route.
LockBusy(w) ==
    /\ job[w].step = "found"
    /\ lock[job[w].tx] # None
    /\ job' = [job EXCEPT ![w] = Idle]
    /\ UNCHANGED <<row, lock, parked, sess, handed, sent, acked>>

\* The end of a request that held the lock: commit and, for a webhook, 200.
Finish(w) ==
    /\ lock' = [lock EXCEPT ![job[w].tx] = None]
    /\ job' = [job EXCEPT ![w] = Idle]
    /\ acked' = acked \cup ({job[w].data.event_id} \ {None})
    /\ UNCHANGED <<sess, handed, sent>>

\* _process and apply_locked.  After an amount mismatch the framework may or
\* may not go on to apply the payload: the sources do not tell.
ApplyLocked(w) ==
    /\ job[w].step = "locked"
    /\ job[w].data.event_type # PAYMENT_FAILED
    /\ LET t      == job[w].tx
           data   == job[w].data
           r      == ValidateAmount(row[t], data.session.id)
           action == SessionAction(r, data)
       IN  \/ /\ sess[data.session.id].amount = "mismatch"
              /\ row' = [row EXCEPT ![t] = r]
              /\ UNCHANGED parked
           \/ /\ Replayed(r, data)
              /\ row' = [row EXCEPT ![t] = r]
              /\ UNCHANGED parked
           \/ /\ ~Replayed(r, data)
              /\ row' = [row EXCEPT ![t] =
                           Remember(ApplyAction(r, action, data.session), data.event_id)]
              /\ parked' = parked \cup (IF Parks(action) THEN {<<t, data.session.id>>} ELSE {})
    /\ Finish(w)

\* note_declined: a note on the documents, which are not modelled, and the
\* event's id.
NoteDeclined(w) ==
    /\ job[w].step = "locked"
    /\ job[w].data.event_type = PAYMENT_FAILED
    /\ LET t    == job[w].tx
           data == job[w].data
       IN  row' = [row EXCEPT ![t] = IF Replayed(@, data) THEN @ ELSE Remember(@, data.event_id)]
    /\ UNCHANGED parked
    /\ Finish(w)

\* Any exception, the loss of the worker, or a refusal on the way (setup not
\* complete, amount too large, no usable method, the API's own errors, a
\* response without id or secret, a URL off the allowlist): the database
\* transaction is rolled back and the platform keeps what it did.
Abort(w) ==
    /\ job[w] # Idle
    /\ job' = [job EXCEPT ![w] = Idle]
    /\ lock' = [t \in Tx |-> IF lock[t] = w THEN None ELSE lock[t]]
    /\ UNCHANGED <<row, parked, sess, handed, sent, acked>>

-----------------------------------------------------------------------------
(* The platform and the shopper.                                           *)

\* The shopper pays, or takes a reference to pay later.  A payment already
\* under way may complete although the session has expired meanwhile.
Complete(s, paymentStatus) ==
    /\ s \in handed
    /\ \/ sess[s].status = "open"
       \/ sess[s].status = "expired" /\ paymentStatus = "paid"
    /\ LET now == [sess[s] EXCEPT !.status = "complete", !.isExpired = FALSE,
                                  !.paymentStatus = paymentStatus]
       IN  sess' = [sess EXCEPT ![s] = now] /\ Emit(COMPLETED, s, now)
    /\ UNCHANGED <<store, handed, acked>>

AsyncSucceed(s) ==
    /\ sess[s].status = "complete" /\ sess[s].paymentStatus # "paid"
    /\ ~Emitted(ASYNC_PAYMENT_FAILED, s)
    /\ LET now == [sess[s] EXCEPT !.paymentStatus = "paid"]
       IN  sess' = [sess EXCEPT ![s] = now] /\ Emit(ASYNC_PAYMENT_SUCCEEDED, s, now)
    /\ UNCHANGED <<store, handed, acked>>

AsyncFail(s) ==
    /\ sess[s].status = "complete" /\ sess[s].paymentStatus # "paid"
    /\ ~Emitted(ASYNC_PAYMENT_FAILED, s)
    /\ Emit(ASYNC_PAYMENT_FAILED, s, sess[s])
    /\ UNCHANGED <<store, sess, handed, acked>>

\* The session's time is over: the flag may be up before the status moves.
Overdue(s) ==
    /\ sess[s].status = "open" /\ ~sess[s].isExpired
    /\ sess' = [sess EXCEPT ![s].isExpired = TRUE]
    /\ UNCHANGED <<store, handed, sent, acked>>

ExpireSession(s) == PlatformExpire(s) /\ UNCHANGED <<store, handed, acked>>

Decline(s) ==
    /\ s \in handed
    /\ sess[s].status = "open"
    /\ ~Emitted(PAYMENT_FAILED, s)
    /\ Emit(PAYMENT_FAILED, s, sess[s])
    /\ UNCHANGED <<store, sess, handed, acked>>

-----------------------------------------------------------------------------
Init ==
    /\ row = [t \in Tx |-> NoRow]
    /\ lock = [t \in Tx |-> None]
    /\ job = [w \in Worker |-> Idle]
    /\ parked = {}
    /\ sess = [s \in Session |-> NoSession]
    /\ handed = {}
    /\ sent = {}
    /\ acked = {}

RequestStep(w) ==
    \/ \E t \in Tx : CheckoutStart(w, t) \/ SweepSibling(w, t) \/ ReturnFind(w, t)
    \/ \E s \in Session, amount \in Amounts :
            CreateSession(w, s, amount)
    \/ \E e \in sent, t \in Tx : WebhookFind(w, e, t)
    \/ CheckoutCommit(w)
    \/ ReturnRead(w)
    \/ Lock(w) \/ LockBusy(w)
    \/ ApplyLocked(w) \/ NoteDeclined(w)
    \/ Abort(w)

PlatformStep(s) ==
    \/ \E paymentStatus \in {"paid", "unpaid", None} : Complete(s, paymentStatus)
    \/ AsyncSucceed(s) \/ AsyncFail(s)
    \/ Overdue(s) \/ ExpireSession(s)
    \/ Decline(s)

Next ==
    \/ \E w \in Worker : RequestStep(w)
    \/ \E s \in Session : PlatformStep(s)

Spec == Init /\ [][Next]_vars

-----------------------------------------------------------------------------
(* Properties.                                                             *)

\* The type of every variable, with the caps of the two lists.
TypeOK ==
    /\ row \in [Tx -> Row]
    /\ \A t \in Tx : /\ Len(row[t].processed) <= ProcessedCap
                     /\ Len(row[t].superseded) <= SupersededCap
    /\ lock \in [Tx -> Worker \cup {None}]
    /\ job \in [Worker -> Job]
    /\ parked \in SUBSET (Tx \X Session)
    /\ sess \in [Session -> PlatformSession]
    /\ handed \in SUBSET Session
    /\ sent \in SUBSET Event
    /\ acked \in SUBSET sent

\* "Payment done exactly once", order_sync.py: a transaction that is done
\* was settled by a session opened for itself, which the platform did
\* charge, for the transaction's amount; and the intent and the charge that
\* a later refund is matched by are both that session's.
DoneByOwnPaidSession ==
    \A t \in Tx : row[t].state = "done" =>
        LET s == row[t].intent IN
        /\ s # None
        /\ row[t].charge = s
        /\ sess[s].owner = t
        /\ sess[s].paymentStatus = "paid"
        /\ sess[s].amount # "mismatch"

\* The session settled a transaction, or was put in front of a human.
Accounted(s) == \E t \in Tx : \/ row[t].state = "done" /\ row[t].intent = s
                              \/ <<t, s>> \in parked

PaidEvent(e) == e.type \in CheckoutEvents /\ Verdict(e.session, e.type) = "PAID"

\* A sibling's sweep took the session away and left nothing in its place.
Swept(s) == \E t \in Tx : row[t].xpay_session_id = Unset /\ InSeq(s, row[t].superseded)

AccountedOrSwept(s) == Accounted(s) \/ Swept(s)

\* A 200 is the last the platform says of an event: once one that reports
\* money was answered so, the money has been applied or escalated, whatever
\* arrived before, after or at the same time.  The one exception is a session
\* that a sibling's sweep took away (SupersededPaymentIsParked).
OnlySweptPaymentsAreDropped ==
    \A e \in acked :
        PaidEvent(e) /\ sess[e.session.id].amount # "mismatch" => AccountedOrSwept(e.session.id)

\* checkout_service, where it moves a sibling's session to the ledger: "a
\* late payment on it is then parked for a human, never applied as if it
\* were the attempt the shopper is looking at".  At the latest when its
\* event is answered 200, since nothing tells of it again.  The code does
\* not keep this: the same write empties the stored id, and Ownership then
\* answers FOREIGN.
SupersededPaymentIsParked ==
    \A e \in acked, t \in Tx :
        PaidEvent(e) /\ InSeq(e.session.id, row[t].superseded) => Accounted(e.session.id)

\* Only money is escalated: a human is never sent to look for a payment the
\* platform does not have.
ParkedIsPaid == \A p \in parked : sess[p[2]].paymentStatus = "paid"

\* Every session a shopper can still pay leads back to its transaction, by
\* its current id or by its ledger: the sweep of a sibling's checkout moves
\* ids and never loses one, so that no report of it is answered 404.  What
\* is then made of the report is another matter (SupersededPaymentIsParked).
HandedSessionFindable ==
    \A s \in handed : \E t \in Tx :
        sess[s].owner = t /\ (row[t].xpay_session_id = s \/ InSeq(s, row[t].superseded))

Closed(st) == st \in {"done", "cancel", "error"}

\* lifecycle.plan: "out-of-order webhook delivery must never reopen or
\* reclose a transaction whose state has already moved on".  A done
\* transaction keeps its references too.
ClosedStaysClosed ==
    [][\A t \in Tx : Closed(row[t].state) =>
          /\ row'[t].state = row[t].state
          /\ row[t].state = "done" => /\ row'[t].intent = row[t].intent
                                      /\ row'[t].charge = row[t].charge]_vars

\* _park: a reference a transaction was issued survives every payment on
\* another session; only a report of its current session replaces it.
IssuedReferenceSurvives ==
    [][\A t \in Tx : row[t].intent \notin {None, row'[t].intent} =>
          row'[t].intent = row[t].xpay_session_id]_vars

\* checkout_service: a late payment on a superseded session is "never applied
\* as if it were the attempt the shopper is looking at", not even by a
\* request that found the transaction before its session was superseded.
\* Whether it is parked is SupersededPaymentIsParked.
SupersededNeverSettles ==
    [][\A t \in Tx : row[t].state # "done" /\ row'[t].state = "done" =>
          row'[t].intent = row[t].xpay_session_id]_vars

\* The transaction waiting for a deferred payment is not canceled by the
\* expiry of any session: only a failure or a payment ends the wait.
PendingNotCanceled ==
    [][\A t \in Tx : row[t].state = "pending" => row'[t].state # "cancel"]_vars

-----------------------------------------------------------------------------
(* The inductive invariant: what every reachable state satisfies when      *)
(* session_for runs once per transaction.                                  *)

CheckingOut(w) == job[w].step \in {"sweeping", "storing"}
Applying(w)    == job[w].step \in {"found", "locked"}

Holds(t, s) == row[t].xpay_session_id = s \/ InSeq(s, row[t].superseded)

\* What a request knows stays true while it is being served.
JobInv(w) ==
    /\ CheckingOut(w) =>
          /\ row[job[w].tx].state = "absent"
          /\ \A u \in Tx : job[w].seen[u] # None =>
                /\ Holds(u, job[w].seen[u].xpay_session_id)
                /\ \A s \in Session : InSeq(s, job[w].seen[u].superseded) => Holds(u, s)
    /\ job[w].step = "sweeping" => \A u \in job[w].todo : job[w].seen[u] # None
    /\ job[w].step = "storing" => sess[job[w].session].owner = job[w].tx
    /\ job[w].step = "reading" => Holds(job[w].tx, job[w].session)
    /\ Applying(w) =>
          LET data == job[w].data IN
          /\ Holds(job[w].tx, data.session.id)
          /\ data.session.paymentStatus = "paid" => sess[data.session.id].paymentStatus = "paid"
          /\ data.event_id = None => data.event_type = None
          /\ data.event_id # None => /\ data.event_id \in sent
                                     /\ data.event_id.type = data.event_type
                                     /\ data.event_id.session = data.session

\* A transaction is created by one request.
CreatorInv == \A w, v \in Worker :
    CheckingOut(w) /\ CheckingOut(v) /\ job[w].tx = job[v].tx => w = v

\* A transaction has one session, and the session one transaction.
OwnershipInv ==
    /\ \A s \in Session : /\ sess[s].status = "none" => sess[s].owner = None
                          /\ sess[s].paymentStatus = "paid" => sess[s].status = "complete"
    /\ \A t \in Tx : row[t].state = "absent" => row[t] = NoRow
    /\ \A t \in Tx, s \in Session : Holds(t, s) => s \in handed /\ sess[s].owner = t
    /\ \A s \in handed : sess[s].owner # None /\ Holds(sess[s].owner, s)
    /\ \A s, z \in handed : sess[s].owner = sess[z].owner => s = z

\* What is told of a session was true, and money that moved stays moved.
TruthInv == \A e \in sent :
    e.session.paymentStatus = "paid" => sess[e.session.id].paymentStatus = "paid"

DoneInv ==
    /\ DoneByOwnPaidSession
    /\ \A t \in Tx : row[t].state = "done" => row[t].xpay_session_id \in {Unset, row[t].intent}

\* An event the transaction remembers would not be treated otherwise a second
\* time.
ProcessedInv ==
    \A t \in Tx, e \in Event : InSeq(e, row[t].processed) =>
        /\ e \in sent
        /\ PaidEvent(e) /\ sess[e.session.id].amount # "mismatch" => AccountedOrSwept(e.session.id)

StoreInv == /\ OwnershipInv
            /\ TruthInv
            /\ DoneInv
            /\ ParkedIsPaid
            /\ ProcessedInv
            /\ OnlySweptPaymentsAreDropped

IInv == TypeOK /\ StoreInv /\ CreatorInv /\ \A w \in Worker : JobInv(w)

-----------------------------------------------------------------------------
(* What holds however often session_for runs for one transaction; it is    *)
(* inductive by itself.                                                    *)

\* A session no one opened is no one's, and only a complete one is paid.
SessionsSound ==
    \A s \in Session : /\ sess[s].status = "none" => sess[s].owner = None
                       /\ sess[s].paymentStatus = "paid" => sess[s].status = "complete"

\* DoneByOwnPaidSession without the amount.
SettledByOwnSession ==
    \A t \in Tx : row[t].state = "done" =>
        LET s == row[t].intent IN
        /\ s # None
        /\ row[t].charge = s
        /\ sess[s].owner = t
        /\ sess[s].paymentStatus = "paid"

CoreStoreInv ==
    /\ SessionsSound
    /\ \A t \in Tx : row[t].state = "absent" => row[t] = NoRow
    /\ \A t \in Tx, s \in Session : Holds(t, s) => sess[s].owner = t
    /\ TruthInv
    /\ SettledByOwnSession
    /\ ParkedIsPaid

CoreJobInv(w) ==
    /\ CheckingOut(w) => \A u \in Tx : job[w].seen[u] # None =>
          /\ row[u].state # "absent"
          /\ sess[job[w].seen[u].xpay_session_id].owner = u
          /\ \A s \in Session : InSeq(s, job[w].seen[u].superseded) => sess[s].owner = u
    /\ job[w].step = "sweeping" => \A u \in job[w].todo : job[w].seen[u] # None
    /\ job[w].step = "storing" => sess[job[w].session].owner = job[w].tx
    /\ job[w].step = "reading" => /\ row[job[w].tx].state # "absent"
                                  /\ sess[job[w].session].owner = job[w].tx
    /\ Applying(w) =>
          /\ row[job[w].tx].state # "absent"
          /\ job[w].data.session.paymentStatus = "paid" =>
                sess[job[w].data.session.id].paymentStatus = "paid"
          /\ job[w].data.event_id # None => job[w].data.event_id \in sent

CoreInv == TypeOK /\ CoreStoreInv /\ \A w \in Worker : CoreJobInv(w)

-----------------------------------------------------------------------------
(* The promise of Payment, and the state functions that stand for its      *)
(* variables.                                                              *)

OutcomeOf(st) == IF st = "done" THEN "done"
                 ELSE IF st \in {"cancel", "error"} THEN "closed" ELSE "open"

Promise == INSTANCE Payment WITH
    outcome   <- [t \in Tx |-> OutcomeOf(row[t].state)],
    paid      <- {s \in Session : sess[s].paymentStatus = "paid"},
    applied   <- {p \in Tx \X Session : row[p[1]].state = "done" /\ row[p[1]].intent = p[2]},
    escalated <- parked

\* The store and the platform together keep the promise.
KeepsPromise == Promise!PSpec

-----------------------------------------------------------------------------
(* Fairness.  The platform redelivers an event until it is answered 200,   *)
(* and a request being served ends.  A delivery may meet a busy lock or a  *)
(* crash any number of times, not every time.                              *)

\* The platform tells a worker again, while no 200 has answered it, that s
\* is paid.
RedeliverPaid(s) ==
    \E w \in Worker, e \in sent \ acked, t \in Tx :
        /\ e.session.id = s
        /\ e.session.paymentStatus = "paid"
        /\ lock[t] = None
        /\ WebhookFind(w, e, t)

\* w is serving a webhook that tells that s is paid.
ServesPaid(w, s) ==
    /\ job[w].step \in {"found", "locked"}
    /\ job[w].data.session.id = s
    /\ job[w].data.session.paymentStatus = "paid"

Fairness ==
    /\ \A w \in Worker : WF_vars(RequestStep(w))
    /\ \A s \in Session :
            /\ SF_vars(RedeliverPaid(s))
            /\ SF_vars(\E w \in Worker : ServesPaid(w, s) /\ Lock(w))
            /\ SF_vars(\E w \in Worker : ServesPaid(w, s) /\ ApplyLocked(w))

FairSpec == Spec /\ Fairness

\* Every payment of the right amount is in the end applied or escalated,
\* unless a sibling's sweep takes its session away.
UnsweptEventuallyAccounted ==
    \A s \in Session :
        (sess[s].paymentStatus = "paid" /\ sess[s].amount # "mismatch") ~> AccountedOrSwept(s)

=============================================================================
