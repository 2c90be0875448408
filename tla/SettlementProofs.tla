-------------------------- MODULE SettlementProofs --------------------------
(***************************************************************************)
(* Proofs about Settlement.  With one run of session_for per transaction,  *)
(* IInv is inductive; "done exactly once", which acknowledged payments may *)
(* be dropped (those of swept sessions, and no other), what a step may do  *)
(* to a row and the refinement of Payment follow from it.  With any number *)
(* of runs, CoreInv is; type correctness, that only a session of its own   *)
(* settles a transaction, and most of what a step may do follow from that  *)
(* one alone.                                                              *)
(***************************************************************************)
EXTENDS Settlement, LifecycleProofs, SequenceTheorems, TLAPS

-----------------------------------------------------------------------------
(* The two bounded lists.                                                  *)

\* A sibling's ledger after the sweep: what it had, and the swept id.
LEMMA SupersedeFacts ==
    ASSUME NEW r \in Row, NEW seen \in SeenRow
    PROVE  /\ Supersede(r, seen) \in Row
           /\ Len(Supersede(r, seen).superseded) <= SupersededCap
           /\ Supersede(r, seen).xpay_session_id = Unset
           /\ InSeq(seen.xpay_session_id, Supersede(r, seen).superseded)
           /\ \A x : InSeq(x, Supersede(r, seen).superseded)
                       => InSeq(x, seen.superseded) \/ x = seen.xpay_session_id
           /\ \A f \in {"state", "intent", "charge", "processed"} :
                Supersede(r, seen)[f] = r[f]
<1> DEFINE app == Append(seen.superseded, seen.xpay_session_id)
           led == Newest(app, SupersededCap)
<1>1. seen.superseded \in Seq(Session) /\ seen.xpay_session_id \in Session
  BY DEF SeenRow
<1>2. /\ app \in Seq(Session)
      /\ Len(app) > 0
      /\ app[Len(app)] = seen.xpay_session_id
      /\ \A x : InSeq(x, app) => InSeq(x, seen.superseded) \/ x = seen.xpay_session_id
  BY <1>1, AppendFacts
<1>3. SupersededCap \in Nat \ {0}
  BY ConstantsAssumption
<1> HIDE DEF app
<1>4. /\ led \in Seq(Session)
      /\ Len(led) <= SupersededCap
      /\ \A x : InSeq(x, led) => InSeq(x, app)
      /\ InSeq(seen.xpay_session_id, led)
  <2>1. Len(app) > 0 => InSeq(app[Len(app)], led)
    BY <1>2, <1>3, NewestFacts
  <2> QED
    BY <1>2, <1>3, <2>1, NewestFacts
<1>5. Supersede(r, seen) = [r EXCEPT !.xpay_session_id = Unset, !.superseded = led]
  BY DEF Supersede, app
<1> HIDE DEF led
<1> QED
  BY <1>2, <1>4, <1>5 DEF Row

-----------------------------------------------------------------------------
(* Types.                                                                  *)

\* A request that is at work has all the fields of one.
LEMMA JobFacts ==
    ASSUME NEW w \in Worker, job \in [Worker -> Job]
    PROVE  /\ job[w].step \in {"idle", "reading", "found", "locked", "sweeping", "storing"}
           /\ job[w].step = "reading" => job[w].tx \in Tx /\ job[w].session \in Session
           /\ Applying(w) => job[w].tx \in Tx /\ job[w].data \in PaymentData
           /\ CheckingOut(w) => job[w].tx \in Tx /\ job[w].seen \in [Tx -> SeenRow \cup {None}]
           /\ job[w].step = "sweeping" => job[w].todo \in SUBSET Tx
           /\ job[w].step = "storing" => job[w].session \in Session
<1>1. job[w] \in Job
  OBVIOUS
<1> QED
  BY <1>1 DEF Job, Applying, CheckingOut

LEMMA InitTypeOK == Init => TypeOK
<1> SUFFICES ASSUME Init PROVE TypeOK
  OBVIOUS
<1>1. NoRow \in Row /\ Len(NoRow.processed) = 0 /\ Len(NoRow.superseded) = 0
  BY DEF NoRow, Row
<1>2. NoSession \in PlatformSession
  BY DEF NoSession, PlatformSession
<1>3. Idle \in Job
  BY DEF Idle, Job
<1>4. ProcessedCap \in Nat /\ SupersededCap \in Nat /\ ProcessedCap >= 0 /\ SupersededCap >= 0
  BY ConstantsAssumption
<1>5. /\ row \in [Tx -> Row]
      /\ \A t \in Tx : row[t] = NoRow
      /\ sess \in [Session -> PlatformSession]
      /\ job \in [Worker -> Job]
      /\ lock \in [Tx -> Worker \cup {None}]
  BY <1>1, <1>2, <1>3 DEF Init
<1>6. parked = {} /\ handed = {} /\ sent = {} /\ acked = {}
  BY DEF Init
<1> QED
  BY <1>1, <1>4, <1>5, <1>6 DEF TypeOK

LEMMA InitIInv == Init => IInv
<1> SUFFICES ASSUME Init PROVE IInv
  OBVIOUS
<1>1. TypeOK
  BY InitTypeOK
<1>2. \A t \in Tx : row[t] = NoRow
  BY DEF Init
<1>3. \A t \in Tx : /\ row[t].state = "absent"
                    /\ row[t].xpay_session_id = Unset
                    /\ \A x : ~InSeq(x, row[t].superseded) /\ ~InSeq(x, row[t].processed)
  BY <1>2 DEF NoRow, InSeq
<1>4. \A s \in Session : sess[s] = NoSession
  BY DEF Init
<1>5. \A w \in Worker : job[w] = Idle
  BY DEF Init
<1>6. handed = {} /\ parked = {} /\ sent = {} /\ acked = {}
  BY DEF Init
<1>7. OwnershipInv
  BY <1>2, <1>3, <1>4, <1>6, ConstantsAssumption DEF OwnershipInv, Holds, NoSession
<1>8. TruthInv /\ DoneInv /\ ParkedIsPaid /\ ProcessedInv /\ OnlySweptPaymentsAreDropped
  BY <1>3, <1>6 DEF TruthInv, DoneInv, DoneByOwnPaidSession, ParkedIsPaid, ProcessedInv,
                    OnlySweptPaymentsAreDropped
<1>9. CreatorInv /\ \A w \in Worker : JobInv(w)
  BY <1>5 DEF CreatorInv, JobInv, CheckingOut, Applying, Idle
<1> QED
  BY <1>1, <1>7, <1>8, <1>9 DEF IInv, StoreInv

-----------------------------------------------------------------------------
(* Steps that move one request on and touch neither the store nor the      *)
(* platform.                                                               *)

LEMMA JobStep ==
    ASSUME IInv, NEW w \in Worker, NEW j \in Job,
           job' = [job EXCEPT ![w] = j],
           UNCHANGED <<row, parked, sess, handed, sent, acked>>,
           lock' \in [Tx -> Worker \cup {None}],
           JobInv(w)',
           CheckingOut(w)' =>
              \A v \in Worker \ {w} : ~(CheckingOut(v) /\ job[v].tx = j.tx)
    PROVE  IInv'
<1>1. job \in [Worker -> Job]
  BY DEF IInv, TypeOK
<1>2. /\ job' \in [Worker -> Job]
      /\ job'[w] = j
      /\ \A v \in Worker \ {w} : job'[v] = job[v]
  BY <1>1
<1>3. TypeOK'
  BY <1>2 DEF IInv, TypeOK
<1>4. StoreInv'
  <2>1. OwnershipInv' /\ TruthInv' /\ ParkedIsPaid'
    BY DEF IInv, StoreInv, OwnershipInv, TruthInv, ParkedIsPaid, Holds
  <2>2. DoneInv'
    BY DEF IInv, StoreInv, DoneInv, DoneByOwnPaidSession
  <2>3. \A s : AccountedOrSwept(s)' = AccountedOrSwept(s)
    BY DEF AccountedOrSwept, Accounted, Swept
  <2>4. ProcessedInv' /\ OnlySweptPaymentsAreDropped'
    BY <2>3 DEF IInv, StoreInv, ProcessedInv, OnlySweptPaymentsAreDropped
  <2> QED
    BY <2>1, <2>2, <2>4 DEF StoreInv
<1>5. CreatorInv'
  BY <1>2 DEF IInv, CreatorInv, CheckingOut
<1>6. ASSUME NEW v \in Worker \ {w} PROVE JobInv(v)'
  BY <1>2, <1>6 DEF IInv, JobInv, CheckingOut, Applying, Holds
<1> QED
  BY <1>3, <1>4, <1>5, <1>6 DEF IInv

LEMMA IdleStep ==
    ASSUME IInv, NEW w \in Worker, job' = [job EXCEPT ![w] = Idle],
           UNCHANGED <<row, parked, sess, handed, sent, acked>>,
           lock' \in [Tx -> Worker \cup {None}]
    PROVE  IInv'
<1>1. Idle \in Job
  BY DEF Idle, Job
<1>2. job'[w] = Idle
  BY DEF IInv, TypeOK
<1>3. JobInv(w)' /\ ~CheckingOut(w)'
  BY <1>2 DEF JobInv, CheckingOut, Applying, Idle
<1> QED
  BY <1>1, <1>3, JobStep

LEMMA CheckoutStartStep ==
    ASSUME IInv, ~Recheckout, NEW w \in Worker, NEW t \in Tx, CheckoutStart(w, t)
    PROVE  IInv'
<1> DEFINE seen == [u \in Tx |-> IF u \in OpenSiblings(t)
                                 THEN [xpay_session_id |-> row[u].xpay_session_id,
                                       superseded |-> row[u].superseded]
                                 ELSE None]
           j == [step |-> "sweeping", tx |-> t, todo |-> OpenSiblings(t), seen |-> seen]
<1>1. /\ job' = [job EXCEPT ![w] = j]
      /\ UNCHANGED <<row, lock, parked, sess, handed, sent, acked>>
      /\ ~InCheckout(t)
      /\ row[t].state = "absent"
  BY DEF CheckoutStart
<1>2. /\ row \in [Tx -> Row]
      /\ job \in [Worker -> Job]
      /\ lock \in [Tx -> Worker \cup {None}]
  BY DEF IInv, TypeOK
<1>3. OpenSiblings(t) \subseteq Tx
  BY ConstantsAssumption DEF OpenSiblings
<1>4. \A u \in OpenSiblings(t) : row[u].xpay_session_id \in Session /\ row[u].superseded \in Seq(Session)
  BY <1>2, <1>3 DEF OpenSiblings, Row
<1>5. seen \in [Tx -> SeenRow \cup {None}]
  BY <1>3, <1>4 DEF SeenRow
<1>6. \A u \in Tx : seen[u] # None =>
        seen[u].xpay_session_id = row[u].xpay_session_id /\ seen[u].superseded = row[u].superseded
  OBVIOUS
<1>11. \A u \in OpenSiblings(t) : seen[u] # None
  BY <1>3, <1>4, NoneIsNoSeenRow DEF SeenRow
<1> HIDE DEF seen
<1>7. j \in Job
  BY <1>3, <1>5 DEF Job
<1>8. job'[w] = j
  BY <1>1, <1>2
<1>9. JobInv(w)'
  BY <1>1, <1>6, <1>8, <1>11 DEF JobInv, CheckingOut, Applying, Holds
<1>10. \A v \in Worker \ {w} : ~(CheckingOut(v) /\ job[v].tx = j.tx)
  BY <1>1 DEF InCheckout, CheckingOut
<1> HIDE DEF j
<1> QED
  BY <1>1, <1>2, <1>7, <1>9, <1>10, JobStep

LEMMA WebhookFindStep ==
    ASSUME IInv, NEW w \in Worker, NEW e \in sent, NEW t \in Tx, WebhookFind(w, e, t)
    PROVE  IInv'
<1> DEFINE data == [event_id |-> e, event_type |-> e.type, session |-> e.session]
           j == [step |-> "found", tx |-> t, data |-> data]
<1>1. /\ job' = [job EXCEPT ![w] = j]
      /\ UNCHANGED <<row, lock, parked, sess, handed, sent, acked>>
      /\ t \in IF e.type = PAYMENT_FAILED THEN SearchDeclined(e.session.id)
               ELSE SearchBySession(e.session.id)
  BY DEF WebhookFind
<1>2. /\ job \in [Worker -> Job]
      /\ lock \in [Tx -> Worker \cup {None}]
      /\ e \in Event
  BY DEF IInv, TypeOK
<1>3. data \in PaymentData
  BY <1>2 DEF Event, PaymentData
<1>4. j \in Job
  BY <1>3 DEF Job
<1>5. Holds(t, e.session.id)
  BY <1>1 DEF SearchDeclined, SearchBySession, Holds
<1>6. e # None
  BY <1>2, NoneIsNoEvent
<1>7. job'[w] = j
  BY <1>1, <1>2
<1>8. e.session.paymentStatus = "paid" => sess[e.session.id].paymentStatus = "paid"
  BY DEF IInv, StoreInv, TruthInv
<1>9. JobInv(w)'
  BY <1>1, <1>5, <1>6, <1>7, <1>8 DEF JobInv, CheckingOut, Applying, Holds
<1>10. ~CheckingOut(w)'
  BY <1>7 DEF CheckingOut
<1> HIDE DEF j
<1> QED
  BY <1>1, <1>2, <1>4, <1>9, <1>10, JobStep

LEMMA ReturnFindStep ==
    ASSUME IInv, NEW w \in Worker, NEW t \in Tx, ReturnFind(w, t)
    PROVE  IInv'
<1> DEFINE j == [step |-> "reading", tx |-> t, session |-> row[t].xpay_session_id]
<1>1. /\ job' = [job EXCEPT ![w] = j]
      /\ UNCHANGED <<row, lock, parked, sess, handed, sent, acked>>
      /\ row[t].xpay_session_id # Unset
  BY DEF ReturnFind
<1>2. /\ row[t] \in Row
      /\ job \in [Worker -> Job]
      /\ lock \in [Tx -> Worker \cup {None}]
  BY DEF IInv, TypeOK
<1>3. j \in Job
  BY <1>1, <1>2 DEF Job, Row
<1>4. job'[w] = j
  BY <1>1, <1>2
<1>5. JobInv(w)' /\ ~CheckingOut(w)'
  BY <1>1, <1>4 DEF JobInv, CheckingOut, Applying, Holds
<1> HIDE DEF j
<1> QED
  BY <1>1, <1>2, <1>3, <1>5, JobStep

LEMMA ReturnReadStep ==
    ASSUME IInv, NEW w \in Worker, ReturnRead(w)
    PROVE  IInv'
<1> DEFINE s == job[w].session
           data == [event_id |-> None, event_type |-> None, session |-> Payload(s, sess[s])]
           j == [step |-> "found", tx |-> job[w].tx, data |-> data]
<1>1. /\ job' = [job EXCEPT ![w] = j]
      /\ UNCHANGED <<row, lock, parked, sess, handed, sent, acked>>
      /\ job[w].step = "reading"
  BY DEF ReturnRead
<1>2. /\ job \in [Worker -> Job]
      /\ lock \in [Tx -> Worker \cup {None}]
      /\ sess \in [Session -> PlatformSession]
  BY DEF IInv, TypeOK
<1>3. job[w].tx \in Tx /\ s \in Session
  BY <1>1, <1>2, JobFacts
<1>4. Holds(job[w].tx, s) /\ sess[s].status # "none"
  <2>1. Holds(job[w].tx, s)
    BY <1>1 DEF IInv, JobInv
  <2> QED
    BY <1>3, <2>1 DEF IInv, StoreInv, OwnershipInv
<1>5. data \in PaymentData
  BY <1>2, <1>3, <1>4 DEF PaymentData, SessionPayload, PlatformSession, Payload
<1>6. j \in Job
  BY <1>3, <1>5 DEF Job
<1>7. job'[w] = j
  BY <1>1, <1>2
<1>8. JobInv(w)' /\ ~CheckingOut(w)'
  BY <1>1, <1>4, <1>7 DEF JobInv, CheckingOut, Applying, Holds, Payload
<1> HIDE DEF j
<1> QED
  BY <1>1, <1>2, <1>6, <1>8, JobStep

LEMMA LockStep ==
    ASSUME IInv, NEW w \in Worker, Lock(w)
    PROVE  IInv'
<1> DEFINE j == [job[w] EXCEPT !.step = "locked"]
<1>1. /\ job' = [job EXCEPT ![w] = j]
      /\ lock' = [lock EXCEPT ![job[w].tx] = w]
      /\ UNCHANGED <<row, parked, sess, handed, sent, acked>>
      /\ job[w].step = "found"
  BY DEF Lock
<1>2. /\ job \in [Worker -> Job]
      /\ lock \in [Tx -> Worker \cup {None}]
  BY DEF IInv, TypeOK
<1>3. job[w] \in [step : {"found", "locked"}, tx : Tx, data : PaymentData]
  BY <1>1, <1>2 DEF Job
<1>4. /\ j \in [step : {"found", "locked"}, tx : Tx, data : PaymentData]
      /\ j.step = "locked" /\ j.tx = job[w].tx /\ j.data = job[w].data
  BY <1>3
<1>5. j \in Job
  BY <1>4 DEF Job
<1>6. lock' \in [Tx -> Worker \cup {None}]
  BY <1>1, <1>2
<1>7. job'[w] = j
  BY <1>1, <1>2
<1> HIDE DEF j
<1>8. JobInv(w)' /\ ~CheckingOut(w)'
  BY <1>1, <1>4, <1>7 DEF IInv, JobInv, CheckingOut, Applying, Holds
<1> QED
  BY <1>1, <1>5, <1>6, <1>8, JobStep

LEMMA LockBusyStep ==
    ASSUME IInv, NEW w \in Worker, LockBusy(w)
    PROVE  IInv'
  BY IdleStep DEF LockBusy, IInv, TypeOK

LEMMA AbortStep ==
    ASSUME IInv, NEW w \in Worker, Abort(w)
    PROVE  IInv'
<1>1. lock' \in [Tx -> Worker \cup {None}]
  BY DEF Abort, IInv, TypeOK
<1> QED
  BY <1>1, IdleStep DEF Abort

-----------------------------------------------------------------------------
(* Steps of the platform, those a request causes included: nothing that is *)
(* known of a session is ever taken back.                                  *)

SessionsGrow ==
    /\ sess' \in [Session -> PlatformSession]
    /\ sent \subseteq sent' /\ sent' \subseteq Event
    /\ \A s \in Session : /\ sess'[s].status = "none" => sess'[s].owner = None
                          /\ sess'[s].paymentStatus = "paid" => sess'[s].status = "complete"
    /\ \A s \in Session : sess[s].status # "none" =>
          /\ sess'[s].owner = sess[s].owner
          /\ sess'[s].amount = sess[s].amount
          /\ sess[s].paymentStatus = "paid" => sess'[s].paymentStatus = "paid"

\* Sessions only ever grow: what was true of a row, of a request or of the whole
\* store because of one stays true.
LEMMA GrowStore ==
    ASSUME IInv, SessionsGrow, TruthInv', UNCHANGED <<row, parked, handed, acked>>
    PROVE  StoreInv'
<1>1. /\ row \in [Tx -> Row] /\ parked \in SUBSET (Tx \X Session)
      /\ handed \in SUBSET Session /\ sent \in SUBSET Event /\ acked \in SUBSET sent
  BY DEF IInv, TypeOK
<1>2. \A s \in Session : sess[s].paymentStatus = "paid" => sess[s].status # "none"
  BY DEF IInv, StoreInv, OwnershipInv
<1>3. \A s \in Session : sess[s].owner # None => sess[s].status # "none"
  BY DEF IInv, StoreInv, OwnershipInv
<1>4. \A t \in Tx, s \in Session : Holds(t, s)' = Holds(t, s)
  BY DEF Holds
<1>5. OwnershipInv'
  <2>1. \A s \in handed : s \in Session /\ sess'[s].owner = sess[s].owner
    BY <1>1, <1>3 DEF IInv, StoreInv, OwnershipInv, SessionsGrow
  <2>2. \A s \in Session : /\ sess'[s].status = "none" => sess'[s].owner = None
                           /\ sess'[s].paymentStatus = "paid" => sess'[s].status = "complete"
    BY DEF SessionsGrow
  <2>3. \A t \in Tx : row'[t].state = "absent" => row'[t] = NoRow
    BY DEF IInv, StoreInv, OwnershipInv
  <2>4. \A t \in Tx, s \in Session : Holds(t, s)' => s \in handed' /\ sess'[s].owner = t
    BY <1>4, <2>1 DEF IInv, StoreInv, OwnershipInv
  <2>5. \A s \in handed' : sess'[s].owner # None /\ Holds(sess[s].owner, s)
    BY <2>1 DEF IInv, StoreInv, OwnershipInv
  <2>7. \A s, z \in handed' : sess'[s].owner = sess'[z].owner => s = z
    BY <2>1 DEF IInv, StoreInv, OwnershipInv
  <2> QED
    BY <2>1, <2>2, <2>3, <2>4, <2>5, <2>7 DEF OwnershipInv, Holds
<1>6. DoneInv'
  <2>1. ASSUME NEW t \in Tx, row[t].state = "done"
        PROVE  /\ row[t].intent \in Session
               /\ sess[row[t].intent].status # "none"
    BY <1>1, <1>2, <2>1 DEF IInv, StoreInv, DoneInv, DoneByOwnPaidSession, Row
  <2>2. ASSUME NEW t \in Tx, row[t].state = "done"
        PROVE  LET s == row[t].intent IN
               /\ sess'[s].owner = t
               /\ sess'[s].paymentStatus = "paid"
               /\ sess'[s].amount # "mismatch"
    BY <2>1, <2>2 DEF IInv, StoreInv, DoneInv, DoneByOwnPaidSession, SessionsGrow
  <2> QED
    BY <2>2 DEF IInv, StoreInv, DoneInv, DoneByOwnPaidSession
<1>7. ParkedIsPaid'
  BY <1>1, <1>2 DEF IInv, StoreInv, ParkedIsPaid, SessionsGrow
<1>8. \A s : AccountedOrSwept(s)' = AccountedOrSwept(s)
  BY DEF AccountedOrSwept, Accounted, Swept
<1>9. ASSUME NEW e \in sent, PaidEvent(e)
      PROVE  /\ e.session.id \in Session
             /\ sess'[e.session.id].amount = sess[e.session.id].amount
  <2>1. e.session.paymentStatus = "paid" /\ e.session.id \in Session
    BY <1>1, <1>9 DEF PaidEvent, Verdict, Event, SessionPayload
  <2>2. sess[e.session.id].paymentStatus = "paid"
    BY <2>1 DEF IInv, StoreInv, TruthInv
  <2> QED
    BY <1>2, <2>1, <2>2 DEF SessionsGrow
<1>10. ProcessedInv'
  <2> SUFFICES ASSUME NEW t \in Tx, NEW e \in Event, InSeq(e, row[t].processed)
               PROVE  /\ e \in sent'
                      /\ PaidEvent(e) /\ sess'[e.session.id].amount # "mismatch"
                            => AccountedOrSwept(e.session.id)'
    BY DEF ProcessedInv
  <2>1. e \in sent /\ (PaidEvent(e) /\ sess[e.session.id].amount # "mismatch"
                          => AccountedOrSwept(e.session.id))
    BY DEF IInv, StoreInv, ProcessedInv
  <2> QED
    BY <1>8, <1>9, <2>1 DEF SessionsGrow
<1>11. OnlySweptPaymentsAreDropped'
  BY <1>1, <1>8, <1>9 DEF IInv, StoreInv, OnlySweptPaymentsAreDropped
<1> QED
  BY <1>5, <1>6, <1>7, <1>10, <1>11 DEF StoreInv

LEMMA GrowJob ==
    ASSUME IInv, SessionsGrow, UNCHANGED row, NEW v \in Worker, job'[v] = job[v]
    PROVE  JobInv(v)'
<1>1. job \in [Worker -> Job]
  BY DEF IInv, TypeOK
<1>2. \A s \in Session : sess[s].owner # None \/ sess[s].paymentStatus = "paid"
                            => sess[s].status # "none"
  BY DEF IInv, StoreInv, OwnershipInv
<1>3. \A t, s : Holds(t, s)' = Holds(t, s)
  BY DEF Holds
<1>4. CASE CheckingOut(v)
  <2>1. job[v].step = "storing" => sess'[job[v].session].owner = job[v].tx
    <3> HAVE job[v].step = "storing"
    <3>1. job[v].session \in Session /\ job[v].tx \in Tx
      BY <1>1, <1>4, JobFacts
    <3>2. sess[job[v].session].owner = job[v].tx
      BY DEF IInv, JobInv
    <3> QED
      BY <1>2, <3>1, <3>2, ConstantsAssumption DEF SessionsGrow
  <2> QED
    BY <1>3, <1>4, <2>1 DEF IInv, JobInv, CheckingOut, Applying
<1>5. CASE Applying(v)
  <2>1. job[v].data.session.id \in Session
    BY <1>1, <1>5, JobFacts DEF PaymentData, SessionPayload
  <2>2. job[v].data.session.paymentStatus = "paid" =>
            sess'[job[v].data.session.id].paymentStatus = "paid"
    BY <1>2, <1>5, <2>1 DEF IInv, JobInv, SessionsGrow
  <2> QED
    BY <1>3, <1>5, <2>2 DEF IInv, JobInv, CheckingOut, Applying, SessionsGrow
<1>6. CASE ~CheckingOut(v) /\ ~Applying(v)
  BY <1>3, <1>6 DEF IInv, JobInv, CheckingOut, Applying
<1> QED
  BY <1>4, <1>5, <1>6

LEMMA PlatformOnlyStep ==
    ASSUME IInv, SessionsGrow, TruthInv', UNCHANGED <<store, handed, acked>>
    PROVE  IInv'
<1>1. UNCHANGED <<row, lock, job, parked, handed, acked>>
  BY DEF store
<1>2. TypeOK'
  BY <1>1 DEF IInv, TypeOK, SessionsGrow
<1>3. StoreInv'
  BY <1>1, GrowStore
<1>4. CreatorInv'
  BY <1>1 DEF IInv, CreatorInv, CheckingOut
<1>5. \A v \in Worker : JobInv(v)'
  BY <1>1, GrowJob
<1> QED
  BY <1>2, <1>3, <1>4, <1>5 DEF IInv

\* What these steps rest on.
LEMMA IInvSessions == IInv => TypeOK /\ SessionsSound /\ TruthInv
  BY DEF IInv, StoreInv, OwnershipInv, SessionsSound

\* One session moves on and the platform may tell of it.
LEMMA UpdateGrows ==
    ASSUME TypeOK, SessionsSound, TruthInv, NEW s \in Session, NEW now \in PlatformSession,
           sess[s].status # "none", now.status \in {"open", "complete", "expired"},
           now.owner = sess[s].owner, now.amount = sess[s].amount,
           now.paymentStatus = "paid" => now.status = "complete",
           sess[s].paymentStatus = "paid" => now.paymentStatus = "paid",
           sess' = [sess EXCEPT ![s] = now],
           sent' = sent \/ \E type \in EventType : Emit(type, s, now)
    PROVE  SessionsGrow /\ TruthInv'
<1>1. sess \in [Session -> PlatformSession] /\ sent \subseteq Event
  BY DEF TypeOK
<1>2. /\ sess' \in [Session -> PlatformSession]
      /\ sess'[s] = now
      /\ \A z \in Session \ {s} : sess'[z] = sess[z]
  BY <1>1
<1>3. PICK new \in SUBSET Event :
        /\ sent' = sent \cup new
        /\ \A e \in new : e.session.id = s /\ e.session.paymentStatus = now.paymentStatus
  <2>1. CASE sent' = sent
    <3> WITNESS {} \in SUBSET Event
    <3> QED
      BY <2>1
  <2>2. CASE \E type \in EventType : Emit(type, s, now)
    <3>1. PICK type \in EventType : Emit(type, s, now)
      BY <2>2
    <3> DEFINE e == [type |-> type, session |-> Payload(s, now)]
    <3>2. e \in Event /\ e.session.id = s /\ e.session.paymentStatus = now.paymentStatus
      BY DEF Event, SessionPayload, Payload, PlatformSession
    <3>3. sent' = sent \cup {e}
      BY <3>1 DEF Emit
    <3>4. {e} \in SUBSET Event
      BY <3>2
    <3> HIDE DEF e
    <3> QED
      BY <3>2, <3>3, <3>4
  <2> QED
    BY <2>1, <2>2
<1>4. SessionsGrow
  BY <1>1, <1>2, <1>3 DEF SessionsGrow, SessionsSound
<1>5. ASSUME NEW e \in sent', e.session.paymentStatus = "paid"
      PROVE  sess'[e.session.id].paymentStatus = "paid"
  <2>1. CASE e \in sent
    <3>1. e.session.id \in Session
      BY <1>1, <2>1 DEF Event, SessionPayload
    <3> QED
      BY <1>2, <1>5, <2>1, <3>1 DEF TruthInv
  <2>2. CASE e \notin sent
    BY <1>2, <1>3, <1>5, <2>2
  <2> QED
    BY <2>1, <2>2
<1> QED
  BY <1>4, <1>5 DEF TruthInv

\* An expiry is such a step.
LEMMA ExpireGrows ==
    ASSUME TypeOK, SessionsSound, TruthInv, NEW s \in Session, PlatformExpire(s)
    PROVE  SessionsGrow /\ TruthInv'
<1> DEFINE now == [sess[s] EXCEPT !.status = "expired", !.isExpired = TRUE]
<1>1. sess[s] \in PlatformSession
  BY DEF TypeOK
<1>2. /\ sess[s].status = "open"
      /\ sess' = [sess EXCEPT ![s] = now]
      /\ Emit(EXPIRED_EVENT, s, now)
  BY DEF PlatformExpire
<1>3. sess[s].paymentStatus # "paid"
  BY <1>2 DEF SessionsSound
<1>4. /\ now \in PlatformSession /\ now.status = "expired" /\ now.owner = sess[s].owner
      /\ now.amount = sess[s].amount /\ now.paymentStatus = sess[s].paymentStatus
  BY <1>1 DEF PlatformSession
<1>5. EXPIRED_EVENT \in EventType
  BY DEF EventType, CheckoutEvents
<1> HIDE DEF now
<1> QED
  BY <1>2, <1>3, <1>4, <1>5, UpdateGrows

\* So is whatever else the platform and the shopper do.
LEMMA PlatformStepGrows ==
    ASSUME TypeOK, SessionsSound, TruthInv, NEW s \in Session, PlatformStep(s)
    PROVE  SessionsGrow /\ TruthInv' /\ UNCHANGED <<store, handed, acked>>
<1>1. /\ sess[s] \in PlatformSession
      /\ sess \in [Session -> PlatformSession]
  BY DEF TypeOK
<1>2. CASE \E paymentStatus \in {"paid", "unpaid", None} : Complete(s, paymentStatus)
  <2>1. PICK paymentStatus \in {"paid", "unpaid", None} : Complete(s, paymentStatus)
    BY <1>2
  <2> DEFINE now == [sess[s] EXCEPT !.status = "complete", !.isExpired = FALSE,
                                    !.paymentStatus = paymentStatus]
  <2>2. /\ sess[s].status \in {"open", "expired"}
        /\ sess' = [sess EXCEPT ![s] = now]
        /\ Emit(COMPLETED, s, now)
        /\ UNCHANGED <<store, handed, acked>>
    BY <2>1 DEF Complete
  <2>3. sess[s].paymentStatus # "paid"
    BY <2>2 DEF SessionsSound
  <2>4. /\ now \in PlatformSession /\ now.status = "complete" /\ now.owner = sess[s].owner
        /\ now.amount = sess[s].amount
    BY <1>1 DEF PlatformSession
  <2>5. COMPLETED \in EventType
    BY DEF EventType, CheckoutEvents
  <2> HIDE DEF now
  <2>6. SessionsGrow /\ TruthInv'
    BY <2>2, <2>3, <2>4, <2>5, UpdateGrows
  <2> QED
    BY <2>2, <2>6
<1>3. CASE AsyncSucceed(s)
  <2> DEFINE now == [sess[s] EXCEPT !.paymentStatus = "paid"]
  <2>1. /\ sess[s].status = "complete"
        /\ sess' = [sess EXCEPT ![s] = now]
        /\ Emit(ASYNC_PAYMENT_SUCCEEDED, s, now)
        /\ UNCHANGED <<store, handed, acked>>
    BY <1>3 DEF AsyncSucceed
  <2>2. /\ now \in PlatformSession /\ now.status = "complete" /\ now.owner = sess[s].owner
        /\ now.amount = sess[s].amount /\ now.paymentStatus = "paid"
    BY <1>1, <2>1 DEF PlatformSession
  <2>3. ASYNC_PAYMENT_SUCCEEDED \in EventType
    BY DEF EventType, CheckoutEvents
  <2> HIDE DEF now
  <2>4. SessionsGrow /\ TruthInv'
    BY <2>1, <2>2, <2>3, UpdateGrows
  <2> QED
    BY <2>1, <2>4
<1>4. CASE AsyncFail(s) \/ Decline(s)
  <2> DEFINE now == sess[s]
  <2>1. /\ sess[s].status \in {"open", "complete"}
        /\ sess' = [sess EXCEPT ![s] = now]
        /\ Emit(ASYNC_PAYMENT_FAILED, s, now) \/ Emit(PAYMENT_FAILED, s, now)
        /\ UNCHANGED <<store, handed, acked>>
    BY <1>1, <1>4 DEF AsyncFail, Decline
  <2>2. ASYNC_PAYMENT_FAILED \in EventType /\ PAYMENT_FAILED \in EventType
    BY DEF EventType, CheckoutEvents
  <2>3. now.paymentStatus = "paid" => now.status = "complete"
    BY DEF SessionsSound
  <2>4. SessionsGrow /\ TruthInv'
    BY <1>1, <2>1, <2>2, <2>3, UpdateGrows
  <2> QED
    BY <2>1, <2>4
<1>5. CASE Overdue(s)
  <2> DEFINE now == [sess[s] EXCEPT !.isExpired = TRUE]
  <2>1. /\ sess[s].status = "open"
        /\ sess' = [sess EXCEPT ![s] = now]
        /\ UNCHANGED <<store, handed, sent, acked>>
    BY <1>1, <1>5 DEF Overdue
  <2>2. /\ now \in PlatformSession /\ now.status = "open" /\ now.owner = sess[s].owner
        /\ now.amount = sess[s].amount /\ now.paymentStatus = sess[s].paymentStatus
    BY <1>1, <2>1 DEF PlatformSession
  <2>3. sess[s].paymentStatus # "paid"
    BY <2>1 DEF SessionsSound
  <2> HIDE DEF now
  <2>4. SessionsGrow /\ TruthInv'
    BY <2>1, <2>2, <2>3, UpdateGrows
  <2> QED
    BY <2>1, <2>4
<1>6. CASE ExpireSession(s)
  BY <1>6, ExpireGrows DEF ExpireSession
<1> QED
  BY <1>2, <1>3, <1>4, <1>5, <1>6 DEF PlatformStep

LEMMA PlatformStepStep ==
    ASSUME IInv, NEW s \in Session, PlatformStep(s)
    PROVE  IInv'
  BY IInvSessions, PlatformStepGrows, PlatformOnlyStep

\* The platform's part of a round of the sweep.
LEMMA SweepGrows ==
    ASSUME TypeOK, SessionsSound, TruthInv, NEW z \in Session,
           PlatformExpire(z) \/ UNCHANGED platform
    PROVE  SessionsGrow /\ TruthInv'
<1>1. CASE UNCHANGED platform
  BY <1>1 DEF platform, SessionsGrow, SessionsSound, TruthInv, TypeOK
<1>2. CASE PlatformExpire(z)
  BY <1>2, ExpireGrows
<1> QED
  BY <1>1, <1>2

\* A round of the sweep: the platform's step, and the request's own.
LEMMA SweepSiblingStep ==
    ASSUME IInv, NEW w \in Worker, NEW u \in Tx, SweepSibling(w, u)
    PROVE  IInv'
<1> DEFINE j == [job[w] EXCEPT !.todo = @ \ {u}]
<1>1. /\ job[w].step = "sweeping"
      /\ u \in job[w].todo
      /\ job' = [job EXCEPT ![w] = j]
      /\ PlatformExpire(job[w].seen[u].xpay_session_id) \/ UNCHANGED platform
      /\ UNCHANGED <<row, lock, parked, handed, acked>>
  BY DEF SweepSibling
<1>2. job \in [Worker -> Job]
  BY DEF IInv, TypeOK
<1>3. job[w] \in [step : {"sweeping"}, tx : Tx, seen : [Tx -> SeenRow \cup {None}], todo : SUBSET Tx]
  BY <1>1, <1>2 DEF Job
<1>4. /\ j \in [step : {"sweeping"}, tx : Tx, seen : [Tx -> SeenRow \cup {None}], todo : SUBSET Tx]
      /\ j.step = "sweeping" /\ j.tx = job[w].tx /\ j.seen = job[w].seen
  BY <1>3
<1>5. /\ job' \in [Worker -> Job]
      /\ job'[w] = j
      /\ \A v \in Worker \ {w} : job'[v] = job[v]
  BY <1>1, <1>2, <1>4 DEF Job
<1> HIDE DEF j
<1>6. SessionsGrow /\ TruthInv'
  <2>1. job[w].seen[u] \in SeenRow \cup {None}
    BY <1>3
  <2>2. job[w].seen[u] # None
    BY <1>1 DEF IInv, JobInv
  <2>3. job[w].seen[u].xpay_session_id \in Session
    BY <2>1, <2>2 DEF SeenRow
  <2> QED
    BY <1>1, <2>3, IInvSessions, SweepGrows
<1>7. TypeOK'
  BY <1>1, <1>5, <1>6 DEF IInv, TypeOK, SessionsGrow
<1>8. StoreInv'
  BY <1>1, <1>6, GrowStore
<1>9. CreatorInv'
  BY <1>1, <1>4, <1>5 DEF IInv, CreatorInv, CheckingOut
<1>10. JobInv(w)'
  <2>1. j.todo \subseteq job[w].todo
    BY <1>3 DEF j
  <2> QED
    BY <1>1, <1>4, <1>5, <2>1 DEF IInv, JobInv, CheckingOut, Applying, Holds
<1>11. \A v \in Worker \ {w} : JobInv(v)'
  BY <1>1, <1>5, <1>6, GrowJob
<1> QED
  BY <1>7, <1>8, <1>9, <1>10, <1>11 DEF IInv

-----------------------------------------------------------------------------
(* The platform's answer to the checkout request, and its commit.          *)

\* A session is opened, or returned again.
LEMMA CreateGrows ==
    ASSUME TypeOK, SessionsSound, TruthInv, NEW s \in Session, NEW t \in Tx, NEW amount \in Amounts,
           \/ /\ sess[s].status = "none"
              /\ sess' = [sess EXCEPT ![s] = [NoSession EXCEPT !.status = "open", !.owner = t,
                                                               !.amount = amount]]
           \/ sess[s].owner = t /\ UNCHANGED sess,
           UNCHANGED sent
    PROVE  SessionsGrow /\ TruthInv' /\ sess'[s].owner = t
<1> DEFINE now == [NoSession EXCEPT !.status = "open", !.owner = t, !.amount = amount]
<1>1. sess \in [Session -> PlatformSession] /\ sent \subseteq Event
  BY DEF TypeOK
<1>2. /\ now \in PlatformSession /\ now.status = "open" /\ now.owner = t
      /\ now.paymentStatus = "unpaid"
  BY ConstantsAssumption DEF NoSession, PlatformSession
<1>3. \/ sess[s].status = "none" /\ sess' = [sess EXCEPT ![s] = now]
      \/ sess[s].owner = t /\ UNCHANGED sess
  OBVIOUS
<1> HIDE DEF now
<1>4. CASE sess[s].owner = t /\ UNCHANGED sess
  BY <1>1, <1>4 DEF SessionsGrow, SessionsSound, TruthInv
<1>5. CASE sess[s].status = "none" /\ sess' = [sess EXCEPT ![s] = now]
  <2>1. /\ sess' \in [Session -> PlatformSession]
        /\ sess'[s] = now
        /\ \A z \in Session \ {s} : sess'[z] = sess[z]
    BY <1>1, <1>2, <1>5
  <2>2. SessionsGrow
    BY <1>1, <1>2, <1>5, <2>1 DEF SessionsGrow, SessionsSound
  <2>3. sess[s].paymentStatus # "paid"
    BY <1>5 DEF SessionsSound
  <2>4. \A e \in sent : e.session.id \in Session
    BY <1>1 DEF Event, SessionPayload
  <2>5. TruthInv'
    BY <2>1, <2>3, <2>4 DEF TruthInv
  <2> QED
    BY <1>2, <2>1, <2>2, <2>5
<1> QED
  BY <1>3, <1>4, <1>5

LEMMA CreateSessionStep ==
    ASSUME IInv, NEW w \in Worker, NEW s \in Session, NEW amount \in Amounts,
           CreateSession(w, s, amount)
    PROVE  IInv'
<1> DEFINE t == job[w].tx
           j == [step |-> "storing", tx |-> t, seen |-> job[w].seen, session |-> s]
<1>1. /\ job[w].step = "sweeping"
      /\ job' = [job EXCEPT ![w] = j]
      /\ UNCHANGED <<row, lock, parked, handed, sent, acked>>
  BY DEF CreateSession
<1>2. /\ job \in [Worker -> Job] /\ sess \in [Session -> PlatformSession]
      /\ sent \subseteq Event
  BY DEF IInv, TypeOK
<1>3. CheckingOut(w) /\ t \in Tx /\ job[w].seen \in [Tx -> SeenRow \cup {None}]
  BY <1>1, <1>2, JobFacts DEF CheckingOut
<1>4. j \in Job /\ j.step = "storing" /\ j.tx = t /\ j.seen = job[w].seen /\ j.session = s
  BY <1>3 DEF Job
<1>6. /\ job' \in [Worker -> Job]
      /\ job'[w] = j
      /\ \A v \in Worker \ {w} : job'[v] = job[v]
  BY <1>1, <1>2, <1>4
<1> HIDE DEF j
<1>7. SessionsGrow /\ TruthInv' /\ sess'[s].owner = t
  <2>1. \/ /\ sess[s].status = "none"
           /\ sess' = [sess EXCEPT ![s] = [NoSession EXCEPT !.status = "open", !.owner = t,
                                                            !.amount = amount]]
        \/ sess[s].owner = t /\ UNCHANGED sess
    BY DEF CreateSession
  <2> QED
    BY <1>1, <1>3, <2>1, IInvSessions, CreateGrows
<1>8. TypeOK'
  BY <1>1, <1>6, <1>7 DEF IInv, TypeOK, SessionsGrow
<1>9. StoreInv'
  BY <1>1, <1>7, GrowStore
<1>10. CreatorInv'
  BY <1>3, <1>4, <1>6 DEF IInv, CreatorInv, CheckingOut
<1>11. JobInv(w)'
  BY <1>1, <1>3, <1>4, <1>6, <1>7 DEF IInv, JobInv, CheckingOut, Applying, Holds
<1>12. \A v \in Worker \ {w} : JobInv(v)'
  BY <1>1, <1>6, <1>7, GrowJob
<1> QED
  BY <1>8, <1>9, <1>10, <1>11, <1>12 DEF IInv

LEMMA CheckoutCommitStep ==
    ASSUME IInv, NEW w \in Worker, CheckoutCommit(w)
    PROVE  IInv'
<1>0. /\ job[w].step = "storing"
      /\ job \in [Worker -> Job]
  BY DEF CheckoutCommit, IInv, TypeOK
<1>3. PICK t \in Tx, s \in Session, seen \in [Tx -> SeenRow \cup {None}] :
        job[w].tx = t /\ job[w].session = s /\ job[w].seen = seen
  BY <1>0, JobFacts DEF CheckingOut
<1> DEFINE fresh == [row[t] EXCEPT !.xpay_session_id = s,
                                   !.state = IF @ = "absent" THEN "draft" ELSE @]
<1>1. /\ job[w].step = "storing"
      /\ row' = [u \in Tx |-> IF u = t THEN fresh
                              ELSE IF seen[u] # None THEN Supersede(row[u], seen[u])
                              ELSE row[u]]
      /\ handed' = handed \cup {s}
      /\ job' = [job EXCEPT ![w] = Idle]
      /\ UNCHANGED <<lock, parked, sess, sent, acked>>
  BY <1>3 DEF CheckoutCommit
<1>2. /\ row \in [Tx -> Row]
      /\ \A u \in Tx : /\ Len(row[u].processed) <= ProcessedCap
                       /\ Len(row[u].superseded) <= SupersededCap
      /\ job \in [Worker -> Job]
      /\ handed \in SUBSET Session
  BY DEF IInv, TypeOK
<1>4. CheckingOut(w) /\ row[t] = NoRow /\ sess[s].owner = t
  BY <1>1, <1>3 DEF CheckingOut, IInv, StoreInv, OwnershipInv, JobInv
<1>5. \A x \in Session : ~Holds(t, x)
  BY <1>4, ConstantsAssumption DEF Holds, NoRow, InSeq
<1>6. /\ Idle \in Job
      /\ job' \in [Worker -> Job]
      /\ job'[w] = Idle
      /\ \A v \in Worker \ {w} : job'[v] = job[v]
  BY <1>1, <1>2 DEF Idle, Job
<1>7. /\ row'[t] \in Row
      /\ row'[t].state = "draft" /\ row'[t].xpay_session_id = s
      /\ row'[t].superseded = << >> /\ row'[t].processed = << >>
      /\ row'[t].intent = None /\ row'[t].charge = None
  <2>1. row[t].state = "absent"
    BY <1>4 DEF NoRow
  <2>2. row'[t] = fresh
    BY <1>1
  <2>3. row'[t] = [NoRow EXCEPT !.xpay_session_id = s, !.state = "draft"]
    BY <1>4, <2>1, <2>2
  <2>4. NoRow \in Row
    BY DEF NoRow, Row
  <2>5. /\ NoRow.superseded = << >> /\ NoRow.processed = << >>
        /\ NoRow.intent = None /\ NoRow.charge = None
    BY DEF NoRow
  <2> QED
    BY <2>3, <2>4, <2>5 DEF Row
<1>8. ASSUME NEW u \in Tx, u # t, seen[u] # None
      PROVE  /\ seen[u] \in SeenRow
             /\ row[u] \in Row
             /\ row'[u] = Supersede(row[u], seen[u])
             /\ seen[u].xpay_session_id \in Session
             /\ Holds(u, seen[u].xpay_session_id)
             /\ \A x \in Session : InSeq(x, seen[u].superseded) => Holds(u, x)
  BY <1>1, <1>2, <1>3, <1>4, <1>8 DEF IInv, JobInv, SeenRow
<1>9. ASSUME NEW u \in Tx, u # t
      PROVE  /\ row'[u] \in Row
             /\ Len(row'[u].processed) <= ProcessedCap
             /\ Len(row'[u].superseded) <= SupersededCap
             /\ row'[u].state = row[u].state
             /\ row'[u].intent = row[u].intent
             /\ row'[u].charge = row[u].charge
             /\ row'[u].processed = row[u].processed
             /\ row'[u].xpay_session_id \in {Unset, row[u].xpay_session_id}
             /\ row[u].state = "absent" => row'[u] = row[u]
  <2>1. CASE seen[u] = None
    BY <1>1, <1>2, <1>9, <2>1
  <2>2. CASE seen[u] # None
    <3>1. Holds(u, seen[u].xpay_session_id) /\ seen[u].xpay_session_id \in Session
      BY <1>8, <1>9, <2>2
    <3>2. row[u].state # "absent"
      BY <3>1, ConstantsAssumption DEF IInv, StoreInv, OwnershipInv, Holds, NoRow, InSeq
    <3>3. \A f \in {"state", "intent", "charge", "processed"} : row'[u][f] = row[u][f]
      BY <1>8, <1>9, <2>2, SupersedeFacts
    <3>4. /\ row'[u] \in Row
          /\ Len(row'[u].superseded) <= SupersededCap
          /\ row'[u].xpay_session_id = Unset
      BY <1>8, <1>9, <2>2, SupersedeFacts
    <3>5. /\ row'[u].state = row[u].state /\ row'[u].intent = row[u].intent
          /\ row'[u].charge = row[u].charge /\ row'[u].processed = row[u].processed
      BY <3>3
    <3> QED
      BY <1>2, <3>2, <3>4, <3>5
  <2> QED
    BY <2>1, <2>2
<1>10. ASSUME NEW u \in Tx, u # t, NEW x \in Session
       PROVE  Holds(u, x)' <=> Holds(u, x)
  <2>1. CASE seen[u] = None
    BY <1>1, <1>10, <2>1 DEF Holds
  <2>2. CASE seen[u] # None
    <3> DEFINE z == seen[u].xpay_session_id
    <3>1. /\ row'[u].xpay_session_id = Unset
          /\ InSeq(z, row'[u].superseded)
          /\ \A y : InSeq(y, row'[u].superseded) => InSeq(y, seen[u].superseded) \/ y = z
      <4>1. PICK sn \in SeenRow : sn = seen[u]
        BY <1>8, <1>10, <2>2
      <4>2. row'[u] = Supersede(row[u], sn) /\ row[u] \in Row
        BY <1>8, <1>10, <2>2, <4>1
      <4>3. /\ Supersede(row[u], sn).xpay_session_id = Unset
            /\ InSeq(sn.xpay_session_id, Supersede(row[u], sn).superseded)
            /\ \A y : InSeq(y, Supersede(row[u], sn).superseded)
                        => InSeq(y, sn.superseded) \/ y = sn.xpay_session_id
        BY <4>2, SupersedeFacts
      <4> QED
        BY <4>1, <4>2, <4>3
    <3>2. Holds(u, z) /\ z \in Session
      BY <1>8, <1>10, <2>2
    <3>3. Holds(u, x) => x = z
      BY <3>2 DEF IInv, StoreInv, OwnershipInv
    <3>4. x # Unset
      BY ConstantsAssumption
    <3>5. InSeq(x, seen[u].superseded) => Holds(u, x)
      BY <1>8, <1>10, <2>2
    <3> HIDE DEF z
    <3>6. Holds(u, x)' <=> InSeq(x, row'[u].superseded)
      BY <3>1, <3>4 DEF Holds
    <3> QED
      BY <3>1, <3>2, <3>3, <3>5, <3>6
  <2> QED
    BY <2>1, <2>2
<1>11. \A x \in Session : Holds(t, x)' <=> x = s
  BY <1>7 DEF Holds, InSeq
<1>12. ASSUME NEW x \in Session, AccountedOrSwept(x) PROVE AccountedOrSwept(x)'
  <2>1. CASE Accounted(x)
    <3>1. row[t].state # "done"
      BY <1>4 DEF NoRow
    <3>2. \A u \in Tx : u # t => row'[u].state = row[u].state /\ row'[u].intent = row[u].intent
      BY <1>9
    <3> QED
      BY <1>1, <2>1, <3>1, <3>2 DEF AccountedOrSwept, Accounted
  <2>2. CASE Swept(x)
    <3>1. PICK u \in Tx : row[u].xpay_session_id = Unset /\ InSeq(x, row[u].superseded)
      BY <2>2 DEF Swept
    <3>2. Holds(u, x)
      BY <3>1 DEF Holds
    <3>3. u # t
      BY <1>5, <3>2
    <3>4. row'[u].xpay_session_id = Unset
      BY <1>9, <3>1, <3>3
    <3>5. x # Unset
      BY ConstantsAssumption
    <3>6. Holds(u, x)'
      BY <1>10, <3>2, <3>3
    <3>7. InSeq(x, row'[u].superseded)
      BY <3>4, <3>5, <3>6 DEF Holds
    <3> QED
      BY <3>4, <3>7 DEF AccountedOrSwept, Swept
  <2> QED
    BY <1>12, <2>1, <2>2 DEF AccountedOrSwept
<1>13. TypeOK'
  <2>1. \A u \in Tx : row'[u] \in Row /\ Len(row'[u].processed) <= ProcessedCap
                       /\ Len(row'[u].superseded) <= SupersededCap
    <3>1. Len(<< >>) = 0 /\ 0 <= ProcessedCap /\ 0 <= SupersededCap
      BY ConstantsAssumption
    <3> QED
      BY <1>7, <1>9, <3>1
  <2>2. row' \in [Tx -> Row]
    <3> HIDE DEF fresh
    <3>1. row' = [u \in Tx |-> row'[u]]
      BY <1>1
    <3> QED
      BY <2>1, <3>1
  <2> QED
    BY <1>1, <1>2, <1>3, <1>6, <2>1, <2>2 DEF IInv, TypeOK
<1>14. OwnershipInv'
  <2>1. \A x \in Session : /\ sess'[x].status = "none" => sess'[x].owner = None
                           /\ sess'[x].paymentStatus = "paid" => sess'[x].status = "complete"
    BY <1>1 DEF IInv, StoreInv, OwnershipInv
  <2>2. \A u \in Tx : row'[u].state = "absent" => row'[u] = NoRow
    BY <1>7, <1>9 DEF IInv, StoreInv, OwnershipInv
  <2>3. ASSUME NEW u \in Tx, NEW x \in Session, Holds(u, x)'
        PROVE  x \in handed' /\ sess'[x].owner = u
    BY <1>1, <1>4, <1>10, <1>11, <2>3 DEF IInv, StoreInv, OwnershipInv
  <2>4. ASSUME NEW x \in handed'
        PROVE  sess'[x].owner \in Tx /\ \E u \in Tx : u = sess'[x].owner /\ Holds(u, x)'
    <3>1. CASE x = s
      BY <1>1, <1>3, <1>4, <1>11, <3>1
    <3>2. CASE x # s
      <4>1. x \in handed /\ x \in Session
        BY <1>1, <1>2, <2>4, <3>2
      <4>2. sess[x] \in PlatformSession
        BY <4>1 DEF IInv, TypeOK
      <4>3. sess[x].owner \in Tx /\ Holds(sess[x].owner, x)
        BY <4>1, <4>2 DEF IInv, StoreInv, OwnershipInv, PlatformSession
      <4>4. PICK u \in Tx : u = sess[x].owner /\ Holds(u, x)
        BY <4>3
      <4>5. Holds(u, x)'
        BY <1>5, <1>10, <4>1, <4>4
      <4> QED
        BY <1>1, <4>4, <4>5
    <3> QED
      BY <3>1, <3>2
  <2>5. ASSUME NEW x \in handed', NEW z \in handed', sess'[x].owner = sess'[z].owner
        PROVE  x = z
    <3>1. \A y \in handed : y \in Session /\ sess[y].owner # t
      BY <1>2, <1>5 DEF IInv, StoreInv, OwnershipInv
    <3> QED
      BY <1>1, <1>4, <2>5, <3>1 DEF IInv, StoreInv, OwnershipInv
  <2>6. \A x \in handed' : sess'[x].owner # None
    BY <2>4, ConstantsAssumption
  <2> QED
    BY <2>1, <2>2, <2>3, <2>4, <2>5, <2>6 DEF OwnershipInv, Holds
<1>15. TruthInv' /\ ParkedIsPaid'
  BY <1>1 DEF IInv, StoreInv, TruthInv, ParkedIsPaid
<1>16. DoneInv'
  <2>1. ASSUME NEW u \in Tx, row'[u].state = "done"
        PROVE  /\ row[u].state = "done"
               /\ row'[u].intent = row[u].intent /\ row'[u].charge = row[u].charge
               /\ row'[u].xpay_session_id \in {Unset, row[u].xpay_session_id}
    BY <1>7, <1>9, <2>1
  <2> QED
    BY <1>1, <2>1 DEF IInv, StoreInv, DoneInv, DoneByOwnPaidSession
<1>17. ProcessedInv'
  <2> SUFFICES ASSUME NEW u \in Tx, NEW e \in Event, InSeq(e, row'[u].processed)
               PROVE  /\ e \in sent'
                      /\ PaidEvent(e) /\ sess'[e.session.id].amount # "mismatch"
                            => AccountedOrSwept(e.session.id)'
    BY DEF ProcessedInv
  <2>1. InSeq(e, row[u].processed)
    BY <1>7, <1>9 DEF InSeq
  <2>2. PICK x \in Session : x = e.session.id
    BY DEF Event, SessionPayload
  <2>3. e \in sent /\ (PaidEvent(e) /\ sess[x].amount # "mismatch" => AccountedOrSwept(x))
    BY <2>1, <2>2 DEF IInv, StoreInv, ProcessedInv
  <2>4. AccountedOrSwept(x) => AccountedOrSwept(x)'
    BY <1>12
  <2> QED
    BY <1>1, <2>2, <2>3, <2>4 DEF AccountedOrSwept, Accounted, Swept
<1>18. OnlySweptPaymentsAreDropped'
  <2> SUFFICES ASSUME NEW e \in acked, PaidEvent(e), sess[e.session.id].amount # "mismatch"
               PROVE  AccountedOrSwept(e.session.id)'
    BY <1>1 DEF OnlySweptPaymentsAreDropped
  <2>1. PICK x \in Session : x = e.session.id
    BY DEF IInv, TypeOK, Event, SessionPayload
  <2>2. AccountedOrSwept(x)
    BY <2>1 DEF IInv, StoreInv, OnlySweptPaymentsAreDropped
  <2>3. AccountedOrSwept(x)'
    BY <1>12, <2>2
  <2> QED
    BY <2>1, <2>3 DEF AccountedOrSwept, Accounted, Swept
<1>19. CreatorInv'
  BY <1>6 DEF IInv, CreatorInv, CheckingOut, Idle
<1>20. JobInv(w)'
  BY <1>6 DEF JobInv, CheckingOut, Applying, Idle
<1>21. ASSUME NEW v \in Worker \ {w} PROVE JobInv(v)'
  <2>1. job'[v] = job[v] /\ JobInv(v)
    BY <1>6 DEF IInv
  <2>2. \A u \in Tx, x \in Session : Holds(u, x) => Holds(u, x)'
    BY <1>5, <1>10
  <2>3. CASE CheckingOut(v)
    <3>1. job[v].tx # t /\ job[v].tx \in Tx
      BY <1>2, <1>3, <1>4, <2>3, JobFacts DEF IInv, CreatorInv
    <3>2. row'[job[v].tx].state = "absent"
      BY <1>9, <2>1, <2>3, <3>1 DEF JobInv
    <3>3. ASSUME NEW u \in Tx, job[v].seen[u] # None
          PROVE  /\ Holds(u, job[v].seen[u].xpay_session_id)'
                 /\ \A x \in Session : InSeq(x, job[v].seen[u].superseded) => Holds(u, x)'
      <4>1. job[v].seen[u].xpay_session_id \in Session
        BY <1>2, <2>3, <3>3, JobFacts DEF SeenRow
      <4>2. PICK x \in Session : x = job[v].seen[u].xpay_session_id
        BY <4>1
      <4>3. Holds(u, x)'
        BY <2>1, <2>2, <2>3, <3>3, <4>2 DEF JobInv
      <4>4. \A y \in Session : InSeq(y, job[v].seen[u].superseded) => Holds(u, y)'
        BY <2>1, <2>2, <2>3, <3>3 DEF JobInv
      <4> QED
        BY <2>1, <4>2, <4>3, <4>4 DEF Holds
    <3> QED
      BY <1>1, <2>1, <2>3, <3>2, <3>3 DEF JobInv, CheckingOut, Applying, Holds
  <2>4. CASE Applying(v)
    <3>1. job[v].tx \in Tx /\ job[v].data.session.id \in Session
      BY <1>2, <2>4, JobFacts DEF PaymentData, SessionPayload
    <3>2. PICK u \in Tx, x \in Session : u = job[v].tx /\ x = job[v].data.session.id
      BY <3>1
    <3>3. Holds(u, x)'
      BY <2>1, <2>2, <2>4, <3>2 DEF JobInv
    <3> QED
      BY <1>1, <2>1, <2>4, <3>2, <3>3 DEF JobInv, CheckingOut, Applying, Holds
  <2>5. CASE job[v].step = "reading"
    <3>1. job[v].tx \in Tx /\ job[v].session \in Session
      BY <1>2, <2>5, JobFacts
    <3>2. PICK u \in Tx, x \in Session : u = job[v].tx /\ x = job[v].session
      BY <3>1
    <3>3. Holds(u, x)'
      BY <2>1, <2>2, <2>5, <3>2 DEF JobInv
    <3> QED
      BY <2>1, <2>5, <3>2, <3>3 DEF JobInv, CheckingOut, Applying, Holds
  <2>6. CASE job[v].step = "idle"
    BY <2>1, <2>6 DEF JobInv, CheckingOut, Applying
  <2> QED
    BY <1>2, <2>3, <2>4, <2>5, <2>6, JobFacts DEF CheckingOut, Applying
<1> QED
  BY <1>13, <1>14, <1>15, <1>16, <1>17, <1>18, <1>19, <1>20, <1>21 DEF IInv, StoreInv

-----------------------------------------------------------------------------
(* The end of a request that held the row lock: its row gets the value r.  *)

LEMMA FinishStep ==
    ASSUME IInv, NEW w \in Worker, NEW t \in Tx, NEW data \in PaymentData, NEW r \in Row,
           job[w].step = "locked", job[w].tx = t, job[w].data = data,
           Finish(w),
           row' = [row EXCEPT ![t] = r],
           parked \subseteq parked', parked' \in SUBSET (Tx \X Session), ParkedIsPaid',
           Len(r.processed) <= ProcessedCap,
           r.xpay_session_id = row[t].xpay_session_id,
           r.superseded = row[t].superseded,
           r.state # "absent",
           row[t].state = "done" => r.state = "done" /\ r.intent = row[t].intent,
           r.state = "done" =>
              /\ r.intent # None /\ r.charge = r.intent
              /\ sess[r.intent].owner = t
              /\ sess[r.intent].paymentStatus = "paid"
              /\ sess[r.intent].amount # "mismatch"
              /\ r.xpay_session_id \in {Unset, r.intent},
           \A e \in Event : InSeq(e, r.processed) =>
              InSeq(e, row[t].processed) \/ e = data.event_id,
           data.event_id # None /\ PaidEvent(data.event_id)
              /\ sess[data.event_id.session.id].amount # "mismatch"
              => AccountedOrSwept(data.event_id.session.id)'
    PROVE  IInv'
<1>1. /\ row \in [Tx -> Row] /\ job \in [Worker -> Job]
      /\ \A u \in Tx : /\ Len(row[u].processed) <= ProcessedCap
                       /\ Len(row[u].superseded) <= SupersededCap
      /\ lock \in [Tx -> Worker \cup {None}]
  BY DEF IInv, TypeOK
<1>2. /\ row' \in [Tx -> Row]
      /\ row'[t] = r
      /\ \A u \in Tx \ {t} : row'[u] = row[u]
  BY <1>1
<1>3. /\ job' \in [Worker -> Job]
      /\ job'[w] = Idle
      /\ \A v \in Worker \ {w} : job'[v] = job[v]
      /\ lock' \in [Tx -> Worker \cup {None}]
      /\ acked' = acked \cup ({data.event_id} \ {None})
      /\ UNCHANGED <<sess, handed, sent>>
  BY <1>1 DEF Finish, Idle, Job
<1>4. data.event_id # None => data.event_id \in sent
  BY DEF IInv, JobInv, Applying
<1>5. TypeOK'
  BY <1>1, <1>2, <1>3, <1>4 DEF IInv, TypeOK
<1>6. \A u, x : u \in Tx => (Holds(u, x)' <=> Holds(u, x))
  BY <1>2 DEF Holds
<1>7. ASSUME NEW x, AccountedOrSwept(x) PROVE AccountedOrSwept(x)'
  <2>1. CASE Accounted(x)
    <3>1. PICK u \in Tx : (row[u].state = "done" /\ row[u].intent = x) \/ <<u, x>> \in parked
      BY <2>1 DEF Accounted
    <3> QED
      BY <1>2, <3>1 DEF AccountedOrSwept, Accounted
  <2>2. CASE Swept(x)
    <3>1. PICK u \in Tx : row[u].xpay_session_id = Unset /\ InSeq(x, row[u].superseded)
      BY <2>2 DEF Swept
    <3>2. row'[u].xpay_session_id = Unset /\ InSeq(x, row'[u].superseded)
      BY <1>2, <3>1
    <3> QED
      BY <3>2 DEF AccountedOrSwept, Swept
  <2> QED
    BY <1>7, <2>1, <2>2 DEF AccountedOrSwept
<1>8. OwnershipInv'
  <2>1. \A s \in Session : /\ sess'[s].status = "none" => sess'[s].owner = None
                           /\ sess'[s].paymentStatus = "paid" => sess'[s].status = "complete"
    BY <1>3 DEF IInv, StoreInv, OwnershipInv
  <2>2. \A u \in Tx : row'[u].state = "absent" => row'[u] = NoRow
    BY <1>2 DEF IInv, StoreInv, OwnershipInv
  <2>3. \A u \in Tx, s \in Session : Holds(u, s)' => s \in handed' /\ sess'[s].owner = u
    BY <1>3, <1>6 DEF IInv, StoreInv, OwnershipInv
  <2>4. ASSUME NEW s \in handed'
        PROVE  sess'[s].owner \in Tx /\ \E u \in Tx : u = sess'[s].owner /\ Holds(u, s)'
    <3>1. s \in handed /\ s \in Session
      BY <1>3 DEF IInv, TypeOK
    <3>2. sess[s].owner \in Tx /\ Holds(sess[s].owner, s)
      BY <3>1 DEF IInv, StoreInv, OwnershipInv, TypeOK, PlatformSession
    <3>3. PICK u \in Tx : u = sess[s].owner /\ Holds(u, s)
      BY <3>2
    <3> QED
      BY <1>3, <1>6, <3>3
  <2>5. \A s, z \in handed' : sess'[s].owner = sess'[z].owner => s = z
    BY <1>3 DEF IInv, StoreInv, OwnershipInv
  <2>6. \A s \in handed' : sess'[s].owner # None
    BY <2>4, ConstantsAssumption
  <2> QED
    BY <2>1, <2>2, <2>3, <2>4, <2>5, <2>6 DEF OwnershipInv, Holds
<1>9. TruthInv'
  BY <1>3 DEF IInv, StoreInv, TruthInv
<1>10. DoneInv'
  BY <1>2, <1>3 DEF IInv, StoreInv, DoneInv, DoneByOwnPaidSession
<1>11. ProcessedInv'
  <2> SUFFICES ASSUME NEW u \in Tx, NEW e \in Event, InSeq(e, row'[u].processed)
               PROVE  /\ e \in sent'
                      /\ PaidEvent(e) /\ sess'[e.session.id].amount # "mismatch"
                            => AccountedOrSwept(e.session.id)'
    BY DEF ProcessedInv
  <2>1. CASE InSeq(e, row[u].processed)
    <3>1. PICK x : x = e.session.id
      OBVIOUS
    <3>2. /\ e \in sent
          /\ PaidEvent(e) /\ sess[x].amount # "mismatch" => AccountedOrSwept(x)
      BY <2>1, <3>1 DEF IInv, StoreInv, ProcessedInv
    <3>3. AccountedOrSwept(x) => AccountedOrSwept(x)'
      BY <1>7
    <3> QED
      BY <1>3, <3>1, <3>2, <3>3 DEF AccountedOrSwept, Accounted, Swept
  <2>2. CASE u = t /\ e = data.event_id
    BY <1>3, <1>4, <2>2, NoneIsNoEvent DEF AccountedOrSwept, Accounted, Swept
  <2> QED
    BY <1>2, <2>1, <2>2
<1>12. OnlySweptPaymentsAreDropped'
  <2> SUFFICES ASSUME NEW e \in acked', PaidEvent(e), sess'[e.session.id].amount # "mismatch"
               PROVE  AccountedOrSwept(e.session.id)'
    BY DEF OnlySweptPaymentsAreDropped
  <2>1. CASE e \in acked
    <3>1. PICK x : x = e.session.id
      OBVIOUS
    <3>2. AccountedOrSwept(x)
      BY <1>3, <2>1, <3>1 DEF IInv, StoreInv, OnlySweptPaymentsAreDropped
    <3> QED
      BY <1>7, <3>1, <3>2 DEF AccountedOrSwept, Accounted, Swept
  <2>2. CASE e = data.event_id /\ data.event_id # None
    BY <1>3, <2>2 DEF AccountedOrSwept, Accounted, Swept
  <2> QED
    BY <1>3, <2>1, <2>2
<1>13. CreatorInv'
  BY <1>3 DEF IInv, CreatorInv, CheckingOut, Idle
<1>14. JobInv(w)'
  BY <1>3 DEF JobInv, CheckingOut, Applying, Idle
<1>15. ASSUME NEW v \in Worker \ {w} PROVE JobInv(v)'
  <2>1. job'[v] = job[v] /\ JobInv(v)
    BY <1>3 DEF IInv
  <2>2. CASE CheckingOut(v)
    <3>1. job[v].tx \in Tx
      BY <1>1, <2>2, JobFacts
    <3>2. row[t].state # "absent"
      <4>1. Holds(t, data.session.id) /\ data.session.id \in Session
        BY DEF IInv, JobInv, Applying, PaymentData, SessionPayload
      <4> QED
        BY <4>1, ConstantsAssumption DEF IInv, StoreInv, OwnershipInv, Holds, NoRow, InSeq
    <3>3. row'[job[v].tx].state = "absent"
      BY <1>2, <2>1, <2>2, <3>1, <3>2 DEF JobInv
    <3> QED
      BY <1>3, <1>6, <2>1, <2>2, <3>3 DEF JobInv, CheckingOut, Applying, Holds
  <2>3. CASE Applying(v)
    <3>1. job[v].tx \in Tx
      BY <1>1, <2>3, JobFacts
    <3> QED
      BY <1>3, <1>6, <2>1, <2>3, <3>1 DEF JobInv, CheckingOut, Applying, Holds
  <2>4. CASE job[v].step = "reading"
    <3>1. job[v].tx \in Tx
      BY <1>1, <2>4, JobFacts
    <3> QED
      BY <1>3, <1>6, <2>1, <2>4, <3>1 DEF JobInv, CheckingOut, Applying, Holds
  <2>5. CASE job[v].step = "idle"
    BY <2>1, <2>5 DEF JobInv, CheckingOut, Applying
  <2> QED
    BY <1>1, <2>2, <2>3, <2>4, <2>5, JobFacts DEF CheckingOut, Applying
<1> QED
  BY <1>5, <1>8, <1>9, <1>10, <1>11, <1>12, <1>13, <1>14, <1>15 DEF IInv, StoreInv

-----------------------------------------------------------------------------
(* The row apply_locked writes.                                            *)

LEMMA LockedFacts ==
    ASSUME IInv, NEW w \in Worker, NEW t \in Tx, NEW data \in PaymentData,
           job[w].step = "locked", job[w].tx = t, job[w].data = data
    PROVE  /\ data.session \in SessionPayload
           /\ data.session.id \in Session
           /\ Holds(t, data.session.id)
           /\ sess[data.session.id].owner = t
           /\ data.session.paymentStatus = "paid" =>
                 sess[data.session.id].paymentStatus = "paid"
           /\ row[t] \in Row
           /\ row[t].state # "absent"
           /\ Len(row[t].processed) <= ProcessedCap
           /\ row[t].state = "done" =>
                 /\ row[t].intent # None /\ row[t].charge = row[t].intent
                 /\ sess[row[t].intent].owner = t
                 /\ sess[row[t].intent].paymentStatus = "paid"
                 /\ sess[row[t].intent].amount # "mismatch"
                 /\ row[t].xpay_session_id \in {Unset, row[t].intent}
           /\ ParkedIsPaid
           /\ data.event_id # None => /\ data.event_id \in Event
                                      /\ data.event_id.type = data.event_type
                                      /\ data.event_id.session = data.session
<1>1. data.session \in SessionPayload /\ data.session.id \in Session
  BY DEF PaymentData, SessionPayload
<1>2. /\ Holds(t, data.session.id)
      /\ data.session.paymentStatus = "paid" => sess[data.session.id].paymentStatus = "paid"
      /\ data.event_id # None => /\ data.event_id \in sent
                                 /\ data.event_id.type = data.event_type
                                 /\ data.event_id.session = data.session
  BY DEF IInv, JobInv, Applying
<1>3. row[t] \in Row /\ Len(row[t].processed) <= ProcessedCap
  BY DEF IInv, TypeOK
<1>4. sess[data.session.id].owner = t
  BY <1>1, <1>2 DEF IInv, StoreInv, OwnershipInv
<1>5. row[t].state # "absent"
  BY <1>1, <1>2, ConstantsAssumption DEF IInv, StoreInv, OwnershipInv, Holds, NoRow, InSeq
<1>6. row[t].state = "done" =>
         /\ row[t].intent # None /\ row[t].charge = row[t].intent
         /\ sess[row[t].intent].owner = t
         /\ sess[row[t].intent].paymentStatus = "paid"
         /\ sess[row[t].intent].amount # "mismatch"
         /\ row[t].xpay_session_id \in {Unset, row[t].intent}
  BY DEF IInv, StoreInv, DoneInv, DoneByOwnPaidSession
<1>7. data.event_id # None => data.event_id \in Event
  BY DEF PaymentData
<1> QED
  BY <1>1, <1>2, <1>3, <1>4, <1>5, <1>6, <1>7 DEF IInv, StoreInv

\* Remembering an event moves nothing but the list.
LEMMA RememberRowFacts ==
    ASSUME NEW r \in Row, Len(r.processed) <= ProcessedCap,
           NEW data \in PaymentData, ~Replayed(r, data)
    PROVE  LET n == Remember(r, data.event_id) IN
           /\ n \in Row /\ Len(n.processed) <= ProcessedCap
           /\ n.state = r.state /\ n.intent = r.intent /\ n.charge = r.charge
           /\ n.xpay_session_id = r.xpay_session_id /\ n.superseded = r.superseded
           /\ \A e \in Event : InSeq(e, n.processed) => InSeq(e, r.processed) \/ e = data.event_id
<1>1. CASE data.event_id = None
  BY <1>1 DEF Remember, Row
<1>2. CASE data.event_id # None
  <2>1. data.event_id \in Event /\ r.processed \in Seq(Event) /\ ~IsReplay(r.processed, data.event_id)
    BY <1>2 DEF PaymentData, Row, Replayed
  <2> DEFINE m == RememberEvent(r.processed, data.event_id, ProcessedCap)
  <2>2. /\ m \in Seq(Event) /\ Len(m) <= ProcessedCap
        /\ \A x : InSeq(x, m) => InSeq(x, r.processed) \/ x = data.event_id
    BY <2>1, RememberFacts, ConstantsAssumption
  <2>3. Remember(r, data.event_id) = [r EXCEPT !.processed = m]
    BY <1>2 DEF Remember
  <2> HIDE DEF m
  <2> QED
    BY <2>2, <2>3 DEF Row
<1> QED
  BY <1>1, <1>2

LEMMA NoteDeclinedStep ==
    ASSUME IInv, NEW w \in Worker, NoteDeclined(w)
    PROVE  IInv'
<1>1. job \in [Worker -> Job] /\ job[w].step = "locked"
  BY DEF IInv, TypeOK, NoteDeclined
<1>2. PICK t \in Tx, data \in PaymentData : job[w].tx = t /\ job[w].data = data
  BY <1>1, JobFacts DEF Applying
<1> DEFINE r == IF Replayed(row[t], data) THEN row[t] ELSE Remember(row[t], data.event_id)
<1>3. row' = [row EXCEPT ![t] = r]
  BY <1>2 DEF NoteDeclined, IInv, TypeOK
<1>4. data.event_type = PAYMENT_FAILED /\ Finish(w) /\ UNCHANGED <<parked, sess>>
  BY <1>2 DEF NoteDeclined, Finish
<1>5. r \in Row /\ Len(r.processed) <= ProcessedCap
      /\ r.xpay_session_id = row[t].xpay_session_id /\ r.superseded = row[t].superseded
      /\ r.state = row[t].state /\ r.intent = row[t].intent /\ r.charge = row[t].charge
      /\ \A e \in Event : InSeq(e, r.processed) => InSeq(e, row[t].processed) \/ e = data.event_id
  <2>1. row[t] \in Row /\ Len(row[t].processed) <= ProcessedCap
    BY <1>1, <1>2, LockedFacts
  <2>2. CASE Replayed(row[t], data)
    BY <2>1, <2>2
  <2>3. CASE ~Replayed(row[t], data)
    <3>1. r = Remember(row[t], data.event_id)
      BY <2>3
    <3> QED
      BY <2>1, <2>3, <3>1, RememberRowFacts DEF Row
  <2> QED
    BY <2>2, <2>3
<1>6. data.event_id # None => ~PaidEvent(data.event_id)
  BY <1>1, <1>2, <1>4, LockedFacts
     DEF PaidEvent, CheckoutEvents, PAYMENT_FAILED, COMPLETED, EXPIRED_EVENT,
         ASYNC_PAYMENT_SUCCEEDED, ASYNC_PAYMENT_FAILED
<1> HIDE DEF r
<1>7. parked' \in SUBSET (Tx \X Session) /\ ParkedIsPaid'
  BY <1>4 DEF IInv, TypeOK, StoreInv, ParkedIsPaid
<1>8. /\ row[t].state # "absent"
      /\ row[t].state = "done" =>
            /\ row[t].intent # None /\ row[t].charge = row[t].intent
            /\ sess[row[t].intent].owner = t
            /\ sess[row[t].intent].paymentStatus = "paid"
            /\ sess[row[t].intent].amount # "mismatch"
            /\ row[t].xpay_session_id \in {Unset, row[t].intent}
  BY <1>1, <1>2, LockedFacts
<1>9. parked \subseteq parked'
  BY <1>4
<1>10. r.state # "absent" /\ (row[t].state = "done" => r.state = "done" /\ r.intent = row[t].intent)
  BY <1>5, <1>8
<1>11. r.state = "done" =>
          /\ r.intent # None /\ r.charge = r.intent
          /\ sess[r.intent].owner = t
          /\ sess[r.intent].paymentStatus = "paid"
          /\ sess[r.intent].amount # "mismatch"
          /\ r.xpay_session_id \in {Unset, r.intent}
  BY <1>5, <1>8
<1> QED
  BY <1>1, <1>2, <1>3, <1>4, <1>5, <1>6, <1>7, <1>9, <1>10, <1>11, FinishStep

LEMMA ValidateFacts ==
    ASSUME NEW r \in Row, NEW s, r.state # "absent"
    PROVE  LET n == ValidateAmount(r, s) IN
           /\ n \in Row
           /\ n.state # "absent"
           /\ n.state = "done" <=> r.state = "done"
           /\ n.state \in {r.state, "error"}
           /\ Closed(r.state) => n.state = r.state
           /\ sess[s].amount = "mismatch" => n.state \notin {"draft", "pending"}
           /\ n.intent = r.intent /\ n.charge = r.charge /\ n.processed = r.processed
           /\ n.xpay_session_id = r.xpay_session_id /\ n.superseded = r.superseded
<1>1. CASE sess[s].amount = "mismatch"
  BY <1>1 DEF ValidateAmount, SetError, Row, Closed
<1>2. CASE sess[s].amount # "mismatch"
  BY <1>2 DEF ValidateAmount
<1> QED
  BY <1>1, <1>2

\* What the action of a current or superseded session makes of a row.
LEMMA ApplyFacts ==
    ASSUME NEW r \in Row, r.state # "absent",
           NEW data \in PaymentData,
           r.state = "done" => r.intent # None
    PROVE  LET action == SessionAction(r, data)
               n == ApplyAction(r, action, data.session)
           IN
           /\ n \in Row
           /\ n.state # "absent"
           /\ n.processed = r.processed
           /\ n.xpay_session_id = r.xpay_session_id /\ n.superseded = r.superseded
           /\ r.state = "done" => n.state = "done"
           /\ r.state = "done" /\ r.charge = r.intent /\ r.xpay_session_id \in {Unset, r.intent} =>
                 n.intent = r.intent /\ n.charge = r.charge
           /\ n.state = "done" =>
                 \/ r.state = "done" /\ n.intent = r.intent /\ n.charge = r.charge
                 \/ /\ n.intent = data.session.id /\ n.charge = data.session.id
                    /\ data.session.id \in Session
                    /\ r.xpay_session_id = data.session.id
                    /\ data.session.paymentStatus = "paid"
           /\ r.state # "done" /\ n.state = "done" =>
                 /\ r.state \in {"draft", "pending"}
                 /\ n.intent = data.session.id /\ n.charge = data.session.id
                 /\ r.xpay_session_id = data.session.id
                 /\ data.session.paymentStatus = "paid"
           /\ Closed(r.state) => n.state = r.state
           /\ n.intent # r.intent /\ r.intent # None => n.intent = r.xpay_session_id
           /\ r.state = "pending" => n.state # "cancel"
           /\ Parks(action) => data.session.paymentStatus = "paid" /\ n.state = r.state
           /\ Verdict(data.session, data.event_type) = "PAID"
                 /\ \/ r.xpay_session_id = data.session.id
                    \/ r.xpay_session_id # Unset /\ InSeq(data.session.id, r.superseded)
              => (n.state = "done" /\ n.intent = data.session.id) \/ Parks(action)
<1> DEFINE session == data.session
           verdict == Verdict(session, data.event_type)
           relation == Ownership(session.id, r.xpay_session_id, r.superseded)
           action == SessionAction(r, data)
           n == ApplyAction(r, action, session)
<1>1. session \in SessionPayload /\ session.id \in Session
  BY DEF PaymentData, SessionPayload
<1>2. session.id # None /\ session.id # Unset
  BY <1>1, ConstantsAssumption
<1>3. verdict = "PAID" => session.status = "complete" /\ session.paymentStatus = "paid"
  BY DEF Verdict
<1>4. /\ relation \in {"CURRENT", "SUPERSEDED", "FOREIGN"}
      /\ relation = "CURRENT" => r.xpay_session_id = session.id
      /\ \/ r.xpay_session_id = session.id
         \/ r.xpay_session_id # Unset /\ InSeq(session.id, r.superseded)
         => relation # "FOREIGN"
  BY <1>2 DEF Ownership
<1>5. verdict \in {"UNKNOWN", "FAILED", "EXPIRED", "PAID", "AWAITING"}
  BY DEF Verdict
<1>6. LET m == RecordPaymentIds(r, session) IN
      /\ m \in Row
      /\ m.state = r.state /\ m.processed = r.processed
      /\ m.xpay_session_id = r.xpay_session_id /\ m.superseded = r.superseded
      /\ m.intent \in {r.intent, session.id}
      /\ verdict = "PAID" => m.intent = session.id /\ m.charge = session.id
  BY <1>1, <1>3 DEF RecordPaymentIds, Row
<1> HIDE DEF verdict, relation
<1>7. CASE relation = "FOREIGN"
  <2>1. action = "foreign"
    BY <1>7 DEF SessionAction, relation
  <2> QED
    BY <1>4, <1>7, <2>1 DEF ApplyAction, Parks, Closed
<1>8. CASE relation = "SUPERSEDED" /\ verdict # "PAID"
  <2>1. action = "superseded_ignored"
    BY <1>8 DEF SessionAction, relation, verdict
  <2> QED
    BY <1>8, <2>1 DEF ApplyAction, Parks, verdict, Closed
<1>9. CASE relation = "SUPERSEDED" /\ verdict = "PAID"
  <2>1. action = "superseded_paid"
    BY <1>9 DEF SessionAction, relation, verdict
  <2>2. n = ParkIds(r, session, FALSE)
    BY <2>1 DEF ApplyAction
  <2>3. /\ n \in Row /\ n.state = r.state /\ n.processed = r.processed
        /\ n.xpay_session_id = r.xpay_session_id /\ n.superseded = r.superseded
        /\ r.intent # None => n = r
    BY <1>6, <2>2 DEF ParkIds
  <2> QED
    BY <1>3, <1>9, <2>1, <2>3 DEF Parks
<1>10. CASE relation = "CURRENT" /\ verdict = "PAID"
  <2>1. CASE r.state \in {"cancel", "error"}
    <3>1. action = "PARK"
      BY <1>10, <2>1 DEF SessionAction, Plan, relation, verdict
    <3>2. n = RecordPaymentIds(r, session)
      BY <3>1 DEF ApplyAction, ParkIds
    <3> QED
      BY <1>3, <1>4, <1>6, <1>10, <2>1, <3>1, <3>2 DEF Parks, Closed
  <2>2. CASE r.state \in {"draft", "pending", "done"}
    <3>1. action = "SET_DONE"
      BY <1>10, <2>2 DEF SessionAction, Plan, relation, verdict
    <3>2. n = [RecordPaymentIds(r, session) EXCEPT !.state = SetDone(@)]
      BY <3>1 DEF ApplyAction
    <3>3. /\ n \in Row /\ n.state = "done" /\ n.processed = r.processed
          /\ n.xpay_session_id = r.xpay_session_id /\ n.superseded = r.superseded
          /\ n.intent = session.id /\ n.charge = session.id
      BY <1>6, <1>10, <2>2, <3>2 DEF SetDone, Row
    <3>4. r.xpay_session_id = session.id
      BY <1>4, <1>10
    <3>5. r.charge = r.intent /\ r.xpay_session_id \in {Unset, r.intent} =>
             n.intent = r.intent /\ n.charge = r.charge
      BY <1>2, <3>3, <3>4
    <3> QED
      BY <1>1, <1>2, <1>3, <1>10, <2>2, <3>1, <3>3, <3>4, <3>5 DEF Parks, Closed
  <2> QED
    BY <2>1, <2>2 DEF Row
<1>11. CASE relation = "CURRENT" /\ verdict # "PAID"
  <2>1. /\ action \in {"SET_PENDING", "SET_CANCELED", "SET_ERROR", "NONE"}
        /\ action = "SET_PENDING" => r.state = "draft"
        /\ action = "SET_CANCELED" => r.state = "draft"
        /\ action = "SET_ERROR" => r.state \in {"draft", "pending"}
    BY <1>5, <1>11 DEF SessionAction, Plan, relation, verdict
  <2>2. CASE action = "SET_PENDING"
    <3>1. n = [RecordPaymentIds(r, session) EXCEPT !.state = SetPending(@)]
      BY <2>2 DEF ApplyAction
    <3>2. /\ n \in Row /\ n.state = "pending" /\ n.processed = r.processed
          /\ n.xpay_session_id = r.xpay_session_id /\ n.superseded = r.superseded
          /\ n.intent \in {r.intent, session.id}
      BY <1>6, <2>1, <2>2, <3>1 DEF SetPending, Row
    <3> QED
      BY <1>4, <1>11, <2>1, <2>2, <3>2 DEF Parks, verdict, Closed
  <2>3. CASE action = "SET_CANCELED"
    <3>1. n = [r EXCEPT !.state = "cancel"]
      BY <2>1, <2>3 DEF ApplyAction, SetCanceled
    <3> QED
      BY <1>11, <2>1, <2>3, <3>1 DEF Parks, verdict, Row, Closed
  <2>4. CASE action = "SET_ERROR"
    <3>1. n = [r EXCEPT !.state = "error"]
      BY <2>1, <2>4 DEF ApplyAction, SetError
    <3> QED
      BY <1>11, <2>1, <2>4, <3>1 DEF Parks, verdict, Row, Closed
  <2>5. CASE action = "NONE"
    <3>1. n = r
      BY <2>5 DEF ApplyAction
    <3> QED
      BY <1>11, <2>5, <3>1 DEF Parks, verdict
  <2> QED
    BY <2>1, <2>2, <2>3, <2>4, <2>5
<1> QED
  BY <1>4, <1>7, <1>8, <1>9, <1>10, <1>11

LEMMA ApplyLockedStep ==
    ASSUME IInv, NEW w \in Worker, ApplyLocked(w)
    PROVE  IInv'
<1>1. job \in [Worker -> Job] /\ job[w].step = "locked"
  BY DEF IInv, TypeOK, ApplyLocked
<1>2. PICK t \in Tx, data \in PaymentData : job[w].tx = t /\ job[w].data = data
  BY <1>1, JobFacts DEF Applying
<1> DEFINE sid == data.session.id
           r == ValidateAmount(row[t], sid)
           action == SessionAction(r, data)
           applied == ApplyAction(r, action, data.session)
           n == Remember(applied, data.event_id)
<1>0. Finish(w)
  BY DEF ApplyLocked
<1>3. \/ /\ row' = [row EXCEPT ![t] = r] /\ parked' = parked
         /\ sess[sid].amount = "mismatch" \/ Replayed(r, data)
      \/ /\ ~Replayed(r, data)
         /\ row' = [row EXCEPT ![t] = n]
         /\ parked' = parked \cup (IF Parks(action) THEN {<<t, sid>>} ELSE {})
  BY <1>2 DEF ApplyLocked
<1>4. /\ data.session \in SessionPayload
      /\ sid \in Session
      /\ Holds(t, sid)
      /\ sess[sid].owner = t
      /\ data.session.paymentStatus = "paid" => sess[sid].paymentStatus = "paid"
      /\ row[t] \in Row
      /\ row[t].state # "absent"
      /\ Len(row[t].processed) <= ProcessedCap
      /\ row[t].state = "done" =>
            /\ row[t].intent # None /\ row[t].charge = row[t].intent
            /\ sess[row[t].intent].owner = t
            /\ sess[row[t].intent].paymentStatus = "paid"
            /\ sess[row[t].intent].amount # "mismatch"
            /\ row[t].xpay_session_id \in {Unset, row[t].intent}
      /\ data.event_id # None => /\ data.event_id \in Event
                                 /\ data.event_id.type = data.event_type
                                 /\ data.event_id.session = data.session
  BY <1>1, <1>2, LockedFacts
<1>5. /\ r \in Row
      /\ r.state # "absent"
      /\ r.state = "done" <=> row[t].state = "done"
      /\ sess[sid].amount = "mismatch" => r.state \notin {"draft", "pending"}
      /\ r.intent = row[t].intent /\ r.charge = row[t].charge /\ r.processed = row[t].processed
      /\ r.xpay_session_id = row[t].xpay_session_id /\ r.superseded = row[t].superseded
  BY <1>4, ValidateFacts
<1>6. ParkedIsPaid /\ parked \in SUBSET (Tx \X Session) /\ UNCHANGED sess
      /\ row \in [Tx -> Row]
  BY <1>0 DEF IInv, TypeOK, StoreInv, Finish
<1>7. CASE /\ row' = [row EXCEPT ![t] = r] /\ parked' = parked
           /\ sess[sid].amount = "mismatch" \/ Replayed(r, data)
  <2>1. data.event_id # None /\ PaidEvent(data.event_id)
           /\ sess[data.event_id.session.id].amount # "mismatch"
        => AccountedOrSwept(data.event_id.session.id)'
    <3> SUFFICES ASSUME data.event_id # None, PaidEvent(data.event_id),
                        sess[data.event_id.session.id].amount # "mismatch"
                 PROVE  AccountedOrSwept(data.event_id.session.id)'
      OBVIOUS
    <3>1. data.event_id \in Event /\ data.event_id.session.id = sid
      BY <1>4
    <3>2. InSeq(data.event_id, row[t].processed)
      BY <1>5, <1>7, <3>1 DEF Replayed, IsReplay
    <3>3. AccountedOrSwept(sid)
      BY <3>1, <3>2 DEF IInv, StoreInv, ProcessedInv
    <3>4. CASE Accounted(sid)
      <4>1. PICK u \in Tx : (row[u].state = "done" /\ row[u].intent = sid) \/ <<u, sid>> \in parked
        BY <3>4 DEF Accounted
      <4>2. row[u].state = "done" => row'[u].state = "done" /\ row'[u].intent = row[u].intent
        BY <1>5, <1>6, <1>7
      <4> QED
        BY <1>7, <3>1, <4>1, <4>2 DEF AccountedOrSwept, Accounted
    <3>5. CASE Swept(sid)
      <4>1. PICK u \in Tx : row[u].xpay_session_id = Unset /\ InSeq(sid, row[u].superseded)
        BY <3>5 DEF Swept
      <4>2. row'[u].xpay_session_id = Unset /\ InSeq(sid, row'[u].superseded)
        BY <1>5, <1>6, <1>7, <4>1
      <4> QED
        BY <3>1, <4>2 DEF AccountedOrSwept, Swept
    <3> QED
      BY <3>3, <3>4, <3>5 DEF AccountedOrSwept
  <2>2. /\ parked \subseteq parked' /\ parked' \in SUBSET (Tx \X Session)
        /\ ParkedIsPaid'
    BY <1>6, <1>7 DEF ParkedIsPaid
  <2> HIDE DEF r
  <2>3. /\ Len(r.processed) <= ProcessedCap
        /\ \A e \in Event : InSeq(e, r.processed) =>
              InSeq(e, row[t].processed) \/ e = data.event_id
        /\ row[t].state = "done" => r.state = "done" /\ r.intent = row[t].intent
        /\ r.state = "done" =>
              /\ r.intent # None /\ r.charge = r.intent
              /\ sess[r.intent].owner = t
              /\ sess[r.intent].paymentStatus = "paid"
              /\ sess[r.intent].amount # "mismatch"
              /\ r.xpay_session_id \in {Unset, r.intent}
    BY <1>4, <1>5
  <2>4. row' = [row EXCEPT ![t] = r]
    BY <1>7
  <2> QED
    BY <1>0, <1>1, <1>2, <1>5, <2>1, <2>2, <2>3, <2>4, FinishStep
<1>8. CASE /\ ~Replayed(r, data)
           /\ row' = [row EXCEPT ![t] = n]
           /\ parked' = parked \cup (IF Parks(action) THEN {<<t, sid>>} ELSE {})
  <2>1. /\ applied \in Row
        /\ applied.state # "absent"
        /\ applied.processed = r.processed
        /\ applied.xpay_session_id = r.xpay_session_id /\ applied.superseded = r.superseded
        /\ r.state = "done" => /\ applied.state = "done"
                               /\ applied.intent = r.intent /\ applied.charge = r.charge
        /\ r.state # "done" /\ applied.state = "done" =>
              /\ r.state \in {"draft", "pending"}
              /\ applied.intent = sid /\ applied.charge = sid
              /\ r.xpay_session_id = sid
              /\ data.session.paymentStatus = "paid"
        /\ Parks(action) => data.session.paymentStatus = "paid"
        /\ Verdict(data.session, data.event_type) = "PAID"
              /\ \/ r.xpay_session_id = sid
                 \/ r.xpay_session_id # Unset /\ InSeq(sid, r.superseded)
           => (applied.state = "done" /\ applied.intent = sid) \/ Parks(action)
    BY <1>4, <1>5, ApplyFacts
  <2> HIDE DEF r, action, applied
  <2>2. ~Replayed(applied, data) /\ Len(applied.processed) <= ProcessedCap
    BY <1>4, <1>5, <1>8, <2>1 DEF Replayed
  <2>3. /\ n \in Row /\ Len(n.processed) <= ProcessedCap
        /\ n.state = applied.state /\ n.intent = applied.intent /\ n.charge = applied.charge
        /\ n.xpay_session_id = r.xpay_session_id /\ n.superseded = r.superseded
        /\ \A e \in Event : InSeq(e, n.processed) => InSeq(e, r.processed) \/ e = data.event_id
    BY <2>1, <2>2, RememberRowFacts
  <2> HIDE DEF n
  <2>4. n.state = "done" =>
           /\ n.intent # None /\ n.charge = n.intent
           /\ sess[n.intent].owner = t
           /\ sess[n.intent].paymentStatus = "paid"
           /\ sess[n.intent].amount # "mismatch"
           /\ n.xpay_session_id \in {Unset, n.intent}
    <3>1. CASE r.state = "done"
      BY <1>4, <1>5, <2>1, <2>3, <3>1
    <3>2. CASE r.state # "done"
      <4>1. sid # None
        BY <1>4, ConstantsAssumption
      <4> QED
        BY <1>4, <1>5, <2>1, <2>3, <3>2, <4>1
    <3> QED
      BY <3>1, <3>2
  <2>5. row[t].state = "done" => n.state = "done" /\ n.intent = row[t].intent
    BY <1>5, <2>1, <2>3
  <2>6. /\ parked \subseteq parked' /\ parked' \in SUBSET (Tx \X Session)
        /\ ParkedIsPaid'
    <3>1. CASE Parks(action)
      BY <1>4, <1>6, <1>8, <2>1, <3>1 DEF ParkedIsPaid
    <3>2. CASE ~Parks(action)
      BY <1>6, <1>8, <3>2 DEF ParkedIsPaid
    <3> QED
      BY <3>1, <3>2
  <2>7. row'[t] = n
    BY <1>6, <1>8
  <2>8. data.event_id # None /\ PaidEvent(data.event_id)
           /\ sess[data.event_id.session.id].amount # "mismatch"
        => AccountedOrSwept(data.event_id.session.id)'
    <3> SUFFICES ASSUME data.event_id # None, PaidEvent(data.event_id)
                 PROVE  AccountedOrSwept(data.event_id.session.id)'
      OBVIOUS
    <3>1. data.event_id.session.id = sid
      BY <1>4
    <3>2. Verdict(data.session, data.event_type) = "PAID"
      BY <1>4 DEF PaidEvent
    <3>3. r.xpay_session_id = sid \/ InSeq(sid, r.superseded)
      BY <1>4, <1>5 DEF Holds
    <3>4. CASE r.xpay_session_id = Unset
      <4>1. sid # Unset
        BY <1>4, ConstantsAssumption
      <4>2. row'[t].xpay_session_id = Unset /\ InSeq(sid, row'[t].superseded)
        BY <2>3, <2>7, <3>3, <3>4, <4>1
      <4> QED
        BY <3>1, <4>2 DEF AccountedOrSwept, Swept
    <3>5. CASE r.xpay_session_id # Unset
      <4>1. (n.state = "done" /\ n.intent = sid) \/ Parks(action)
        BY <2>1, <2>3, <3>2, <3>3, <3>5
      <4>2. CASE Parks(action)
        BY <1>8, <3>1, <4>2 DEF AccountedOrSwept, Accounted
      <4> QED
        BY <2>7, <3>1, <4>1, <4>2 DEF AccountedOrSwept, Accounted
    <3> QED
      BY <3>4, <3>5
  <2>9. \A e \in Event : InSeq(e, n.processed) => InSeq(e, row[t].processed) \/ e = data.event_id
    BY <1>5, <2>3
  <2>10. /\ n.xpay_session_id = row[t].xpay_session_id /\ n.superseded = row[t].superseded
         /\ n.state # "absent"
    BY <1>5, <2>1, <2>3
  <2> QED
    BY <1>0, <1>1, <1>2, <1>8, <2>3, <2>4, <2>5, <2>6, <2>8, <2>9, <2>10, FinishStep
<1> QED
  BY <1>3, <1>7, <1>8

-----------------------------------------------------------------------------
(* Every step.                                                             *)

LEMMA RequestStepStep ==
    ASSUME IInv, ~Recheckout, NEW w \in Worker, RequestStep(w)
    PROVE  IInv'
<1>1. CASE \E t \in Tx : CheckoutStart(w, t) \/ SweepSibling(w, t) \/ ReturnFind(w, t)
  BY <1>1, CheckoutStartStep, SweepSiblingStep, ReturnFindStep
<1>2. CASE \E s \in Session, amount \in Amounts : CreateSession(w, s, amount)
  BY <1>2, CreateSessionStep
<1>3. CASE \E e \in sent, t \in Tx : WebhookFind(w, e, t)
  BY <1>3, WebhookFindStep
<1>4. CASE CheckoutCommit(w)
  BY <1>4, CheckoutCommitStep
<1>5. CASE ReturnRead(w)
  BY <1>5, ReturnReadStep
<1>6. CASE Lock(w)
  BY <1>6, LockStep
<1>7. CASE LockBusy(w)
  BY <1>7, LockBusyStep
<1>8. CASE ApplyLocked(w)
  BY <1>8, ApplyLockedStep
<1>9. CASE NoteDeclined(w)
  BY <1>9, NoteDeclinedStep
<1>10. CASE Abort(w)
  BY <1>10, AbortStep
<1> QED
  BY <1>1, <1>2, <1>3, <1>4, <1>5, <1>6, <1>7, <1>8, <1>9, <1>10 DEF RequestStep

LEMMA StutterStep ==
    ASSUME IInv, UNCHANGED vars
    PROVE  IInv'
<1> USE DEF vars, IInv, StoreInv
<1>1. TypeOK'
  BY DEF TypeOK
<1>2. OwnershipInv'
  BY DEF OwnershipInv, Holds
<1>3. TruthInv'
  BY DEF TruthInv
<1>4. DoneInv'
  BY DEF DoneInv, DoneByOwnPaidSession
<1>5. ParkedIsPaid'
  BY DEF ParkedIsPaid
<1>6. ProcessedInv'
  BY DEF ProcessedInv, AccountedOrSwept, Accounted, Swept
<1>7. OnlySweptPaymentsAreDropped'
  BY DEF OnlySweptPaymentsAreDropped, AccountedOrSwept, Accounted, Swept
<1>8. CreatorInv'
  BY DEF CreatorInv, CheckingOut
<1>9. ASSUME NEW w \in Worker PROVE JobInv(w)'
  BY DEF JobInv, CheckingOut, Applying, Holds
<1> QED
  BY <1>1, <1>2, <1>3, <1>4, <1>5, <1>6, <1>7, <1>8, <1>9

\* The store's invariant holds of every reachable state: whatever the
\* requests, the platform and the shopper do, in any order and any number
\* of times, with workers lost and requests rolled back on the way.  Of the
\* payments of swept sessions it says nothing: order_sync drops them.
THEOREM Invariance ==
    ASSUME ~Recheckout
    PROVE  Spec => []IInv
<1>1. IInv /\ [Next]_vars => IInv'
  <2> SUFFICES ASSUME IInv, [Next]_vars
               PROVE  IInv'
    OBVIOUS
  <2>1. CASE \E w \in Worker : RequestStep(w)
    BY <2>1, RequestStepStep
  <2>2. CASE \E s \in Session : PlatformStep(s)
    BY <2>2, PlatformStepStep
  <2>3. CASE UNCHANGED vars
    BY <2>3, StutterStep
  <2> QED
    BY <2>1, <2>2, <2>3 DEF Next
<1> QED
  BY <1>1, InitIInv, PTL DEF Spec

\* order_sync.py settles a transaction with nothing but the payment of the
\* right amount of its own session.
THEOREM DoneOnce ==
    ASSUME ~Recheckout
    PROVE  Spec => []DoneByOwnPaidSession
<1>1. IInv => DoneByOwnPaidSession
  BY DEF IInv, StoreInv, DoneInv
<1> QED
  BY <1>1, Invariance, PTL

\* An event that reports money is answered 200 only with the money applied
\* or escalated by apply_locked, unless _expire_sibling_sessions has taken
\* its session from the transaction and left none in its place: lifecycle's
\* ownership then answers FOREIGN, and the payment is dropped.
THEOREM OnlySweptAreDropped ==
    ASSUME ~Recheckout
    PROVE  Spec => []OnlySweptPaymentsAreDropped
<1>1. IInv => OnlySweptPaymentsAreDropped
  BY DEF IInv, StoreInv
<1> QED
  BY <1>1, Invariance, PTL

\* _search_by_reference finds the transaction of every session a shopper
\* was given, whatever checkout_service superseded meanwhile.
THEOREM EverySessionFound ==
    ASSUME ~Recheckout
    PROVE  Spec => []HandedSessionFindable
<1>1. IInv => HandedSessionFindable
  <2> SUFFICES ASSUME IInv, NEW s \in handed
               PROVE  \E t \in Tx : sess[s].owner = t
                         /\ (row[t].xpay_session_id = s \/ InSeq(s, row[t].superseded))
    BY DEF HandedSessionFindable
  <2>1. sess[s].owner \in Tx
    BY DEF IInv, TypeOK, PlatformSession, StoreInv, OwnershipInv
  <2> QED
    BY <2>1 DEF IInv, StoreInv, OwnershipInv, Holds
<1> QED
  BY <1>1, Invariance, PTL

-----------------------------------------------------------------------------
(* What a step may do to a row: the action properties, and the promise of  *)
(* Payment.                                                                *)

\* The step leaves what the transaction has come to as it was.
Carried(t) ==
    /\ \/ row'[t].state = row[t].state
       \/ row[t].state = "absent" /\ row'[t].state = "draft"
    /\ row'[t].intent = row[t].intent
    /\ row'[t].charge = row[t].charge

\* What apply_locked makes of the row r with a report of the session s.
Advanced(r, n, s) ==
    /\ Closed(r.state) => n.state = r.state
    /\ r.state = "done" => n.intent = r.intent /\ n.charge = r.charge
    /\ r.state # "done" /\ n.state = "done" => n.intent = s /\ r.xpay_session_id = s
    /\ r.intent \notin {None, n.intent} => n.intent = r.xpay_session_id
    /\ r.state = "pending" => n.state # "cancel"
    /\ r.state # "absent" /\ n.state # "absent"

\* A checkout's commit creates a row, or moves a sibling's ids.
LEMMA CommitCarries ==
    ASSUME IInv, NEW w \in Worker, CheckoutCommit(w)
    PROVE  /\ \A t \in Tx : Carried(t)
           /\ UNCHANGED <<parked, sess>>
<1>1. job \in [Worker -> Job] /\ row \in [Tx -> Row]
  BY DEF IInv, TypeOK
<1>2. job[w].step = "storing" /\ CheckingOut(w)
  BY DEF CheckoutCommit, CheckingOut
<1>3. job[w].tx \in Tx /\ job[w].seen \in [Tx -> SeenRow \cup {None}]
  BY <1>1, <1>2, JobFacts
<1>4. row[job[w].tx].state = "absent"
  BY <1>2 DEF IInv, JobInv
<1>5. ASSUME NEW t \in Tx PROVE Carried(t)
  <2>1. row'[t] = IF t = job[w].tx
                  THEN [row[t] EXCEPT !.xpay_session_id = job[w].session,
                                      !.state = IF @ = "absent" THEN "draft" ELSE @]
                  ELSE IF job[w].seen[t] # None THEN Supersede(row[t], job[w].seen[t])
                  ELSE row[t]
    BY DEF CheckoutCommit
  <2>2. row[t] \in Row
    BY <1>1
  <2>3. CASE t = job[w].tx
    BY <1>4, <2>1, <2>2, <2>3 DEF Carried, Row
  <2>4. CASE t # job[w].tx /\ job[w].seen[t] # None
    <3>1. job[w].seen[t] \in SeenRow
      BY <1>3, <2>4
    <3> QED
      BY <2>1, <2>2, <2>4, <3>1, SupersedeFacts DEF Carried
  <2>5. CASE t # job[w].tx /\ job[w].seen[t] = None
    BY <2>1, <2>5 DEF Carried
  <2> QED
    BY <2>3, <2>4, <2>5
<1> QED
  BY <1>5 DEF CheckoutCommit

\* A decline is a note.
LEMMA NoteCarries ==
    ASSUME IInv, NEW w \in Worker, NoteDeclined(w)
    PROVE  /\ \A t \in Tx : Carried(t)
           /\ UNCHANGED <<parked, sess>>
<1>1. job \in [Worker -> Job] /\ job[w].step = "locked" /\ row \in [Tx -> Row]
  BY DEF IInv, TypeOK, NoteDeclined
<1>2. PICK t \in Tx, data \in PaymentData : job[w].tx = t /\ job[w].data = data
  BY <1>1, JobFacts DEF Applying
<1> DEFINE r == IF Replayed(row[t], data) THEN row[t] ELSE Remember(row[t], data.event_id)
<1>3. row' = [row EXCEPT ![t] = r]
  BY <1>1, <1>2 DEF NoteDeclined
<1>4. row[t] \in Row /\ Len(row[t].processed) <= ProcessedCap
  BY <1>1, <1>2, LockedFacts
<1>5. r.state = row[t].state /\ r.intent = row[t].intent /\ r.charge = row[t].charge
  <2>1. CASE Replayed(row[t], data)
    BY <2>1
  <2>2. CASE ~Replayed(row[t], data)
    <3>1. r = Remember(row[t], data.event_id)
      BY <2>2
    <3> QED
      BY <1>4, <2>2, <3>1, RememberRowFacts
  <2> QED
    BY <2>1, <2>2
<1> HIDE DEF r
<1>6. \A u \in Tx : Carried(u)
  BY <1>1, <1>3, <1>5 DEF Carried
<1> QED
  BY <1>6 DEF NoteDeclined, Finish

\* What applying a payload does: to the transaction it was locked for, and to
\* the payments in front of a human.
LEMMA AppliedFacts ==
    ASSUME IInv, NEW w \in Worker, ApplyLocked(w)
    PROVE  \E t \in Tx, s \in Session, n \in Row :
              /\ row' = [row EXCEPT ![t] = n]
              /\ Advanced(row[t], n, s)
              /\ row[t].state # "done" /\ n.state = "done" =>
                    sess[s].paymentStatus = "paid" /\ sess[s].owner = t
              /\ \/ parked' = parked
                 \/ /\ parked' = parked \cup {<<t, s>>}
                    /\ sess[s].paymentStatus = "paid"
                    /\ n.state \in {row[t].state, "error"}
              /\ UNCHANGED sess
<1>1. job \in [Worker -> Job] /\ job[w].step = "locked"
  BY DEF IInv, TypeOK, ApplyLocked
<1>2. PICK t \in Tx, data \in PaymentData : job[w].tx = t /\ job[w].data = data
  BY <1>1, JobFacts DEF Applying
<1> DEFINE sid == data.session.id
           r == ValidateAmount(row[t], sid)
           action == SessionAction(r, data)
           applied == ApplyAction(r, action, data.session)
           n == Remember(applied, data.event_id)
<1>3. \/ row' = [row EXCEPT ![t] = r] /\ parked' = parked
      \/ /\ ~Replayed(r, data)
         /\ row' = [row EXCEPT ![t] = n]
         /\ parked' = parked \cup (IF Parks(action) THEN {<<t, sid>>} ELSE {})
  BY <1>2 DEF ApplyLocked
<1>4. /\ sid \in Session
      /\ sess[sid].owner = t
      /\ data.session.paymentStatus = "paid" => sess[sid].paymentStatus = "paid"
      /\ row[t] \in Row
      /\ row[t].state # "absent"
      /\ Len(row[t].processed) <= ProcessedCap
      /\ row[t].state = "done" => /\ row[t].intent # None /\ row[t].charge = row[t].intent
                                  /\ row[t].xpay_session_id \in {Unset, row[t].intent}
  BY <1>1, <1>2, LockedFacts
<1>5. /\ r \in Row
      /\ r.state # "absent"
      /\ r.state = "done" <=> row[t].state = "done"
      /\ r.state \in {row[t].state, "error"}
      /\ Closed(row[t].state) => r.state = row[t].state
      /\ r.intent = row[t].intent /\ r.charge = row[t].charge /\ r.processed = row[t].processed
      /\ r.xpay_session_id = row[t].xpay_session_id
  BY <1>4, ValidateFacts
<1>6. UNCHANGED sess
  BY DEF ApplyLocked, Finish
<1>7. CASE row' = [row EXCEPT ![t] = r] /\ parked' = parked
  <2> HIDE DEF r
  <2>1. Advanced(row[t], r, sid) /\ ~(row[t].state # "done" /\ r.state = "done")
    BY <1>4, <1>5 DEF Advanced
  <2> QED
    BY <1>4, <1>5, <1>6, <1>7, <2>1
<1>8. CASE /\ ~Replayed(r, data)
           /\ row' = [row EXCEPT ![t] = n]
           /\ parked' = parked \cup (IF Parks(action) THEN {<<t, sid>>} ELSE {})
  <2>1. /\ applied \in Row
        /\ applied.state # "absent"
        /\ applied.processed = r.processed
        /\ r.state = "done" => /\ applied.state = "done"
                               /\ applied.intent = r.intent /\ applied.charge = r.charge
        /\ r.state # "done" /\ applied.state = "done" =>
              /\ applied.intent = sid
              /\ r.xpay_session_id = sid
              /\ data.session.paymentStatus = "paid"
        /\ Closed(r.state) => applied.state = r.state
        /\ applied.intent # r.intent /\ r.intent # None => applied.intent = r.xpay_session_id
        /\ r.state = "pending" => applied.state # "cancel"
        /\ Parks(action) => data.session.paymentStatus = "paid" /\ applied.state = r.state
    BY <1>4, <1>5, ApplyFacts
  <2> HIDE DEF r, action, applied
  <2>2. ~Replayed(applied, data) /\ Len(applied.processed) <= ProcessedCap
    BY <1>4, <1>5, <1>8, <2>1 DEF Replayed
  <2>3. /\ n \in Row
        /\ n.state = applied.state /\ n.intent = applied.intent /\ n.charge = applied.charge
    BY <2>1, <2>2, RememberRowFacts
  <2> HIDE DEF n
  <2>4. Closed(row[t].state) => n.state = row[t].state
    BY <1>5, <2>1, <2>3
  <2>5. row[t].state = "pending" => n.state # "cancel"
    BY <1>5, <2>1, <2>3 DEF Closed
  <2>6. Advanced(row[t], n, sid)
    BY <1>4, <1>5, <2>1, <2>3, <2>4, <2>5 DEF Advanced
  <2>7. row[t].state # "done" /\ n.state = "done" => data.session.paymentStatus = "paid"
    BY <1>5, <2>1, <2>3
  <2>8. \/ parked' = parked
        \/ /\ parked' = parked \cup {<<t, sid>>}
           /\ sess[sid].paymentStatus = "paid"
           /\ n.state \in {row[t].state, "error"}
    <3>1. CASE Parks(action)
      BY <1>4, <1>5, <1>8, <2>1, <2>3, <3>1
    <3>2. CASE ~Parks(action)
      BY <1>8, <3>2
    <3> QED
      BY <3>1, <3>2
  <2> QED
    BY <1>4, <1>6, <1>8, <2>3, <2>6, <2>7, <2>8
<1> QED
  BY <1>3, <1>7, <1>8

\* Every other step carries the rows over.
LEMMA RowSteps ==
    ASSUME IInv, [Next]_vars
    PROVE  \/ (\A t \in Tx : Carried(t)) /\ parked' = parked
           \/ \E w \in Worker : ApplyLocked(w)
<1>1. CASE row' = row /\ parked' = parked
  BY <1>1 DEF Carried
<1>2. CASE \E w \in Worker : CheckoutCommit(w)
  BY <1>2, CommitCarries
<1>3. CASE \E w \in Worker : NoteDeclined(w)
  BY <1>3, NoteCarries
<1>4. CASE \E w \in Worker : ApplyLocked(w)
  BY <1>4
<1>5. \/ row' = row /\ parked' = parked
      \/ \E w \in Worker : CheckoutCommit(w) \/ NoteDeclined(w) \/ ApplyLocked(w)
  <2>1. CASE UNCHANGED vars
    BY <2>1 DEF vars
  <2>2. CASE \E s \in Session : PlatformStep(s)
    BY <2>2 DEF PlatformStep, Complete, AsyncSucceed, AsyncFail, Overdue, ExpireSession, Decline,
                store
  <2>3. ASSUME NEW w \in Worker, RequestStep(w)
        PROVE  \/ row' = row /\ parked' = parked
               \/ CheckoutCommit(w) \/ NoteDeclined(w) \/ ApplyLocked(w)
    BY <2>3 DEF RequestStep, CheckoutStart, SweepSibling, ReturnFind, CreateSession, WebhookFind,
                ReturnRead, Lock, LockBusy, Abort
  <2> QED
    BY <2>1, <2>2, <2>3 DEF Next
<1> QED
  BY <1>1, <1>2, <1>3, <1>4, <1>5

\* A step carries a transaction over, or advances it as apply_locked does.
LEMMA RowChange ==
    ASSUME IInv, [Next]_vars, NEW t \in Tx
    PROVE  Carried(t) \/ \E s \in Session : Advanced(row[t], row'[t], s)
<1>1. row \in [Tx -> Row]
  BY DEF IInv, TypeOK
<1>2. CASE \E w \in Worker : ApplyLocked(w)
  <2>1. PICK u \in Tx, s \in Session, n \in Row :
           row' = [row EXCEPT ![u] = n] /\ Advanced(row[u], n, s)
    BY <1>2, AppliedFacts
  <2>2. CASE u = t
    BY <1>1, <2>1, <2>2
  <2>3. CASE u # t
    BY <1>1, <2>1, <2>3 DEF Carried
  <2> QED
    BY <2>2, <2>3
<1> QED
  BY <1>2, RowSteps

\* lifecycle.plan guards every state it moves, and the setters of the framework
\* the rest: whatever is delivered, and in whatever order, a transaction that
\* is done, canceled or in error stays so, and a done one keeps the payment
\* and the charge a refund will be matched by.
THEOREM ClosedStaysClosedHolds ==
    ASSUME ~Recheckout
    PROVE  Spec => ClosedStaysClosed
<1> DEFINE P == \A t \in Tx : Closed(row[t].state) =>
                   /\ row'[t].state = row[t].state
                   /\ row[t].state = "done" => /\ row'[t].intent = row[t].intent
                                               /\ row'[t].charge = row[t].charge
<1>1. IInv /\ [Next]_vars => [P]_vars
  <2> SUFFICES ASSUME IInv, [Next]_vars, NEW t \in Tx, Closed(row[t].state)
               PROVE  /\ row'[t].state = row[t].state
                      /\ row[t].state = "done" => /\ row'[t].intent = row[t].intent
                                                  /\ row'[t].charge = row[t].charge
    OBVIOUS
  <2> QED
    BY RowChange DEF Carried, Advanced, Closed
<1> QED
  BY <1>1, Invariance, PTL DEF Spec, ClosedStaysClosed

\* The sessions on which money has moved.
PaidSessions == {s \in Session : sess[s].paymentStatus = "paid"}

\* PaidSessions moves when the platform says so, one session at a time, and is never
\* taken back; no request is at work in that step.
LEMMA MoneySteps ==
    ASSUME IInv, [Next]_vars
    PROVE  \/ PaidSessions' = PaidSessions
           \/ \E s \in Session : PaidSessions' = PaidSessions \cup {s} /\ UNCHANGED <<row, parked>>
<1>1. sess \in [Session -> PlatformSession] /\ job \in [Worker -> Job]
  BY DEF IInv, TypeOK
<1>2. \A s \in Session : sess[s].paymentStatus = "paid" => sess[s].status = "complete"
  BY DEF IInv, StoreInv, OwnershipInv
<1>3. sess' = sess => PaidSessions' = PaidSessions
  BY DEF PaidSessions
<1>4. ASSUME NEW s \in Session, PlatformExpire(s)
      PROVE  PaidSessions' = PaidSessions
  BY <1>1, <1>4 DEF PlatformExpire, PaidSessions, PlatformSession
<1>5. ASSUME NEW s \in Session, PlatformStep(s)
      PROVE  \/ PaidSessions' = PaidSessions
             \/ PaidSessions' = PaidSessions \cup {s} /\ UNCHANGED <<row, parked>>
  <2>0. UNCHANGED <<row, parked>>
    BY <1>5 DEF PlatformStep, Complete, AsyncSucceed, AsyncFail, Overdue, ExpireSession, Decline,
                store
  <2>1. CASE \E paymentStatus \in {"paid", "unpaid", None} : Complete(s, paymentStatus)
    <3>1. PICK p \in {"paid", "unpaid", None} : Complete(s, p)
      BY <2>1
    <3>2. sess' = [sess EXCEPT ![s] = [sess[s] EXCEPT !.status = "complete", !.isExpired = FALSE,
                                                      !.paymentStatus = p]]
      BY <3>1 DEF Complete
    <3>3. sess[s].status # "complete"
      BY <3>1 DEF Complete
    <3>4. /\ \A z \in Session \ {s} : sess'[z] = sess[z]
          /\ sess'[s].paymentStatus = p
      BY <1>1, <3>2 DEF PlatformSession
    <3>5. s \notin PaidSessions
      BY <1>2, <3>3 DEF PaidSessions
    <3>6. CASE p = "paid"
      BY <2>0, <3>4, <3>6 DEF PaidSessions
    <3>7. CASE p # "paid"
      BY <3>4, <3>5, <3>7 DEF PaidSessions
    <3> QED
      BY <3>6, <3>7
  <2>2. CASE AsyncSucceed(s)
    <3>1. sess' = [sess EXCEPT ![s] = [sess[s] EXCEPT !.paymentStatus = "paid"]]
      BY <2>2 DEF AsyncSucceed
    <3>2. /\ \A z \in Session \ {s} : sess'[z] = sess[z]
          /\ sess'[s].paymentStatus = "paid"
      BY <1>1, <3>1 DEF PlatformSession
    <3> QED
      BY <2>0, <3>2 DEF PaidSessions
  <2>3. CASE AsyncFail(s) \/ Decline(s)
    BY <1>3, <2>3 DEF AsyncFail, Decline
  <2>4. CASE Overdue(s)
    BY <1>1, <2>4 DEF Overdue, PaidSessions, PlatformSession
  <2>5. CASE ExpireSession(s)
    BY <1>4, <2>5 DEF ExpireSession
  <2> QED
    BY <1>5, <2>1, <2>2, <2>3, <2>4, <2>5 DEF PlatformStep
<1>6. ASSUME NEW w \in Worker, NEW u \in Tx, SweepSibling(w, u)
      PROVE  PaidSessions' = PaidSessions
  <2>1. job[w].step = "sweeping" /\ CheckingOut(w) /\ u \in job[w].todo
    BY <1>6 DEF SweepSibling, CheckingOut
  <2>2. job[w].seen \in [Tx -> SeenRow \cup {None}] /\ job[w].seen[u] # None
    BY <1>1, <2>1, JobFacts DEF IInv, JobInv
  <2>3. job[w].seen[u].xpay_session_id \in Session
    BY <2>2 DEF SeenRow
  <2> QED
    BY <1>3, <1>4, <1>6, <2>3 DEF SweepSibling, platform
<1>7. ASSUME NEW w \in Worker, NEW s \in Session, NEW amount \in Amounts, CreateSession(w, s, amount)
      PROVE  PaidSessions' = PaidSessions
  <2>1. CASE sess[s].status = "none" /\
             sess' = [sess EXCEPT ![s] = [NoSession EXCEPT !.status = "open", !.owner = job[w].tx,
                                                           !.amount = amount]]
    <3>1. s \notin PaidSessions
      BY <1>2, <2>1 DEF PaidSessions
    <3>2. /\ \A z \in Session \ {s} : sess'[z] = sess[z]
          /\ sess'[s].paymentStatus = "unpaid"
      BY <1>1, <2>1 DEF NoSession
    <3> QED
      BY <3>1, <3>2 DEF PaidSessions
  <2> QED
    BY <1>3, <1>7, <2>1 DEF CreateSession
<1>8. ASSUME NEW w \in Worker, RequestStep(w)
      PROVE  PaidSessions' = PaidSessions
  BY <1>3, <1>6, <1>7, <1>8
     DEF RequestStep, CheckoutStart, ReturnFind, WebhookFind, CheckoutCommit, ReturnRead, Lock,
         LockBusy, ApplyLocked, NoteDeclined, Abort, Finish
<1> QED
  BY <1>3, <1>5, <1>8 DEF Next, vars

\* The variables of the promise as state functions: what a transaction has
\* come to, and the payment that settled it.
Outcome == [t \in Tx |-> OutcomeOf(row[t].state)]
Applied == {p \in Tx \X Session : row[p[1]].state = "done" /\ row[p[1]].intent = p[2]}

\* Transactions that are carried over keep what they have come to.
LEMMA CarriedKeeps ==
    ASSUME \A t \in Tx : Carried(t)
    PROVE  Outcome' = Outcome /\ Applied' = Applied
<1>1. \A t \in Tx : OutcomeOf(row'[t].state) = OutcomeOf(row[t].state)
  BY DEF Carried, OutcomeOf
<1>2. \A t \in Tx, s \in Session : (row'[t].state = "done" /\ row'[t].intent = s)
                                     <=> (row[t].state = "done" /\ row[t].intent = s)
  BY DEF Carried
<1>3. Outcome' = Outcome
  BY <1>1 DEF Outcome
<1>4. Applied' = Applied
  BY <1>2 DEF Applied
<1> QED
  BY <1>3, <1>4

\* Applying a payload is one step of the promise: the payment settles its
\* transaction, the transaction is closed, the payment is put in front of a
\* human, or nothing comes of it.
LEMMA ApplyLockedRefines ==
    ASSUME IInv, NEW w \in Worker, ApplyLocked(w)
    PROVE  [Promise!PNext]_(Promise!pvars)
<1>1. row \in [Tx -> Row]
  BY DEF IInv, TypeOK
<1>2. PICK t \in Tx, s \in Session, n \in Row :
         /\ row' = [row EXCEPT ![t] = n]
         /\ Advanced(row[t], n, s)
         /\ row[t].state # "done" /\ n.state = "done" =>
               sess[s].paymentStatus = "paid" /\ sess[s].owner = t
         /\ \/ parked' = parked
            \/ /\ parked' = parked \cup {<<t, s>>}
               /\ sess[s].paymentStatus = "paid"
               /\ n.state \in {row[t].state, "error"}
         /\ UNCHANGED sess
  BY AppliedFacts
<1>3. row'[t] = n /\ \A u \in Tx \ {t} : row'[u] = row[u]
  BY <1>1, <1>2
<1>4. PaidSessions' = PaidSessions
  BY <1>2 DEF PaidSessions
<1>5. /\ row[t].state \in {"absent", "draft", "pending", "done", "cancel", "error"}
      /\ n.state \in {"absent", "draft", "pending", "done", "cancel", "error"}
  BY <1>1 DEF Row
<1>6. Outcome' = [Outcome EXCEPT ![t] = OutcomeOf(n.state)]
  BY <1>3 DEF Outcome
<1>7. Outcome[t] = OutcomeOf(row[t].state)
  BY DEF Outcome
<1>8. CASE row[t].state # "done" /\ n.state = "done"
  <2>1. n.intent = s /\ s \in PaidSessions /\ sess[s].owner = t /\ parked' = parked
    BY <1>2, <1>8 DEF Advanced, PaidSessions
  <2>2. Outcome[t] = "open" /\ OutcomeOf(n.state) = "done"
    BY <1>2, <1>5, <1>7, <1>8 DEF Advanced, Closed, OutcomeOf
  <2>3. \A u \in Tx : <<u, s>> \notin Applied
    <3> SUFFICES ASSUME NEW u \in Tx, row[u].state = "done", row[u].intent = s
                 PROVE  FALSE
      BY DEF Applied
    <3>1. sess[s].owner = u
      BY DEF IInv, StoreInv, DoneInv, DoneByOwnPaidSession
    <3> QED
      BY <1>8, <2>1, <3>1
  <2>4. Applied' = Applied \cup {<<t, s>>}
    BY <1>3, <1>8, <2>1 DEF Applied
  <2>5. Promise!Settle(t, s)
    BY <1>4, <1>6, <2>1, <2>2, <2>3, <2>4 DEF Promise!Settle, Outcome, Applied, PaidSessions
  <2> QED
    BY <2>5 DEF Promise!PNext
<1>9. CASE ~(row[t].state # "done" /\ n.state = "done")
  <2>1. Applied' = Applied
    <3>1. \A u \in Tx, z \in Session : (row'[u].state = "done" /\ row'[u].intent = z)
                                         <=> (row[u].state = "done" /\ row[u].intent = z)
      BY <1>2, <1>3, <1>9 DEF Advanced, Closed
    <3> QED
      BY <3>1 DEF Applied
  <2>2. \/ Outcome' = Outcome
        \/ Outcome[t] = "open" /\ Outcome' = [Outcome EXCEPT ![t] = "closed"]
    <3>1. CASE OutcomeOf(n.state) = OutcomeOf(row[t].state)
      <4>1. Outcome' = Outcome
        BY <1>6, <1>7, <3>1 DEF Outcome
      <4> QED
        BY <4>1
    <3>2. CASE OutcomeOf(n.state) # OutcomeOf(row[t].state)
      BY <1>2, <1>5, <1>6, <1>7, <1>9, <3>2 DEF Advanced, Closed, OutcomeOf
    <3> QED
      BY <3>1, <3>2
  <2>3. CASE parked' = parked /\ Outcome' = Outcome
    BY <1>4, <2>1, <2>3 DEF Promise!pvars, Outcome, Applied, PaidSessions
  <2>4. CASE parked' = parked /\ Outcome[t] = "open" /\ Outcome' = [Outcome EXCEPT ![t] = "closed"]
    <3>1. Promise!Close(t)
      BY <1>4, <2>1, <2>4 DEF Promise!Close, Outcome, Applied, PaidSessions
    <3> QED
      BY <3>1 DEF Promise!PNext
  <2>5. CASE parked' = parked \cup {<<t, s>>} /\ s \in PaidSessions
    <3>1. Promise!Escalate(t, s)
      BY <1>4, <2>1, <2>2, <2>5 DEF Promise!Escalate, Outcome, Applied, PaidSessions
    <3> QED
      BY <3>1 DEF Promise!PNext
  <2>6. parked' = parked \/ (parked' = parked \cup {<<t, s>>} /\ s \in PaidSessions)
    BY <1>2 DEF PaidSessions
  <2> QED
    BY <2>2, <2>3, <2>4, <2>5, <2>6
<1> QED
  BY <1>8, <1>9

\* Every step is one of the promise, or a stutter.
LEMMA NextRefines ==
    ASSUME IInv, [Next]_vars
    PROVE  [Promise!PNext]_(Promise!pvars)
<1>1. CASE \E w \in Worker : ApplyLocked(w)
  BY <1>1, ApplyLockedRefines
<1>2. CASE UNCHANGED <<row, parked>>
  <2>1. Outcome' = Outcome /\ Applied' = Applied
    BY <1>2 DEF Outcome, Applied
  <2>2. CASE PaidSessions' = PaidSessions
    BY <1>2, <2>1, <2>2 DEF Promise!pvars, Outcome, Applied, PaidSessions
  <2>3. ASSUME NEW s \in Session, PaidSessions' = PaidSessions \cup {s}
        PROVE  Promise!PNext
    <3>1. Promise!Pay(s)
      BY <1>2, <2>1, <2>3 DEF Promise!Pay, Outcome, Applied, PaidSessions
    <3> QED
      BY <3>1 DEF Promise!PNext
  <2> QED
    BY <2>2, <2>3, MoneySteps
<1>3. CASE (\A t \in Tx : Carried(t)) /\ parked' = parked /\ PaidSessions' = PaidSessions
  <2>1. Outcome' = Outcome /\ Applied' = Applied
    BY <1>3, CarriedKeeps
  <2> QED
    BY <1>3, <2>1 DEF Promise!pvars, Outcome, Applied, PaidSessions
<1>4. \/ \E w \in Worker : ApplyLocked(w)
      \/ (\A t \in Tx : Carried(t)) /\ parked' = parked
      \/ UNCHANGED <<row, parked>>
  BY RowSteps
<1> QED
  BY <1>1, <1>2, <1>3, <1>4, MoneySteps

\* The store and the platform together are an implementation of the promise:
\* each of their steps is one of its steps or changes nothing it speaks of.
THEOREM KeepsPromiseHolds ==
    ASSUME ~Recheckout
    PROVE  Spec => KeepsPromise
<1>1. Init => Promise!PInit
  <2> SUFFICES ASSUME Init PROVE Promise!PInit
    OBVIOUS
  <2>1. \A t \in Tx : row[t].state = "absent"
    BY DEF Init, NoRow
  <2>2. \A s \in Session : sess[s].paymentStatus = "unpaid"
    BY DEF Init, NoSession
  <2>3. parked = {}
    BY DEF Init
  <2> QED
    BY <2>1, <2>2, <2>3 DEF Promise!PInit, OutcomeOf
<1>2. IInv /\ [Next]_vars => [Promise!PNext]_(Promise!pvars)
  BY NextRefines
<1> QED
  BY <1>1, <1>2, Invariance, PTL DEF Spec, KeepsPromise, Promise!PSpec

-----------------------------------------------------------------------------
(* What holds however often session_for runs for one transaction: CoreInv, *)
(* and what follows from it.                                               *)

\* Before the first checkout no row holds a session and no request is at work.
LEMMA InitCoreInv == Init => CoreInv
<1> SUFFICES ASSUME Init PROVE CoreInv
  OBVIOUS
<1>1. TypeOK
  BY InitTypeOK
<1>2. \A t \in Tx : row[t] = NoRow
  BY DEF Init
<1>3. \A t \in Tx : row[t].state # "done"
  BY <1>2 DEF NoRow
<1>4. \A t \in Tx, s \in Session : ~Holds(t, s)
  BY <1>2, ConstantsAssumption DEF Holds, NoRow, InSeq
<1>5. SessionsSound
  BY DEF Init, SessionsSound, NoSession
<1>6. TruthInv /\ ParkedIsPaid
  BY DEF Init, TruthInv, ParkedIsPaid
<1>7. \A w \in Worker : CoreJobInv(w)
  BY DEF Init, Idle, CoreJobInv, CheckingOut, Applying
<1> QED
  BY <1>1, <1>2, <1>3, <1>4, <1>5, <1>6, <1>7 DEF CoreInv, CoreStoreInv, SettledByOwnSession

\* Sessions only ever grow: what the rows and the requests know of them stays true.
LEMMA CoreGrows ==
    ASSUME CoreInv, SessionsGrow, TruthInv', UNCHANGED <<row, parked>>
    PROVE  /\ CoreStoreInv'
           /\ \A v \in Worker : job'[v] = job[v] => CoreJobInv(v)'
<1>1. /\ row \in [Tx -> Row] /\ parked \in SUBSET (Tx \X Session) /\ job \in [Worker -> Job]
  BY DEF CoreInv, TypeOK
<1>2. \A s \in Session : sess[s].owner # None \/ sess[s].paymentStatus = "paid"
                            => sess[s].status # "none"
  BY DEF CoreInv, CoreStoreInv, SessionsSound
<1>3. \A s \in Session, t \in Tx : sess[s].owner = t => sess'[s].owner = t
  BY <1>2, ConstantsAssumption DEF SessionsGrow
<1>4. \A s \in Session : sess[s].paymentStatus = "paid" => sess'[s].paymentStatus = "paid"
  BY <1>2 DEF SessionsGrow
<1>5. CoreStoreInv'
  <2>1. SessionsSound'
    BY DEF SessionsGrow, SessionsSound
  <2>2. \A t \in Tx : row'[t].state = "absent" => row'[t] = NoRow
    BY DEF CoreInv, CoreStoreInv
  <2>3. \A t \in Tx, s \in Session : Holds(t, s)' => sess'[s].owner = t
    BY <1>3 DEF CoreInv, CoreStoreInv, Holds
  <2>4. SettledByOwnSession'
    <3> SUFFICES ASSUME NEW t \in Tx, row[t].state = "done"
                 PROVE  /\ row[t].intent # None /\ row[t].charge = row[t].intent
                        /\ sess'[row[t].intent].owner = t
                        /\ sess'[row[t].intent].paymentStatus = "paid"
      BY DEF SettledByOwnSession
    <3>1. /\ row[t].intent # None /\ row[t].charge = row[t].intent
          /\ sess[row[t].intent].owner = t /\ sess[row[t].intent].paymentStatus = "paid"
      BY DEF CoreInv, CoreStoreInv, SettledByOwnSession
    <3>2. row[t].intent \in Session
      BY <1>1, <3>1 DEF Row
    <3> QED
      BY <1>3, <1>4, <3>1, <3>2
  <2>5. ParkedIsPaid'
    BY <1>1, <1>4 DEF CoreInv, CoreStoreInv, ParkedIsPaid
  <2> QED
    BY <2>1, <2>2, <2>3, <2>4, <2>5 DEF CoreStoreInv
<1>6. ASSUME NEW v \in Worker, job'[v] = job[v]
      PROVE  CoreJobInv(v)'
  <2>1. CoreJobInv(v)
    BY DEF CoreInv
  <2>2. CASE CheckingOut(v)
    <3>1. job[v].tx \in Tx /\ job[v].seen \in [Tx -> SeenRow \cup {None}]
      BY <1>1, <2>2, JobFacts
    <3>2. ASSUME NEW u \in Tx, job[v].seen[u] # None
          PROVE  /\ row'[u].state # "absent"
                 /\ sess'[job[v].seen[u].xpay_session_id].owner = u
                 /\ \A s \in Session : InSeq(s, job[v].seen[u].superseded) => sess'[s].owner = u
      <4>1. job[v].seen[u].xpay_session_id \in Session
        BY <3>1, <3>2 DEF SeenRow
      <4> QED
        BY <1>3, <2>1, <2>2, <3>2, <4>1 DEF CoreJobInv
    <3>3. job[v].step = "storing" => sess'[job[v].session].owner = job[v].tx
      BY <1>1, <1>3, <2>1, <3>1, JobFacts DEF CoreJobInv
    <3> QED
      BY <1>6, <2>1, <2>2, <3>2, <3>3 DEF CoreJobInv, CheckingOut, Applying
  <2>3. CASE Applying(v)
    <3>1. job[v].data.session.id \in Session
      BY <1>1, <2>3, JobFacts DEF PaymentData, SessionPayload
    <3> QED
      BY <1>4, <1>6, <2>1, <2>3, <3>1 DEF CoreJobInv, CheckingOut, Applying, SessionsGrow
  <2>4. CASE job[v].step = "reading"
    <3>1. job[v].tx \in Tx /\ job[v].session \in Session
      BY <1>1, <2>4, JobFacts
    <3> QED
      BY <1>3, <1>6, <2>1, <2>4, <3>1 DEF CoreJobInv, CheckingOut, Applying
  <2>5. CASE job[v].step = "idle"
    BY <1>6, <2>5 DEF CoreJobInv, CheckingOut, Applying
  <2> QED
    BY <1>1, <2>2, <2>3, <2>4, <2>5, JobFacts DEF CheckingOut, Applying
<1> QED
  BY <1>5, <1>6

\* So it does when nothing moves but the rows, none of which disappears.
LEMMA CoreJobKept ==
    ASSUME CoreInv, UNCHANGED <<sess, sent>>, NEW v \in Worker, job'[v] = job[v],
           \A t \in Tx : row[t].state # "absent" => row'[t].state # "absent"
    PROVE  CoreJobInv(v)'
<1>1. job \in [Worker -> Job] /\ CoreJobInv(v)
  BY DEF CoreInv, TypeOK
<1>2. CASE CheckingOut(v)
  BY <1>1, <1>2 DEF CoreJobInv, CheckingOut, Applying
<1>3. CASE Applying(v)
  <2>1. job[v].tx \in Tx
    BY <1>1, <1>3, JobFacts
  <2> QED
    BY <1>1, <1>3, <2>1 DEF CoreJobInv, CheckingOut, Applying
<1>4. CASE job[v].step = "reading"
  <2>1. job[v].tx \in Tx
    BY <1>1, <1>4, JobFacts
  <2> QED
    BY <1>1, <1>4, <2>1 DEF CoreJobInv, CheckingOut, Applying
<1>5. CASE job[v].step = "idle"
  BY <1>5 DEF CoreJobInv, CheckingOut, Applying
<1> QED
  BY <1>1, <1>2, <1>3, <1>4, <1>5, JobFacts DEF CheckingOut, Applying

\* A step that moves one request on, and nothing else but the locks.
LEMMA CoreJobStep ==
    ASSUME CoreInv, NEW w \in Worker, NEW j \in Job,
           job' = [job EXCEPT ![w] = j],
           UNCHANGED <<row, parked, sess, handed, sent, acked>>,
           lock' \in [Tx -> Worker \cup {None}],
           CoreJobInv(w)'
    PROVE  CoreInv'
<1>1. job \in [Worker -> Job]
  BY DEF CoreInv, TypeOK
<1>2. job' \in [Worker -> Job] /\ \A v \in Worker \ {w} : job'[v] = job[v]
  BY <1>1
<1>3. TypeOK'
  BY <1>2 DEF CoreInv, TypeOK
<1>4. CoreStoreInv'
  BY DEF CoreInv, CoreStoreInv, SessionsSound, TruthInv, SettledByOwnSession, ParkedIsPaid, Holds
<1>5. \A v \in Worker \ {w} : CoreJobInv(v)'
  BY <1>2, CoreJobKept
<1> QED
  BY <1>3, <1>4, <1>5 DEF CoreInv

\* A request that gives up leaves nothing behind.
LEMMA CoreIdleStep ==
    ASSUME CoreInv, NEW w \in Worker, job' = [job EXCEPT ![w] = Idle],
           UNCHANGED <<row, parked, sess, handed, sent, acked>>,
           lock' \in [Tx -> Worker \cup {None}]
    PROVE  CoreInv'
<1>1. Idle \in Job
  BY DEF Idle, Job
<1>2. job'[w] = Idle
  BY DEF CoreInv, TypeOK
<1>3. CoreJobInv(w)'
  BY <1>2 DEF CoreJobInv, CheckingOut, Applying, Idle
<1> QED
  BY <1>1, <1>3, CoreJobStep

\* The search for siblings reads what their rows hold.
LEMMA CoreCheckoutStart ==
    ASSUME CoreInv, NEW w \in Worker, NEW t \in Tx, CheckoutStart(w, t)
    PROVE  CoreInv'
<1> DEFINE seen == [u \in Tx |-> IF u \in OpenSiblings(t)
                                 THEN [xpay_session_id |-> row[u].xpay_session_id,
                                       superseded |-> row[u].superseded]
                                 ELSE None]
           j == [step |-> "sweeping", tx |-> t, todo |-> OpenSiblings(t), seen |-> seen]
<1>1. /\ job' = [job EXCEPT ![w] = j]
      /\ UNCHANGED <<row, lock, parked, sess, handed, sent, acked>>
  BY DEF CheckoutStart
<1>2. /\ row \in [Tx -> Row]
      /\ job \in [Worker -> Job]
      /\ lock \in [Tx -> Worker \cup {None}]
  BY DEF CoreInv, TypeOK
<1>3. OpenSiblings(t) \subseteq Tx
  BY ConstantsAssumption DEF OpenSiblings
<1>4. \A u \in OpenSiblings(t) : /\ row[u].xpay_session_id \in Session
                                 /\ row[u].superseded \in Seq(Session)
                                 /\ row[u].state # "absent"
  BY <1>2, <1>3 DEF OpenSiblings, Row
<1>5. seen \in [Tx -> SeenRow \cup {None}]
  BY <1>3, <1>4 DEF SeenRow
<1>6. \A u \in Tx : seen[u] # None =>
        /\ u \in OpenSiblings(t)
        /\ seen[u].xpay_session_id = row[u].xpay_session_id
        /\ seen[u].superseded = row[u].superseded
  OBVIOUS
<1>7. \A u \in OpenSiblings(t) : seen[u] # None
  BY <1>3, <1>4, NoneIsNoSeenRow DEF SeenRow
<1> HIDE DEF seen
<1>8. j \in Job
  BY <1>3, <1>5 DEF Job
<1>9. job'[w] = j
  BY <1>1, <1>2
<1>10. ASSUME NEW u \in Tx, seen[u] # None
       PROVE  /\ row[u].state # "absent"
              /\ sess[seen[u].xpay_session_id].owner = u
              /\ \A s \in Session : InSeq(s, seen[u].superseded) => sess[s].owner = u
  BY <1>4, <1>6, <1>10 DEF CoreInv, CoreStoreInv, Holds
<1>11. CoreJobInv(w)'
  BY <1>1, <1>7, <1>9, <1>10 DEF CoreJobInv, CheckingOut, Applying
<1> HIDE DEF j
<1> QED
  BY <1>1, <1>2, <1>8, <1>11, CoreJobStep

\* A delivery finds a transaction through a session that it holds.
LEMMA CoreWebhookFind ==
    ASSUME CoreInv, NEW w \in Worker, NEW e \in sent, NEW t \in Tx, WebhookFind(w, e, t)
    PROVE  CoreInv'
<1> DEFINE data == [event_id |-> e, event_type |-> e.type, session |-> e.session]
           j == [step |-> "found", tx |-> t, data |-> data]
<1>1. /\ job' = [job EXCEPT ![w] = j]
      /\ UNCHANGED <<row, lock, parked, sess, handed, sent, acked>>
      /\ t \in IF e.type = PAYMENT_FAILED THEN SearchDeclined(e.session.id)
               ELSE SearchBySession(e.session.id)
  BY DEF WebhookFind
<1>2. /\ job \in [Worker -> Job]
      /\ lock \in [Tx -> Worker \cup {None}]
      /\ e \in Event
  BY DEF CoreInv, TypeOK
<1>3. data \in PaymentData /\ e.session.id \in Session
  BY <1>2 DEF Event, PaymentData, SessionPayload
<1>4. j \in Job
  BY <1>3 DEF Job
<1>5. row[t].state # "absent"
  <2>1. Holds(t, e.session.id)
    BY <1>1 DEF SearchDeclined, SearchBySession, Holds
  <2> QED
    BY <1>3, <2>1, ConstantsAssumption DEF CoreInv, CoreStoreInv, Holds, NoRow, InSeq
<1>6. job'[w] = j
  BY <1>1, <1>2
<1>7. e.session.paymentStatus = "paid" => sess[e.session.id].paymentStatus = "paid"
  BY DEF CoreInv, CoreStoreInv, TruthInv
<1>8. CoreJobInv(w)'
  BY <1>1, <1>5, <1>6, <1>7 DEF CoreJobInv, CheckingOut, Applying
<1> HIDE DEF j
<1> QED
  BY <1>1, <1>2, <1>4, <1>8, CoreJobStep

\* The return route asks for the session the row holds.
LEMMA CoreReturnFind ==
    ASSUME CoreInv, NEW w \in Worker, NEW t \in Tx, ReturnFind(w, t)
    PROVE  CoreInv'
<1> DEFINE j == [step |-> "reading", tx |-> t, session |-> row[t].xpay_session_id]
<1>1. /\ job' = [job EXCEPT ![w] = j]
      /\ UNCHANGED <<row, lock, parked, sess, handed, sent, acked>>
      /\ row[t].xpay_session_id # Unset
      /\ row[t].state # "absent"
  BY DEF ReturnFind
<1>2. /\ row[t] \in Row
      /\ job \in [Worker -> Job]
      /\ lock \in [Tx -> Worker \cup {None}]
  BY DEF CoreInv, TypeOK
<1>3. j \in Job /\ row[t].xpay_session_id \in Session
  BY <1>1, <1>2 DEF Job, Row
<1>4. job'[w] = j
  BY <1>1, <1>2
<1>5. sess[row[t].xpay_session_id].owner = t
  BY <1>3 DEF CoreInv, CoreStoreInv, Holds
<1>6. CoreJobInv(w)'
  BY <1>1, <1>4, <1>5 DEF CoreJobInv, CheckingOut, Applying
<1> HIDE DEF j
<1> QED
  BY <1>1, <1>2, <1>3, <1>6, CoreJobStep

\* What the platform answers about the session is true of it.
LEMMA CoreReturnRead ==
    ASSUME CoreInv, NEW w \in Worker, ReturnRead(w)
    PROVE  CoreInv'
<1> DEFINE s == job[w].session
           data == [event_id |-> None, event_type |-> None, session |-> Payload(s, sess[s])]
           j == [step |-> "found", tx |-> job[w].tx, data |-> data]
<1>1. /\ job' = [job EXCEPT ![w] = j]
      /\ UNCHANGED <<row, lock, parked, sess, handed, sent, acked>>
      /\ job[w].step = "reading"
  BY DEF ReturnRead
<1>2. /\ job \in [Worker -> Job]
      /\ lock \in [Tx -> Worker \cup {None}]
      /\ sess \in [Session -> PlatformSession]
  BY DEF CoreInv, TypeOK
<1>3. job[w].tx \in Tx /\ s \in Session
  BY <1>1, <1>2, JobFacts
<1>4. row[job[w].tx].state # "absent" /\ sess[s].status # "none"
  <2>1. row[job[w].tx].state # "absent" /\ sess[s].owner = job[w].tx
    BY <1>1 DEF CoreInv, CoreJobInv
  <2> QED
    BY <1>3, <2>1, ConstantsAssumption DEF CoreInv, CoreStoreInv, SessionsSound
<1>5. data \in PaymentData
  BY <1>2, <1>3, <1>4 DEF PaymentData, SessionPayload, PlatformSession, Payload
<1>6. j \in Job
  BY <1>3, <1>5 DEF Job
<1>7. job'[w] = j
  BY <1>1, <1>2
<1>8. CoreJobInv(w)'
  BY <1>1, <1>4, <1>7 DEF CoreJobInv, CheckingOut, Applying, Payload
<1> HIDE DEF j
<1> QED
  BY <1>1, <1>2, <1>6, <1>8, CoreJobStep

\* The lock changes nothing of what the request read.
LEMMA CoreLock ==
    ASSUME CoreInv, NEW w \in Worker, Lock(w)
    PROVE  CoreInv'
<1> DEFINE j == [job[w] EXCEPT !.step = "locked"]
<1>1. /\ job' = [job EXCEPT ![w] = j]
      /\ lock' = [lock EXCEPT ![job[w].tx] = w]
      /\ UNCHANGED <<row, parked, sess, handed, sent, acked>>
      /\ job[w].step = "found"
  BY DEF Lock
<1>2. /\ job \in [Worker -> Job]
      /\ lock \in [Tx -> Worker \cup {None}]
  BY DEF CoreInv, TypeOK
<1>3. job[w] \in [step : {"found", "locked"}, tx : Tx, data : PaymentData]
  BY <1>1, <1>2 DEF Job
<1>4. /\ j \in [step : {"found", "locked"}, tx : Tx, data : PaymentData]
      /\ j.step = "locked" /\ j.tx = job[w].tx /\ j.data = job[w].data
  BY <1>3
<1>5. j \in Job
  BY <1>4 DEF Job
<1>6. lock' \in [Tx -> Worker \cup {None}]
  BY <1>1, <1>2
<1>7. job'[w] = j
  BY <1>1, <1>2
<1> HIDE DEF j
<1>8. CoreJobInv(w)'
  BY <1>1, <1>4, <1>7 DEF CoreInv, CoreJobInv, CheckingOut, Applying
<1> QED
  BY <1>1, <1>5, <1>6, <1>8, CoreJobStep

\* A round of the sweep: the platform's step, and the request's own.
LEMMA CoreSweep ==
    ASSUME CoreInv, NEW w \in Worker, NEW u \in Tx, SweepSibling(w, u)
    PROVE  CoreInv'
<1> DEFINE j == [job[w] EXCEPT !.todo = @ \ {u}]
<1>1. /\ job[w].step = "sweeping"
      /\ u \in job[w].todo
      /\ job' = [job EXCEPT ![w] = j]
      /\ PlatformExpire(job[w].seen[u].xpay_session_id) \/ UNCHANGED platform
      /\ UNCHANGED <<row, lock, parked, handed, acked>>
  BY DEF SweepSibling
<1>2. job \in [Worker -> Job]
  BY DEF CoreInv, TypeOK
<1>3. job[w] \in [step : {"sweeping"}, tx : Tx, seen : [Tx -> SeenRow \cup {None}], todo : SUBSET Tx]
  BY <1>1, <1>2 DEF Job
<1>4. /\ j \in [step : {"sweeping"}, tx : Tx, seen : [Tx -> SeenRow \cup {None}], todo : SUBSET Tx]
      /\ j.step = "sweeping" /\ j.tx = job[w].tx /\ j.seen = job[w].seen
      /\ j.todo \subseteq job[w].todo
  BY <1>3
<1>5. /\ job' \in [Worker -> Job]
      /\ job'[w] = j
      /\ \A v \in Worker \ {w} : job'[v] = job[v]
  BY <1>1, <1>2, <1>4 DEF Job
<1> HIDE DEF j
<1>6. SessionsGrow /\ TruthInv'
  <2>1. job[w].seen[u] \in SeenRow \cup {None}
    BY <1>3
  <2>2. job[w].seen[u] # None
    BY <1>1 DEF CoreInv, CoreJobInv
  <2>3. job[w].seen[u].xpay_session_id \in Session
    BY <2>1, <2>2 DEF SeenRow
  <2> QED
    BY <1>1, <2>3, SweepGrows DEF CoreInv, CoreStoreInv
<1>7. TypeOK'
  BY <1>1, <1>5, <1>6 DEF CoreInv, TypeOK, SessionsGrow
<1>8. CoreStoreInv' /\ \A v \in Worker \ {w} : CoreJobInv(v)'
  BY <1>1, <1>5, <1>6, CoreGrows
<1>9. CoreJobInv(w)'
  <2>1. ASSUME NEW x \in Tx, job[w].seen[x] # None
        PROVE  /\ row'[x].state # "absent"
               /\ sess'[job[w].seen[x].xpay_session_id].owner = x
               /\ \A s \in Session : InSeq(s, job[w].seen[x].superseded) => sess'[s].owner = x
    <3>1. job[w].seen[x].xpay_session_id \in Session
      BY <1>3, <2>1 DEF SeenRow
    <3>2. /\ row[x].state # "absent"
          /\ sess[job[w].seen[x].xpay_session_id].owner = x
          /\ \A s \in Session : InSeq(s, job[w].seen[x].superseded) => sess[s].owner = x
      BY <1>1, <2>1 DEF CoreInv, CoreJobInv, CheckingOut
    <3>3. \A s \in Session : sess[s].owner = x => sess'[s].owner = x
      BY <1>6, ConstantsAssumption DEF SessionsGrow, CoreInv, CoreStoreInv, SessionsSound
    <3> QED
      BY <1>1, <3>1, <3>2, <3>3
  <2>2. \A x \in j.todo : j.seen[x] # None
    BY <1>1, <1>4 DEF CoreInv, CoreJobInv
  <2> QED
    BY <1>4, <1>5, <2>1, <2>2 DEF CoreJobInv, CheckingOut, Applying
<1> QED
  BY <1>7, <1>8, <1>9 DEF CoreInv

\* The session the checkout is given was opened for its transaction.
LEMMA CoreCreateSession ==
    ASSUME CoreInv, NEW w \in Worker, NEW s \in Session, NEW amount \in Amounts,
           CreateSession(w, s, amount)
    PROVE  CoreInv'
<1> DEFINE t == job[w].tx
           j == [step |-> "storing", tx |-> t, seen |-> job[w].seen, session |-> s]
<1>1. /\ job[w].step = "sweeping"
      /\ job' = [job EXCEPT ![w] = j]
      /\ UNCHANGED <<row, lock, parked, handed, sent, acked>>
  BY DEF CreateSession
<1>2. job \in [Worker -> Job]
  BY DEF CoreInv, TypeOK
<1>3. CheckingOut(w) /\ t \in Tx /\ job[w].seen \in [Tx -> SeenRow \cup {None}]
  BY <1>1, <1>2, JobFacts DEF CheckingOut
<1>4. j \in Job /\ j.step = "storing" /\ j.tx = t /\ j.seen = job[w].seen /\ j.session = s
  BY <1>3 DEF Job
<1>5. /\ job' \in [Worker -> Job]
      /\ job'[w] = j
      /\ \A v \in Worker \ {w} : job'[v] = job[v]
  BY <1>1, <1>2, <1>4
<1> HIDE DEF j
<1>6. SessionsGrow /\ TruthInv' /\ sess'[s].owner = t
  <2>1. \/ /\ sess[s].status = "none"
           /\ sess' = [sess EXCEPT ![s] = [NoSession EXCEPT !.status = "open", !.owner = t,
                                                            !.amount = amount]]
        \/ sess[s].owner = t /\ UNCHANGED sess
    BY DEF CreateSession
  <2> QED
    BY <1>1, <1>3, <2>1, CreateGrows DEF CoreInv, CoreStoreInv
<1>7. TypeOK'
  BY <1>1, <1>5, <1>6 DEF CoreInv, TypeOK, SessionsGrow
<1>8. CoreStoreInv' /\ \A v \in Worker \ {w} : CoreJobInv(v)'
  BY <1>1, <1>5, <1>6, CoreGrows
<1>9. CoreJobInv(w)'
  <2>1. ASSUME NEW x \in Tx, job[w].seen[x] # None
        PROVE  /\ row'[x].state # "absent"
               /\ sess'[job[w].seen[x].xpay_session_id].owner = x
               /\ \A z \in Session : InSeq(z, job[w].seen[x].superseded) => sess'[z].owner = x
    <3>1. job[w].seen[x].xpay_session_id \in Session
      BY <1>3, <2>1 DEF SeenRow
    <3>2. /\ row[x].state # "absent"
          /\ sess[job[w].seen[x].xpay_session_id].owner = x
          /\ \A z \in Session : InSeq(z, job[w].seen[x].superseded) => sess[z].owner = x
      BY <1>3, <2>1 DEF CoreInv, CoreJobInv
    <3>3. \A z \in Session : sess[z].owner = x => sess'[z].owner = x
      BY <1>6, ConstantsAssumption DEF SessionsGrow, CoreInv, CoreStoreInv, SessionsSound
    <3> QED
      BY <1>1, <3>1, <3>2, <3>3
  <2> QED
    BY <1>4, <1>5, <1>6, <2>1 DEF CoreJobInv, CheckingOut, Applying
<1> QED
  BY <1>7, <1>8, <1>9 DEF CoreInv

\* A checkout's commit: a row's own session joins it, a sibling's moves to the
\* ledger, and what a transaction has come to stays.
LEMMA CoreCommit ==
    ASSUME CoreInv, NEW w \in Worker, CheckoutCommit(w)
    PROVE  /\ CoreInv'
           /\ \A t \in Tx : Carried(t)
           /\ UNCHANGED <<parked, sess>>
<1>1. job[w].step = "storing" /\ job \in [Worker -> Job] /\ CheckingOut(w)
  BY DEF CheckoutCommit, CheckingOut, CoreInv, TypeOK
<1>2. PICK t \in Tx, s \in Session, seen \in [Tx -> SeenRow \cup {None}] :
        job[w].tx = t /\ job[w].session = s /\ job[w].seen = seen
  BY <1>1, JobFacts
<1> DEFINE fresh == [row[t] EXCEPT !.xpay_session_id = s,
                                   !.state = IF @ = "absent" THEN "draft" ELSE @]
<1>3. /\ row' = [u \in Tx |-> IF u = t THEN fresh
                              ELSE IF seen[u] # None THEN Supersede(row[u], seen[u])
                              ELSE row[u]]
      /\ handed' = handed \cup {s}
      /\ job' = [job EXCEPT ![w] = Idle]
      /\ UNCHANGED <<lock, parked, sess, sent, acked>>
  BY <1>2 DEF CheckoutCommit
<1>4. /\ row \in [Tx -> Row]
      /\ \A u \in Tx : /\ Len(row[u].processed) <= ProcessedCap
                       /\ Len(row[u].superseded) <= SupersededCap
      /\ handed \in SUBSET Session
  BY DEF CoreInv, TypeOK
<1>5. /\ job' \in [Worker -> Job]
      /\ job'[w] = Idle
      /\ \A v \in Worker \ {w} : job'[v] = job[v]
  BY <1>1, <1>3 DEF Idle, Job
<1>6. sess[s].owner = t
  BY <1>1, <1>2 DEF CoreInv, CoreJobInv
<1>7. /\ row'[t] \in Row
      /\ row'[t].state # "absent"
      /\ row'[t].xpay_session_id = s
      /\ row'[t].superseded = row[t].superseded /\ row'[t].processed = row[t].processed
      /\ Carried(t)
  <2>1. row'[t] = fresh /\ row[t] \in Row
    BY <1>3, <1>4
  <2> QED
    BY <2>1 DEF Row, Carried
<1> HIDE DEF fresh
<1>8. ASSUME NEW u \in Tx, u # t
      PROVE  /\ row'[u] \in Row
             /\ Len(row'[u].processed) <= ProcessedCap
             /\ Len(row'[u].superseded) <= SupersededCap
             /\ row'[u].state = row[u].state
             /\ Carried(u)
             /\ row[u].state = "absent" => row'[u] = row[u]
             /\ \A x \in Session : Holds(u, x)' => sess[x].owner = u
  <2>1. row[u] \in Row /\ \A x \in Session : Holds(u, x) => sess[x].owner = u
    BY <1>4 DEF CoreInv, CoreStoreInv
  <2>2. CASE seen[u] = None
    <3>1. row'[u] = row[u]
      BY <1>3, <1>8, <2>2
    <3> QED
      BY <1>4, <2>1, <3>1 DEF Holds, Carried
  <2>3. CASE seen[u] # None
    <3>1. PICK sn \in SeenRow : sn = seen[u]
      BY <2>3
    <3>2. row'[u] = Supersede(row[u], sn)
      BY <1>3, <1>8, <2>3, <3>1
    <3>3. /\ row[u].state # "absent"
          /\ sess[sn.xpay_session_id].owner = u
          /\ \A x \in Session : InSeq(x, sn.superseded) => sess[x].owner = u
      BY <1>1, <1>2, <2>3, <3>1 DEF CoreInv, CoreJobInv
    <3>4. \A f \in {"state", "intent", "charge", "processed"} : row'[u][f] = row[u][f]
      BY <2>1, <3>2, SupersedeFacts
    <3>5. /\ row'[u].state = row[u].state /\ row'[u].intent = row[u].intent
          /\ row'[u].charge = row[u].charge /\ row'[u].processed = row[u].processed
      BY <3>4
    <3>6. /\ row'[u] \in Row
          /\ Len(row'[u].superseded) <= SupersededCap
          /\ row'[u].xpay_session_id = Unset
          /\ \A x : InSeq(x, row'[u].superseded)
                      => InSeq(x, sn.superseded) \/ x = sn.xpay_session_id
      <4> DEFINE m == Supersede(row[u], sn)
      <4>1. /\ m \in Row
            /\ Len(m.superseded) <= SupersededCap
            /\ m.xpay_session_id = Unset
            /\ \A x : InSeq(x, m.superseded)
                        => InSeq(x, sn.superseded) \/ x = sn.xpay_session_id
        BY <2>1, SupersedeFacts
      <4> HIDE DEF m
      <4>2. row'[u] = m
        BY <3>2 DEF m
      <4> QED
        BY <4>1, <4>2
    <3>7. ASSUME NEW x \in Session, Holds(u, x)'
          PROVE  sess[x].owner = u
      <4>1. InSeq(x, row'[u].superseded)
        BY <3>6, <3>7, ConstantsAssumption DEF Holds
      <4> QED
        BY <3>3, <3>6, <4>1
    <3> QED
      BY <1>4, <3>3, <3>5, <3>6, <3>7 DEF Carried
  <2> QED
    BY <2>2, <2>3
<1>9. TypeOK'
  <2>1. row' \in [Tx -> Row]
    <3>1. row' = [u \in Tx |-> row'[u]]
      BY <1>3
    <3>2. \A u \in Tx : row'[u] \in Row
      BY <1>7, <1>8
    <3> QED
      BY <3>1, <3>2
  <2>2. \A u \in Tx : /\ Len(row'[u].processed) <= ProcessedCap
                      /\ Len(row'[u].superseded) <= SupersededCap
    BY <1>4, <1>7, <1>8
  <2> QED
    BY <1>2, <1>3, <1>4, <1>5, <2>1, <2>2 DEF CoreInv, TypeOK
<1>10. \A u \in Tx : Carried(u)
  BY <1>7, <1>8
<1>11. CoreStoreInv'
  <2>1. SessionsSound' /\ TruthInv' /\ ParkedIsPaid'
    BY <1>3 DEF CoreInv, CoreStoreInv, SessionsSound, TruthInv, ParkedIsPaid
  <2>2. \A u \in Tx : row'[u].state = "absent" => row'[u] = NoRow
    BY <1>7, <1>8 DEF CoreInv, CoreStoreInv
  <2>3. ASSUME NEW x \in Session, Holds(t, x)'
        PROVE  sess[x].owner = t
    <3>1. x = s \/ Holds(t, x)
      BY <1>7, <2>3 DEF Holds
    <3> QED
      BY <1>6, <3>1 DEF CoreInv, CoreStoreInv
  <2>4. \A u \in Tx, x \in Session : Holds(u, x)' => sess'[x].owner = u
    BY <1>3, <1>8, <2>3
  <2>5. SettledByOwnSession'
    BY <1>3, <1>10 DEF CoreInv, CoreStoreInv, SettledByOwnSession, Carried
  <2> QED
    BY <2>1, <2>2, <2>4, <2>5 DEF CoreStoreInv
<1>12. \A v \in Worker : CoreJobInv(v)'
  <2>1. CoreJobInv(w)'
    BY <1>5 DEF CoreJobInv, CheckingOut, Applying, Idle
  <2>2. \A u \in Tx : row[u].state # "absent" => row'[u].state # "absent"
    BY <1>7, <1>8
  <2>3. \A v \in Worker \ {w} : CoreJobInv(v)'
    BY <1>3, <1>5, <2>2, CoreJobKept
  <2> QED
    BY <2>1, <2>3
<1> QED
  BY <1>3, <1>9, <1>10, <1>11, <1>12 DEF CoreInv

\* The row a request had locked is written, and the request ends.
LEMMA CoreFinish ==
    ASSUME CoreInv, NEW w \in Worker, NEW t \in Tx, NEW data \in PaymentData, NEW n \in Row,
           job[w].step = "locked", job[w].tx = t, job[w].data = data,
           Finish(w),
           row' = [row EXCEPT ![t] = n],
           parked' \in SUBSET (Tx \X Session), ParkedIsPaid',
           Len(n.processed) <= ProcessedCap,
           n.xpay_session_id = row[t].xpay_session_id,
           n.superseded = row[t].superseded,
           n.state # "absent",
           n.state = "done" => /\ n.intent # None /\ n.charge = n.intent
                               /\ sess[n.intent].owner = t
                               /\ sess[n.intent].paymentStatus = "paid"
    PROVE  CoreInv'
<1>1. /\ row \in [Tx -> Row] /\ job \in [Worker -> Job]
      /\ \A u \in Tx : /\ Len(row[u].processed) <= ProcessedCap
                       /\ Len(row[u].superseded) <= SupersededCap
      /\ lock \in [Tx -> Worker \cup {None}]
  BY DEF CoreInv, TypeOK
<1>2. /\ row' \in [Tx -> Row]
      /\ row'[t] = n
      /\ \A u \in Tx \ {t} : row'[u] = row[u]
  BY <1>1
<1>3. /\ job' \in [Worker -> Job]
      /\ job'[w] = Idle
      /\ \A v \in Worker \ {w} : job'[v] = job[v]
      /\ lock' \in [Tx -> Worker \cup {None}]
      /\ acked' = acked \cup ({data.event_id} \ {None})
      /\ UNCHANGED <<sess, handed, sent>>
  BY <1>1 DEF Finish, Idle, Job
<1>4. data.event_id # None => data.event_id \in sent
  BY DEF CoreInv, CoreJobInv, Applying
<1>5. TypeOK'
  BY <1>1, <1>2, <1>3, <1>4 DEF CoreInv, TypeOK
<1>6. CoreStoreInv'
  <2>1. SessionsSound' /\ TruthInv'
    BY <1>3 DEF CoreInv, CoreStoreInv, SessionsSound, TruthInv
  <2>2. \A u \in Tx : row'[u].state = "absent" => row'[u] = NoRow
    BY <1>2 DEF CoreInv, CoreStoreInv
  <2>3. \A u \in Tx, x \in Session : Holds(u, x)' => sess'[x].owner = u
    BY <1>2, <1>3 DEF CoreInv, CoreStoreInv, Holds
  <2>4. SettledByOwnSession'
    BY <1>2, <1>3 DEF CoreInv, CoreStoreInv, SettledByOwnSession
  <2> QED
    BY <2>1, <2>2, <2>3, <2>4 DEF CoreStoreInv
<1>7. \A v \in Worker : CoreJobInv(v)'
  <2>1. CoreJobInv(w)'
    BY <1>3 DEF CoreJobInv, CheckingOut, Applying, Idle
  <2>2. \A u \in Tx : row[u].state # "absent" => row'[u].state # "absent"
    BY <1>2
  <2> QED
    BY <1>3, <2>1, <2>2, CoreJobKept
<1> QED
  BY <1>5, <1>6, <1>7 DEF CoreInv

\* What a request knows of the row it has locked.
LEMMA CoreLockedFacts ==
    ASSUME CoreInv, NEW w \in Worker, NEW t \in Tx, NEW data \in PaymentData,
           job[w].step = "locked", job[w].tx = t, job[w].data = data
    PROVE  /\ data.session.id \in Session
           /\ data.session.paymentStatus = "paid" =>
                 sess[data.session.id].paymentStatus = "paid"
           /\ row[t] \in Row
           /\ row[t].state # "absent"
           /\ Len(row[t].processed) <= ProcessedCap
           /\ row[t].state = "done" =>
                 /\ row[t].intent # None /\ row[t].charge = row[t].intent
                 /\ sess[row[t].intent].owner = t
                 /\ sess[row[t].intent].paymentStatus = "paid"
           /\ row[t].xpay_session_id = data.session.id => sess[data.session.id].owner = t
           /\ parked \in SUBSET (Tx \X Session) /\ ParkedIsPaid
<1>1. data.session.id \in Session
  BY DEF PaymentData, SessionPayload
<1>2. /\ row[t].state # "absent"
      /\ data.session.paymentStatus = "paid" => sess[data.session.id].paymentStatus = "paid"
  BY DEF CoreInv, CoreJobInv, Applying
<1>3. row[t] \in Row /\ Len(row[t].processed) <= ProcessedCap /\ parked \in SUBSET (Tx \X Session)
  BY DEF CoreInv, TypeOK
<1>4. row[t].xpay_session_id = data.session.id => sess[data.session.id].owner = t
  BY <1>1 DEF CoreInv, CoreStoreInv, Holds
<1>5. row[t].state = "done" =>
         /\ row[t].intent # None /\ row[t].charge = row[t].intent
         /\ sess[row[t].intent].owner = t
         /\ sess[row[t].intent].paymentStatus = "paid"
  BY DEF CoreInv, CoreStoreInv, SettledByOwnSession
<1>6. ParkedIsPaid
  BY DEF CoreInv, CoreStoreInv
<1> QED
  BY <1>1, <1>2, <1>3, <1>4, <1>5, <1>6

\* A decline is a note.
LEMMA CoreNoteDeclined ==
    ASSUME CoreInv, NEW w \in Worker, NoteDeclined(w)
    PROVE  CoreInv' /\ \A t \in Tx : Carried(t)
<1>1. job \in [Worker -> Job] /\ job[w].step = "locked" /\ row \in [Tx -> Row]
  BY DEF CoreInv, TypeOK, NoteDeclined
<1>2. PICK t \in Tx, data \in PaymentData : job[w].tx = t /\ job[w].data = data
  BY <1>1, JobFacts DEF Applying
<1> DEFINE n == IF Replayed(row[t], data) THEN row[t] ELSE Remember(row[t], data.event_id)
<1>3. row' = [row EXCEPT ![t] = n]
  BY <1>1, <1>2 DEF NoteDeclined
<1>4. Finish(w) /\ UNCHANGED <<parked, sess>>
  BY DEF NoteDeclined, Finish
<1>5. /\ row[t] \in Row /\ row[t].state # "absent" /\ Len(row[t].processed) <= ProcessedCap
      /\ row[t].state = "done" =>
            /\ row[t].intent # None /\ row[t].charge = row[t].intent
            /\ sess[row[t].intent].owner = t
            /\ sess[row[t].intent].paymentStatus = "paid"
      /\ parked \in SUBSET (Tx \X Session) /\ ParkedIsPaid
  BY <1>1, <1>2, CoreLockedFacts
<1>6. /\ n \in Row /\ Len(n.processed) <= ProcessedCap
      /\ n.state = row[t].state /\ n.intent = row[t].intent /\ n.charge = row[t].charge
      /\ n.xpay_session_id = row[t].xpay_session_id /\ n.superseded = row[t].superseded
  <2>1. CASE Replayed(row[t], data)
    BY <1>5, <2>1
  <2>2. CASE ~Replayed(row[t], data)
    <3>1. n = Remember(row[t], data.event_id)
      BY <2>2
    <3> QED
      BY <1>5, <2>2, <3>1, RememberRowFacts
  <2> QED
    BY <2>1, <2>2
<1> HIDE DEF n
<1>7. \A u \in Tx : Carried(u)
  BY <1>1, <1>3, <1>6 DEF Carried
<1>8. ParkedIsPaid' /\ parked' \in SUBSET (Tx \X Session)
  BY <1>4, <1>5 DEF ParkedIsPaid
<1>9. /\ n.state # "absent"
      /\ n.state = "done" => /\ n.intent # None /\ n.charge = n.intent
                             /\ sess[n.intent].owner = t
                             /\ sess[n.intent].paymentStatus = "paid"
  BY <1>5, <1>6
<1> QED
  BY <1>1, <1>2, <1>3, <1>4, <1>6, <1>7, <1>8, <1>9, CoreFinish

\* What apply_locked may make of a row, however often its session was replaced.
Rewritten(r, n) ==
    /\ Closed(r.state) => n.state = r.state
    /\ r.state # "done" /\ n.state = "done" => n.intent = r.xpay_session_id
    /\ r.intent \notin {None, n.intent} => n.intent = r.xpay_session_id
    /\ r.state = "pending" => n.state # "cancel"

LEMMA CoreApplyLocked ==
    ASSUME CoreInv, NEW w \in Worker, ApplyLocked(w)
    PROVE  CoreInv' /\ \A t \in Tx : Carried(t) \/ Rewritten(row[t], row'[t])
<1>1. job \in [Worker -> Job] /\ job[w].step = "locked" /\ row \in [Tx -> Row]
  BY DEF CoreInv, TypeOK, ApplyLocked
<1>2. PICK t \in Tx, data \in PaymentData : job[w].tx = t /\ job[w].data = data
  BY <1>1, JobFacts DEF Applying
<1> DEFINE sid == data.session.id
           r == ValidateAmount(row[t], sid)
           action == SessionAction(r, data)
           applied == ApplyAction(r, action, data.session)
           n == Remember(applied, data.event_id)
<1>3. \/ row' = [row EXCEPT ![t] = r] /\ parked' = parked
      \/ /\ ~Replayed(r, data)
         /\ row' = [row EXCEPT ![t] = n]
         /\ parked' = parked \cup (IF Parks(action) THEN {<<t, sid>>} ELSE {})
  BY <1>2 DEF ApplyLocked
<1>4. /\ sid \in Session
      /\ data.session.paymentStatus = "paid" => sess[sid].paymentStatus = "paid"
      /\ row[t] \in Row /\ row[t].state # "absent"
      /\ Len(row[t].processed) <= ProcessedCap
      /\ row[t].state = "done" =>
            /\ row[t].intent # None /\ row[t].charge = row[t].intent
            /\ sess[row[t].intent].owner = t
            /\ sess[row[t].intent].paymentStatus = "paid"
      /\ row[t].xpay_session_id = sid => sess[sid].owner = t
      /\ parked \in SUBSET (Tx \X Session) /\ ParkedIsPaid
  BY <1>1, <1>2, CoreLockedFacts
<1>5. /\ r \in Row
      /\ r.state # "absent"
      /\ r.state = "done" <=> row[t].state = "done"
      /\ r.state \in {row[t].state, "error"}
      /\ Closed(row[t].state) => r.state = row[t].state
      /\ r.intent = row[t].intent /\ r.charge = row[t].charge /\ r.processed = row[t].processed
      /\ r.xpay_session_id = row[t].xpay_session_id /\ r.superseded = row[t].superseded
  BY <1>4, ValidateFacts
<1>6. Finish(w) /\ UNCHANGED sess
  BY DEF ApplyLocked, Finish
<1>7. CASE row' = [row EXCEPT ![t] = r] /\ parked' = parked
  <2> HIDE DEF r
  <2>1. /\ Len(r.processed) <= ProcessedCap
        /\ r.state = "done" => /\ r.intent # None /\ r.charge = r.intent
                               /\ sess[r.intent].owner = t
                               /\ sess[r.intent].paymentStatus = "paid"
        /\ parked' \in SUBSET (Tx \X Session) /\ ParkedIsPaid'
    BY <1>4, <1>5, <1>6, <1>7 DEF ParkedIsPaid
  <2>2. CoreInv'
    BY <1>1, <1>2, <1>5, <1>6, <1>7, <2>1, CoreFinish
  <2>3. Rewritten(row[t], r)
    BY <1>5 DEF Rewritten, Closed
  <2> QED
    BY <1>1, <1>7, <2>2, <2>3 DEF Carried
<1>8. CASE /\ ~Replayed(r, data)
           /\ row' = [row EXCEPT ![t] = n]
           /\ parked' = parked \cup (IF Parks(action) THEN {<<t, sid>>} ELSE {})
  <2>1. r.state = "done" => r.intent # None
    BY <1>4, <1>5
  <2>2. /\ applied \in Row
        /\ applied.state # "absent"
        /\ applied.processed = r.processed
        /\ applied.xpay_session_id = r.xpay_session_id /\ applied.superseded = r.superseded
        /\ applied.state = "done" =>
              \/ r.state = "done" /\ applied.intent = r.intent /\ applied.charge = r.charge
              \/ /\ applied.intent = sid /\ applied.charge = sid
                 /\ r.xpay_session_id = sid
                 /\ data.session.paymentStatus = "paid"
        /\ r.state # "done" /\ applied.state = "done" =>
              applied.intent = sid /\ r.xpay_session_id = sid
        /\ Closed(r.state) => applied.state = r.state
        /\ applied.intent # r.intent /\ r.intent # None => applied.intent = r.xpay_session_id
        /\ r.state = "pending" => applied.state # "cancel"
        /\ Parks(action) => data.session.paymentStatus = "paid"
    BY <1>5, <2>1, ApplyFacts
  <2> HIDE DEF r, action, applied
  <2>3. ~Replayed(applied, data) /\ Len(applied.processed) <= ProcessedCap
    BY <1>4, <1>5, <1>8, <2>2 DEF Replayed
  <2>4. /\ n \in Row /\ Len(n.processed) <= ProcessedCap
        /\ n.state = applied.state /\ n.intent = applied.intent /\ n.charge = applied.charge
        /\ n.xpay_session_id = r.xpay_session_id /\ n.superseded = r.superseded
    BY <2>2, <2>3, RememberRowFacts
  <2> HIDE DEF n
  <2>5. n.state = "done" => /\ n.intent # None /\ n.charge = n.intent
                            /\ sess[n.intent].owner = t
                            /\ sess[n.intent].paymentStatus = "paid"
    BY <1>4, <1>5, <2>2, <2>4, ConstantsAssumption
  <2>6. parked' \in SUBSET (Tx \X Session) /\ ParkedIsPaid'
    <3>1. CASE Parks(action)
      BY <1>4, <1>6, <1>8, <2>2, <3>1 DEF ParkedIsPaid
    <3>2. CASE ~Parks(action)
      BY <1>4, <1>6, <1>8, <3>2 DEF ParkedIsPaid
    <3> QED
      BY <3>1, <3>2
  <2>7. /\ n.xpay_session_id = row[t].xpay_session_id /\ n.superseded = row[t].superseded
        /\ n.state # "absent"
    BY <1>5, <2>2, <2>4
  <2>8. CoreInv'
    BY <1>1, <1>2, <1>6, <1>8, <2>4, <2>5, <2>6, <2>7, CoreFinish
  <2>9. Rewritten(row[t], n)
    <3>1. Closed(row[t].state) => n.state = row[t].state
      BY <1>5, <2>2, <2>4
    <3>2. row[t].state = "pending" => n.state # "cancel"
      BY <1>5, <2>2, <2>4 DEF Closed
    <3>3. row[t].state # "done" /\ n.state = "done" => n.intent = row[t].xpay_session_id
      BY <1>5, <2>2, <2>4
    <3>4. row[t].intent \notin {None, n.intent} => n.intent = row[t].xpay_session_id
      BY <1>5, <2>2, <2>4
    <3> QED
      BY <3>1, <3>2, <3>3, <3>4 DEF Rewritten
  <2> QED
    BY <1>1, <1>8, <2>8, <2>9 DEF Carried
<1> QED
  BY <1>3, <1>7, <1>8

\* A step of a request, any of them.
LEMMA CoreRequestStep ==
    ASSUME CoreInv, NEW w \in Worker, RequestStep(w)
    PROVE  CoreInv' /\ \A t \in Tx : Carried(t) \/ Rewritten(row[t], row'[t])
<1>1. CASE \E t \in Tx : CheckoutStart(w, t) \/ SweepSibling(w, t) \/ ReturnFind(w, t)
  <2>1. UNCHANGED row
    BY <1>1 DEF CheckoutStart, SweepSibling, ReturnFind
  <2> QED
    BY <1>1, <2>1, CoreCheckoutStart, CoreSweep, CoreReturnFind DEF Carried
<1>2. CASE \E s \in Session, amount \in Amounts : CreateSession(w, s, amount)
  <2>1. UNCHANGED row
    BY <1>2 DEF CreateSession
  <2> QED
    BY <1>2, <2>1, CoreCreateSession DEF Carried
<1>3. CASE \E e \in sent, t \in Tx : WebhookFind(w, e, t)
  <2>1. UNCHANGED row
    BY <1>3 DEF WebhookFind
  <2> QED
    BY <1>3, <2>1, CoreWebhookFind DEF Carried
<1>4. CASE CheckoutCommit(w)
  BY <1>4, CoreCommit
<1>5. CASE ReturnRead(w)
  BY <1>5, CoreReturnRead DEF ReturnRead, Carried
<1>6. CASE Lock(w)
  BY <1>6, CoreLock DEF Lock, Carried
<1>7. CASE LockBusy(w)
  <2>1. lock \in [Tx -> Worker \cup {None}]
    BY DEF CoreInv, TypeOK
  <2> QED
    BY <1>7, <2>1, CoreIdleStep DEF LockBusy, Carried
<1>8. CASE ApplyLocked(w)
  BY <1>8, CoreApplyLocked
<1>9. CASE NoteDeclined(w)
  BY <1>9, CoreNoteDeclined
<1>10. CASE Abort(w)
  <2>1. lock' \in [Tx -> Worker \cup {None}]
    BY <1>10 DEF Abort, CoreInv, TypeOK
  <2> QED
    BY <1>10, <2>1, CoreIdleStep DEF Abort, Carried
<1> QED
  BY <1>1, <1>2, <1>3, <1>4, <1>5, <1>6, <1>7, <1>8, <1>9, <1>10 DEF RequestStep

\* A step leaves every transaction as it was, or makes of it what apply_locked may.
LEMMA CoreNext ==
    ASSUME CoreInv, [Next]_vars
    PROVE  CoreInv' /\ \A t \in Tx : Carried(t) \/ Rewritten(row[t], row'[t])
<1>1. CASE \E w \in Worker : RequestStep(w)
  BY <1>1, CoreRequestStep
<1>2. CASE \E s \in Session : PlatformStep(s)
  <2>1. PICK s \in Session : PlatformStep(s)
    BY <1>2
  <2>2. SessionsGrow /\ TruthInv' /\ UNCHANGED <<row, lock, job, parked, handed, acked>>
    BY <2>1, PlatformStepGrows DEF CoreInv, CoreStoreInv, store
  <2>3. TypeOK'
    BY <2>2 DEF CoreInv, TypeOK, SessionsGrow
  <2>4. CoreStoreInv' /\ \A v \in Worker : CoreJobInv(v)'
    BY <2>2, CoreGrows
  <2> QED
    BY <2>2, <2>3, <2>4 DEF CoreInv, Carried
<1>3. CASE UNCHANGED vars
  <2>1. UNCHANGED <<row, lock, job, parked, sess, handed, sent, acked>>
    BY <1>3 DEF vars
  <2>2. TypeOK'
    BY <2>1 DEF CoreInv, TypeOK
  <2>3. CoreStoreInv'
    BY <2>1 DEF CoreInv, CoreStoreInv, SessionsSound, TruthInv, SettledByOwnSession,
                ParkedIsPaid, Holds
  <2>4. \A v \in Worker : CoreJobInv(v)'
    BY <2>1, CoreJobKept
  <2> QED
    BY <2>1, <2>2, <2>3, <2>4 DEF CoreInv, Carried
<1> QED
  BY <1>1, <1>2, <1>3 DEF Next

\* However often a transaction's session is replaced, and by how many requests at
\* a time.
THEOREM CoreInvariance == Spec => []CoreInv
<1>1. CoreInv /\ [Next]_vars => CoreInv'
  BY CoreNext
<1> QED
  BY <1>1, InitCoreInv, PTL DEF Spec

\* The rows, the locks, the requests and the platform's records keep their
\* shape, and the two lists of a row their caps, Newest's in remember_event
\* and in _expire_sibling_sessions.
THEOREM TypeCorrect == Spec => []TypeOK
<1>1. CoreInv => TypeOK
  BY DEF CoreInv
<1> QED
  BY <1>1, CoreInvariance, PTL

\* order_sync.py settles a transaction with nothing but a payment of a session
\* opened for it, and the intent and the charge a refund is matched by are that
\* session's.
THEOREM SettledByOwn == Spec => []SettledByOwnSession
<1>1. CoreInv => SettledByOwnSession
  BY DEF CoreInv, CoreStoreInv
<1> QED
  BY <1>1, CoreInvariance, PTL

\* order_sync._park escalates only what the platform did charge.
THEOREM OnlyMoneyParked == Spec => []ParkedIsPaid
<1>1. CoreInv => ParkedIsPaid
  BY DEF CoreInv, CoreStoreInv
<1> QED
  BY <1>1, CoreInvariance, PTL

\* The first half of ClosedStaysClosed: no delivery reopens or recloses a
\* transaction.
ClosedNeverReopens ==
    [][\A t \in Tx : Closed(row[t].state) => row'[t].state = row[t].state]_vars

\* lifecycle.plan guards every state it moves, and the setters of the framework
\* the rest: a transaction that is done, canceled or in error stays so.
THEOREM ClosedNeverReopensHolds == Spec => ClosedNeverReopens
<1> DEFINE P == \A t \in Tx : Closed(row[t].state) => row'[t].state = row[t].state
<1>1. CoreInv /\ [Next]_vars => [P]_vars
  <2> SUFFICES ASSUME CoreInv, [Next]_vars, NEW t \in Tx, Closed(row[t].state)
               PROVE  row'[t].state = row[t].state
    OBVIOUS
  <2> QED
    BY CoreNext DEF Carried, Rewritten, Closed
<1> QED
  BY <1>1, CoreInvariance, PTL DEF Spec, ClosedNeverReopens

\* _park and _record_payment_ids: a reference is only replaced by that of the
\* session which is the transaction's current one.
THEOREM IssuedReferenceSurvivesHolds == Spec => IssuedReferenceSurvives
<1> DEFINE P == \A t \in Tx : row[t].intent \notin {None, row'[t].intent} =>
                   row'[t].intent = row[t].xpay_session_id
<1>1. CoreInv /\ [Next]_vars => [P]_vars
  <2> SUFFICES ASSUME CoreInv, [Next]_vars, NEW t \in Tx,
                      row[t].intent \notin {None, row'[t].intent}
               PROVE  row'[t].intent = row[t].xpay_session_id
    OBVIOUS
  <2> QED
    BY CoreNext DEF Carried, Rewritten
<1> QED
  BY <1>1, CoreInvariance, PTL DEF Spec, IssuedReferenceSurvives

\* Ownership is tested under the lock, on the row as it is then: a payment
\* found through a session that has been superseded meanwhile is not applied.
\* What becomes of it instead is not the theorem's subject: it is parked
\* where the transaction has another session, and dropped after a sweep.
THEOREM SupersededNeverSettlesHolds == Spec => SupersededNeverSettles
<1> DEFINE P == \A t \in Tx : row[t].state # "done" /\ row'[t].state = "done" =>
                   row'[t].intent = row[t].xpay_session_id
<1>1. CoreInv /\ [Next]_vars => [P]_vars
  <2> SUFFICES ASSUME CoreInv, [Next]_vars, NEW t \in Tx,
                      row[t].state # "done", row'[t].state = "done"
               PROVE  row'[t].intent = row[t].xpay_session_id
    OBVIOUS
  <2> QED
    BY CoreNext DEF Carried, Rewritten
<1> QED
  BY <1>1, CoreInvariance, PTL DEF Spec, SupersededNeverSettles

\* lifecycle.plan cancels drafts only: the expiry of a session, one's own
\* included, does not cancel a transaction that waits for its deferred payment.
THEOREM PendingNotCanceledHolds == Spec => PendingNotCanceled
<1> DEFINE P == \A t \in Tx : row[t].state = "pending" => row'[t].state # "cancel"
<1>1. CoreInv /\ [Next]_vars => [P]_vars
  <2> SUFFICES ASSUME CoreInv, [Next]_vars, NEW t \in Tx, row[t].state = "pending"
               PROVE  row'[t].state # "cancel"
    OBVIOUS
  <2> QED
    BY CoreNext DEF Carried, Rewritten
<1> QED
  BY <1>1, CoreInvariance, PTL DEF Spec, PendingNotCanceled

=============================================================================
