------------------------------ MODULE Refunds -------------------------------
(***************************************************************************)
(* Refunds of one done payment of the xpay provider: the merchant's        *)
(* requests (services/refund_service.py:submit_refund), the platform's     *)
(* reports of them, and of refunds issued elsewhere (controllers/main.py,  *)
(* services/order_sync.py:mirror_external_refund), each refund being a     *)
(* child transaction of the payment, the source.                           *)
(*                                                                         *)
(* As in Settlement, the database writes of a request take effect at its   *)
(* commit, what the platform does takes effect at once, and what is read   *)
(* without a lock may be stale when it is used.  Reads under the source's  *)
(* lock see what earlier holders committed (order_sync.lock).              *)
(***************************************************************************)
EXTENDS Lifecycle, FiniteSetsExt

CONSTANTS
    MaxChild,      \* bound: refund children of the source
    Refund,        \* bound: refunds of the charge at the platform, and their ids
    Worker,        \* concurrent HTTP requests Odoo can be serving
    SourceAmount,  \* the payment, in minor units of the order's currency
    SameCurrency,  \* whether the order is priced in the currency it is charged in
    RateNum,       \* the rate locked at payment time, as a fraction
    RateDen,
    ProcessedCap,  \* length of xpay_processed_event_ids, 20 in the source
    External,      \* whether refunds are issued from the dashboard too
    Outcomes,      \* what the platform first says of a refund it created
    Deviates       \* whether it may refund another amount than it was asked for

Child  == 1..MaxChild
Source == 0        \* the lock of the source's row

ASSUME ConstantsAssumption ==
    /\ MaxChild \in Nat \ {0}
    /\ SourceAmount \in Nat \ {0}
    /\ SameCurrency \in BOOLEAN
    /\ RateNum \in Nat \ {0} /\ RateDen \in Nat \ {0}
    /\ ProcessedCap \in Nat \ {0}
    /\ External \in BOOLEAN /\ Deviates \in BOOLEAN
    /\ Outcomes \subseteq {"PENDING", "SUCCEEDED", "FAILED"}
    /\ None \notin Refund \cup Worker \cup Child

VARIABLES
    child,    \* the refund children of the source
    seen,     \* the source's own processed events: <<event, refund id>>
    lock,     \* the lock of the source's row and of each child's
    job,      \* what each request being served is at
    flagged,  \* refunds put in front of a human
    refund,   \* the platform's refunds of the charge
    answers,  \* what the platform keeps under the idempotency keys: <<key, answer>>
    sent,     \* the webhook events the platform has emitted
    acked     \* those answered 200

store    == <<child, seen, lock, job, flagged, acked>>
platform == <<refund, answers, sent>>
vars     == <<child, seen, lock, job, flagged, refund, answers, sent, acked>>

-----------------------------------------------------------------------------
(* Money: presentment_to_processing truncates; the figure the platform     *)
(* derives back from a processing amount is truncated too.                 *)

Convert(amount) == IF SameCurrency THEN amount ELSE (amount * RateNum) \div RateDen
Present(proc)   == IF SameCurrency THEN proc ELSE (proc * RateDen) \div RateNum

SourceProcessing == Convert(SourceAmount)

-----------------------------------------------------------------------------
(* The data.                                                               *)

\* A report: details tells whether it has a presentment breakdown.
Report == [id : Refund, status : {"PENDING", "SUCCEEDED", "FAILED"},
           proc : Nat, details : BOOLEAN]

\* An event is its own id.  charge.refunded carries the refunds of the
\* charge, newest first, the others one refund.
Event == [type : {"refund.created", "refund.failed", "charge.refunded"},
          entries : Seq(Report)]

\* An entry of the source's own list.
Seen == Event \X Refund

\* idempotency.refund_key bound to the body, whose amount is proc.
Key == [recorded : Nat, rejected : Nat, amount : Nat, proc : Int]

Row == [state : {"absent", "draft", "pending", "done", "error"},
        amount : Nat,                       \* in the order's currency
        proc : Int,                         \* xpay_processing_amount_minor, 0 when unset
        provider_reference : Refund \cup {None},
        awaiting : BOOLEAN,                 \* xpay_refund_awaiting_answer
        rejected : BOOLEAN,                 \* xpay_refund_rejected
        key : Key \cup {None},              \* xpay_refund_idempotency_key
        processed : Seq(Event)]

ASSUME NoneAssumption == None \notin Row \cup Key \cup Seq(Seen)

NoRow == [state |-> "absent", amount |-> 0, proc |-> 0, provider_reference |-> None,
          awaiting |-> FALSE, rejected |-> FALSE, key |-> None, processed |-> << >>]

\* "REFUSED" is an error response, which creates no refund.
Answer == [id : Refund \cup {None}, status : {"REFUSED", "PENDING", "SUCCEEDED", "FAILED"},
           proc : Nat]

Refusal == [id |-> None, status |-> "REFUSED", proc |-> 0]

\* A webhook being handled: the entries left to do, the child the next one
\* was found to be about, and what was written so far, not committed.
Job == [step : {"idle"}]
       \cup [step : {"posting"}, child : Child, amount : Nat, key : Key]
       \cup [step : {"answered"}, child : Child, amount : Nat, key : Key, answer : Answer]
       \cup [step : {"looking", "found"}, event : Event, todo : Seq(Report),
             target : Child \cup {None}, rows : [Child -> Row \cup {None}],
             seen : Seq(Seen) \cup {None}, flags : SUBSET Refund]

Idle == [step |-> "idle"]

\* A refund at the platform; age orders them.
PlatformRow == [status : {"none", "PENDING", "SUCCEEDED", "FAILED"}, proc : Nat,
                details : BOOLEAN, age : Nat]

NoRefund == [status |-> "none", proc |-> 0, details |-> TRUE, age |-> 0]

\* The slots of children not committed yet, those of requests at work.
Reserved(c) == \E w \in Worker :
    \/ job[w].step \in {"posting", "answered"} /\ job[w].child = c
    \/ job[w].step \in {"looking", "found"} /\ job[w].rows[c] # None

FreeChild == {c \in Child : child[c].state = "absent" /\ ~Reserved(c)}

-----------------------------------------------------------------------------
(* The merchant's request: submit_refund.                                  *)

Refunds(state) == {c \in Child : child[c].state = state}

Recorded == Cardinality(Refunds("done"))
Rejected == Cardinality({c \in Child : child[c].rejected})

AmountOf(C) == SumFunctionOnSet([c \in Child |-> child[c].amount], C)
ProcOf(C)   == SumFunctionOnSet([c \in Child |-> child[c].proc], C)

\* Mutant: only a request for the whole payment counts as a full refund.
SentAmount_SliceOnly(amount) ==
    IF amount = SourceAmount THEN SourceProcessing - ProcOf(Refunds("done")) ELSE Convert(amount)

\* What is left when the refund completes the payment's, else its conversion.
SentAmount(amount) ==
    IF AmountOf(Refunds("done")) + amount = SourceAmount
    THEN SourceProcessing - ProcOf(Refunds("done"))
    ELSE Convert(amount)

\* Mutant: refused attempts do not count.
RefundKey_NoRejected(amount) ==
    [recorded |-> Recorded, rejected |-> 0, amount |-> amount, proc |-> SentAmount(amount)]

\* Mutant: completed refunds do not count.
RefundKey_NoRecorded(amount) ==
    [recorded |-> 0, rejected |-> Rejected, amount |-> amount, proc |-> SentAmount(amount)]

RefundKey(amount) ==
    [recorded |-> Recorded, rejected |-> Rejected, amount |-> amount, proc |-> SentAmount(amount)]

\* No refund is pending, and none of another amount has lost its answer.
MayRefund(amount) ==
    /\ Refunds("pending") = {}
    /\ \A c \in Child : child[c].awaiting => child[c].amount = amount

\* The framework creates the child, the source is locked and the request
\* made up.
SubmitRefund(w, amount) ==
    /\ job[w] = Idle
    /\ lock[Source] = None
    /\ MayRefund(amount)
    /\ FreeChild # {}
    /\ lock' = [lock EXCEPT ![Source] = w]
    /\ job' = [job EXCEPT ![w] = [step |-> "posting", child |-> Min(FreeChild),
                                  amount |-> amount, key |-> RefundKey(amount)]]
    /\ UNCHANGED <<child, seen, flagged, acked, platform>>

\* The lock is busy or the request may not go on: nothing is sent, and the
\* framework leaves the child in error.
SubmitRefused(w, amount) ==
    /\ job[w] = Idle
    /\ lock[Source] # None \/ ~MayRefund(amount)
    /\ FreeChild # {}
    /\ child' = [child EXCEPT ![Min(FreeChild)] =
                   [NoRow EXCEPT !.state = SetError("draft"), !.amount = amount]]
    /\ UNCHANGED <<seen, lock, job, flagged, acked, platform>>

\* Mutant: the attempt itself goes on waiting.
SettleAwaiting_SiblingsOnly(rows, c) ==
    [d \in Child |-> IF d # c /\ rows[d].key = rows[c].key
                     THEN [rows[d] EXCEPT !.awaiting = FALSE] ELSE rows[d]]

\* Mutant: the siblings that lost the same answer go on waiting for it.
SettleAwaiting_OwnOnly(rows, c) == [rows EXCEPT ![c].awaiting = FALSE]

\* _settle_awaiting, on every child as the request leaves it.
SettleAwaiting(rows, c) ==
    [d \in Child |-> IF d = c \/ rows[d].key = rows[c].key
                     THEN [rows[d] EXCEPT !.awaiting = FALSE] ELSE rows[d]]

\* The child as it was sent.
SentRow(w) == [NoRow EXCEPT !.state = "draft", !.amount = job[w].amount,
                            !.proc = job[w].key.proc, !.awaiting = TRUE, !.key = job[w].key]

\* What the platform's answer makes of the child.
AnswerRow(r, answer) ==
    LET known == [r EXCEPT !.provider_reference = answer.id] IN
    CASE answer.status = "REFUSED" -> [r EXCEPT !.state = SetError(@), !.rejected = TRUE]
      [] answer.status = "SUCCEEDED" ->
            IF answer.proc # r.proc THEN [known EXCEPT !.state = SetError(@)]
            ELSE [known EXCEPT !.state = SetDone(@)]
      [] answer.status = "PENDING" -> [known EXCEPT !.state = SetPending(@)]
      [] answer.status = "FAILED" -> [known EXCEPT !.state = SetError(@), !.rejected = TRUE]

\* The answer reaches Odoo, and the request commits.
SubmitAnswered(w) ==
    /\ job[w].step = "answered"
    /\ LET c      == job[w].child
           answer == job[w].answer
           rows   == [child EXCEPT ![c] = AnswerRow(SentRow(w), answer)]
       IN  child' = SettleAwaiting(rows, c)
    /\ lock' = [lock EXCEPT ![Source] = None]
    /\ job' = [job EXCEPT ![w] = Idle]
    /\ UNCHANGED <<seen, flagged, acked, platform>>

\* No answer, or one that tells nothing (408, 409 in flight, 429, 503): the
\* child commits in error, waiting for its answer.  The POST may still be on
\* its way (PlatformLate).
SubmitLost(w) ==
    /\ job[w].step \in {"posting", "answered"}
    /\ child' = [child EXCEPT ![job[w].child] = [SentRow(w) EXCEPT !.state = SetError(@)]]
    /\ lock' = [lock EXCEPT ![Source] = None]
    /\ job' = [job EXCEPT ![w] = Idle]
    /\ UNCHANGED <<seen, flagged, acked, platform>>

\* The loss of the worker, or any other exception: the transaction is rolled
\* back, the child with it, and the platform keeps what it did.
Abort(w) ==
    /\ job[w] # Idle
    /\ lock' = [l \in DOMAIN lock |-> IF lock[l] = w THEN None ELSE lock[l]]
    /\ job' = [job EXCEPT ![w] = Idle]
    /\ UNCHANGED <<child, seen, flagged, acked, platform>>

-----------------------------------------------------------------------------
(* The platform.                                                           *)

Live(r) == refund[r].status \in {"PENDING", "SUCCEEDED"}

Balance == SourceProcessing
           - SumFunctionOnSet([r \in Refund |-> refund[r].proc], {r \in Refund : Live(r)})

Existing == {r \in Refund : refund[r].status # "none"}

ReportOf(r, now) == [id |-> r, status |-> now[r].status, proc |-> now[r].proc,
                     details |-> now[r].details]

\* The refunds of the charge, newest first.
ChargeEntries(now) ==
    LET all == {r \in Refund : now[r].status # "none"}
    IN  [i \in 1..Cardinality(all) |->
            ReportOf(CHOOSE r \in all : now[r].age = Cardinality(all) - i + 1, now)]

Charged(now)   == [type |-> "charge.refunded", entries |-> ChargeEntries(now)]
Single(type, r, now) == [type |-> type, entries |-> << ReportOf(r, now) >>]

\* A new refund is told of, and so is what it does to the charge.
Created(r, now) ==
    {Single("refund.created", r, now)}
    \cup (IF now[r].status = "SUCCEEDED" THEN {Charged(now)} ELSE {})
    \cup (IF now[r].status = "FAILED" THEN {Single("refund.failed", r, now)} ELSE {})

Create(r, proc, status, details) ==
    /\ refund[r].status = "none"
    /\ LET now == [refund EXCEPT ![r] = [status |-> status, proc |-> proc, details |-> details,
                                         age |-> Cardinality(Existing) + 1]]
       IN  /\ refund' = now
           /\ sent' = sent \cup Created(r, now)

\* The POST reaches the platform: a key it has seen gets the answer it got,
\* another one a refund, or a refusal.
PlatformReplay(w) ==
    /\ job[w].step = "posting"
    /\ \E a \in answers :
          /\ a[1] = job[w].key
          /\ job' = [job EXCEPT ![w] = [step |-> "answered", child |-> job[w].child,
                                        amount |-> job[w].amount, key |-> job[w].key,
                                        answer |-> a[2]]]
    /\ UNCHANGED <<child, seen, lock, flagged, acked, platform>>

PlatformAnswer(w, answer) ==
    /\ ~\E a \in answers : a[1] = job[w].key
    /\ answers' = answers \cup {<<job[w].key, answer>>}
    /\ job' = [job EXCEPT ![w] = [step |-> "answered", child |-> job[w].child,
                                  amount |-> job[w].amount, key |-> job[w].key,
                                  answer |-> answer]]
    /\ UNCHANGED <<child, seen, lock, flagged, acked>>

PlatformRefund(w, r, status) ==
    /\ job[w].step = "posting"
    /\ \E proc \in 1..Balance :
          /\ proc = job[w].key.proc \/ Deviates
          /\ Create(r, proc, status, TRUE)
          /\ PlatformAnswer(w, [id |-> r, status |-> status, proc |-> proc])

PlatformRefuse(w) ==
    /\ job[w].step = "posting"
    /\ PlatformAnswer(w, Refusal)
    /\ UNCHANGED <<refund, sent>>

\* A POST whose answer Odoo gave up waiting for arrives after all.
PlatformLate(c, r, status) ==
    /\ child[c].key # None
    /\ ~\E a \in answers : a[1] = child[c].key
    /\ child[c].key.proc \in 1..Balance
    /\ Create(r, child[c].key.proc, status, TRUE)
    /\ answers' = answers \cup {<<child[c].key, [id |-> r, status |-> status,
                                                proc |-> child[c].key.proc]>>}
    /\ UNCHANGED store

\* A refund that does not come from this module.
DashboardRefund(r, proc, details) ==
    /\ External
    /\ SameCurrency => details
    /\ proc <= Balance
    /\ \E status \in Outcomes : Create(r, proc, status, details)
    /\ UNCHANGED <<store, answers>>

\* A pending refund is decided.
Resolve(r, status) ==
    /\ refund[r].status = "PENDING"
    /\ LET now == [refund EXCEPT ![r].status = status]
       IN  /\ refund' = now
           /\ sent' = sent \cup {IF status = "FAILED" THEN Single("refund.failed", r, now)
                                 ELSE Charged(now)}
    /\ UNCHANGED <<store, answers>>

-----------------------------------------------------------------------------
(* The webhook route.                                                      *)

\* What a request sees of the children: what it wrote itself, else what is
\* committed.
View(w) == [c \in Child |-> IF job[w].rows[c] # None THEN job[w].rows[c] ELSE child[c]]

\* The child of a refund id, the latest when there are several.
FindChild(rows, r) ==
    LET named == {c \in Child : rows[c].provider_reference = r}
    IN  IF named = {} THEN None ELSE Max(named)

\* A delivery, the first or a repeated one.  A single refund is looked up at
\* once, the entries of a charge each in its turn.
Deliver(w, e) ==
    /\ job[w] = Idle
    /\ job' = [job EXCEPT ![w] = [step |-> "found", event |-> e, todo |-> e.entries,
                                  target |-> FindChild(child, e.entries[1].id),
                                  rows |-> [c \in Child |-> None], seen |-> None, flags |-> {}]]
    /\ UNCHANGED <<child, seen, lock, flagged, acked, platform>>

LookUp(w) ==
    /\ job[w].step = "looking"
    /\ job' = [job EXCEPT ![w] =
                   [@ EXCEPT !.step = "found",
                             !.target = FindChild(View(w), job[w].todo[1].id)]]
    /\ UNCHANGED <<child, seen, lock, flagged, acked, platform>>

\* Mutant: whatever the report says was refunded will do.
Disagrees_Never(r, p) == FALSE

\* _refund_amount_matches: the figure is not the one the child was sent for.
Disagrees(r, p) == p.status = "SUCCEEDED" /\ (r.proc = 0 \/ p.proc # r.proc)

\* Mutant: a refund that exists passes for one that went through.
RefundUpdate_CreatedIsDone(r, p) ==
    LET known == [r EXCEPT !.provider_reference = p.id] IN
    IF p.status = "FAILED" THEN [known EXCEPT !.state = SetError(@), !.rejected = TRUE]
    ELSE [known EXCEPT !.state = SetDone(@)]

\* _apply_refund_update on one child.
RefundUpdate(r, p) ==
    LET known == [r EXCEPT !.provider_reference = p.id] IN
    CASE p.status = "SUCCEEDED" -> IF Disagrees(r, p) THEN known
                                   ELSE [known EXCEPT !.state = SetDone(@)]
      [] p.status = "PENDING" -> [known EXCEPT !.state = SetPending(@)]
      [] p.status = "FAILED" -> [known EXCEPT !.state = SetError(@), !.rejected = TRUE]

\* apply_locked on a refund child.
ApplyToChild(rows, c, e, p) ==
    IF IsReplay(rows[c].processed, e) THEN rows
    ELSE [rows EXCEPT ![c] =
             [RefundUpdate(rows[c], p) EXCEPT
                !.processed = RememberEvent(rows[c].processed, e, ProcessedCap)]]

\* The attempts whose answer this report can be.
Unresolved(rows, p) ==
    {c \in Child : rows[c].awaiting /\ rows[c].provider_reference = None /\ rows[c].proc = p.proc}

Ambiguous(C, rows) == \E c, d \in C : rows[c].key # rows[d].key

\* Mutant: the report is no answer to the others sent under its key.
Adopt_OneOnly(rows, C, p) ==
    [rows EXCEPT ![Min(C)] = RefundUpdate([@ EXCEPT !.awaiting = FALSE, !.proc = p.proc], p)]

\* The earliest of them takes the report, the others share its answer.
Adopt(rows, C, p) ==
    [c \in Child |-> IF c = Min(C)
                     THEN RefundUpdate([rows[c] EXCEPT !.awaiting = FALSE, !.proc = p.proc], p)
                     ELSE IF c \in C THEN [rows[c] EXCEPT !.awaiting = FALSE]
                     ELSE rows[c]]

\* The report has no figure in the source's currency.
Unmirrorable(p) == ~p.details /\ ~SameCurrency

\* A child of its own, for a refund this module did not ask for.
Mirrored(p) ==
    RefundUpdate([NoRow EXCEPT !.state = "draft", !.proc = p.proc,
                               !.amount = IF p.details THEN Present(p.proc) ELSE p.proc], p)

\* Mutant: only a refund this module asked for is recorded.
Mirror_AdoptsOnly(rows, p) ==
    LET C == Unresolved(rows, p) IN
    IF C = {} \/ Ambiguous(C, rows) THEN rows ELSE Adopt(rows, C, p)

\* mirror_external_refund, after the dedupe.
Mirror(rows, p) ==
    LET C == Unresolved(rows, p) IN
    IF C # {} THEN IF Ambiguous(C, rows) THEN rows ELSE Adopt(rows, C, p)
    ELSE IF Unmirrorable(p) THEN rows
    ELSE [rows EXCEPT ![Min(FreeChild)] = Mirrored(p)]

\* Whether it puts the refund in front of a human instead.
Escalates(rows, p) ==
    LET C == Unresolved(rows, p) IN
    IF C # {} THEN Ambiguous(C, rows) ELSE Unmirrorable(p)

\* Mutant: the source remembers the event, not the refund.
DedupeKey_EventOnly(e, p) == <<e, e.entries[1].id>>

\* One event can carry several refunds.
DedupeKey(e, p) == <<e, p.id>>

\* An entry is applied under the lock of the row it is about.  The last one
\* ends the request: commit and 200.
Take(w, row, rows, list, flags) ==
    /\ lock[row] \in {None, w}
    /\ IF Len(job[w].todo) = 1
       THEN /\ child' = rows
            /\ seen' = list
            /\ flagged' = flagged \cup job[w].flags \cup flags
            /\ acked' = acked \cup {job[w].event}
            /\ lock' = [l \in DOMAIN lock |-> IF lock[l] = w THEN None ELSE lock[l]]
            /\ job' = [job EXCEPT ![w] = Idle]
       ELSE /\ lock' = [lock EXCEPT ![row] = w]
            /\ job' = [job EXCEPT ![w] =
                   [@ EXCEPT !.step = "looking",
                             !.todo = Tail(job[w].todo),
                             !.rows = [c \in Child |-> IF rows[c] # child[c]
                                                       THEN rows[c] ELSE None],
                             !.seen = IF row = Source THEN list ELSE job[w].seen,
                             !.flags = job[w].flags \cup flags]]
            /\ UNCHANGED <<child, seen, flagged, acked>>
    /\ UNCHANGED platform

ApplyRefundUpdate(w) ==
    /\ job[w].step = "found"
    /\ job[w].target # None
    /\ LET c == job[w].target
           p == job[w].todo[1]
           e == job[w].event
       IN  Take(w, c, ApplyToChild(View(w), c, e, p), IF job[w].seen # None THEN job[w].seen ELSE seen,
                IF ~IsReplay(View(w)[c].processed, e) /\ Disagrees(View(w)[c], p)
                THEN {p.id} ELSE {})

MirrorExternalRefund(w) ==
    /\ job[w].step = "found"
    /\ job[w].target = None
    /\ LET rows == View(w)
           p    == job[w].todo[1]
           list == IF job[w].seen # None THEN job[w].seen ELSE seen
           id   == DedupeKey(job[w].event, p)
       IN  IF IsReplay(list, id) THEN Take(w, Source, rows, list, {})
           ELSE /\ Unresolved(rows, p) = {} => FreeChild # {}
                /\ Take(w, Source, Mirror(rows, p), RememberEvent(list, id, ProcessedCap),
                        IF Escalates(rows, p) THEN {p.id} ELSE {})

\* OrderLockBusy, answered 500: rolled back, a redelivery will resolve it.
LockBusy(w) ==
    /\ job[w].step = "found"
    /\ lock[IF job[w].target = None THEN Source ELSE job[w].target] \notin {None, w}
    /\ Abort(w)

-----------------------------------------------------------------------------
Init ==
    /\ child = [c \in Child |-> NoRow]
    /\ seen = << >>
    /\ lock = [l \in Child \cup {Source} |-> None]
    /\ job = [w \in Worker |-> Idle]
    /\ flagged = {}
    /\ refund = [r \in Refund |-> NoRefund]
    /\ answers = {}
    /\ sent = {}
    /\ acked = {}

RequestStep(w) ==
    \/ \E amount \in 1..SourceAmount : SubmitRefund(w, amount) \/ SubmitRefused(w, amount)
    \/ SubmitAnswered(w) \/ SubmitLost(w)
    \/ \E e \in sent : Deliver(w, e)
    \/ LookUp(w)
    \/ ApplyRefundUpdate(w) \/ MirrorExternalRefund(w)
    \/ LockBusy(w)
    \/ Abort(w)

PlatformStep ==
    \/ \E w \in Worker : PlatformReplay(w) \/ PlatformRefuse(w)
    \/ \E w \in Worker, r \in Refund, status \in Outcomes : PlatformRefund(w, r, status)
    \/ \E c \in Child, r \in Refund, status \in Outcomes : PlatformLate(c, r, status)
    \/ \E r \in Refund, proc \in 1..SourceProcessing, details \in BOOLEAN :
            DashboardRefund(r, proc, details)
    \/ \E r \in Refund, status \in {"SUCCEEDED", "FAILED"} : Resolve(r, status)

Next == (\E w \in Worker : RequestStep(w)) \/ PlatformStep

Spec == Init /\ [][Next]_vars

-----------------------------------------------------------------------------
(* Properties.                                                             *)

\* The type of every variable.
TypeOK ==
    /\ child \in [Child -> Row]
    /\ \A c \in Child : Len(child[c].processed) <= ProcessedCap
    /\ seen \in Seq(Seen) /\ Len(seen) <= ProcessedCap
    /\ lock \in [Child \cup {Source} -> Worker \cup {None}]
    /\ job \in [Worker -> Job]
    /\ flagged \subseteq Refund
    /\ refund \in [Refund -> PlatformRow]
    /\ answers \subseteq Key \X Answer
    /\ sent \subseteq Event
    /\ acked \subseteq sent

\* _apply_refund_update: recording a refund as done never misstates what
\* moved: the platform has made that very refund, of that very amount.
DoneIsRefunded ==
    \A c \in Child : child[c].state = "done" =>
        /\ child[c].provider_reference # None
        /\ refund[child[c].provider_reference].status = "SUCCEEDED"
        /\ refund[child[c].provider_reference].proc = child[c].proc

\* "One child transaction per real refund", _adopt_unresolved_sibling: the
\* ledger of completed refunds counts each of the platform's once.
OneDonePerRefund ==
    \A c, d \in Child :
        child[c].state = "done" /\ child[d].state = "done"
        /\ child[c].provider_reference = child[d].provider_reference => c = d

\* A refused attempt stays refused and is not waited for.
RejectedIsSettled ==
    \A c \in Child : child[c].rejected => child[c].state = "error" /\ ~child[c].awaiting

\* xpay_refund_idempotency_key: "attempts that share a key share the
\* platform's one outcome for it", so they wait for it together and stop
\* waiting together, whether it came as an answer or as a report.
OneAnswerPerKey ==
    \A c, d \in Child : child[c].key # None /\ child[c].key = child[d].key =>
        child[c].awaiting = child[d].awaiting

Sends(w) == job[w].step # "posting" /\ job'[w].step = "posting"

\* refund_key: the key of an attempt that was completed or refused is not
\* used again, or a new refund would only replay that answer.
SettledKeyNotReused ==
    [][\A w \in Worker : Sends(w) =>
          \A c \in Child : child[c].state = "done" \/ child[c].rejected =>
              child[c].key # job'[w].key]_vars

\* submit_refund: "a sibling that already got past it and is now waiting on
\* the platform's own answer" blocks a second submission.
NeverSendsBesidePending ==
    [][\A w \in Worker : Sends(w) =>
          \A c \in Child : child[c].provider_reference # None =>
              refund[child[c].provider_reference].status # "PENDING"]_vars

\* The last step of a refund in parts strands nothing: as long as only refunds
\* of this module were completed or refused, once they add up to the payment
\* they have returned all of it, although each conversion truncates and an
\* answer may come late.
FullRefundReturnsAll ==
    LET done == Refunds("done") IN
    /\ \A c \in Child : child[c].state = "done" \/ child[c].rejected => child[c].key # None
    /\ AmountOf(done) = SourceAmount
    => ProcOf(done) = SourceProcessing

\* A 200 is the last the platform says of a refund it made: once one was
\* answered so, the refund is on record, or a human knows.
OnRecord(r) == r \in flagged \/ \E c \in Child :
    child[c].state = "done" /\ child[c].provider_reference = r

AckedRefundOnRecord ==
    \A e \in acked : \A i \in 1..Len(e.entries) :
        e.entries[i].status = "SUCCEEDED" => OnRecord(e.entries[i].id)
=============================================================================
