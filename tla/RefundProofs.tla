---------------------------- MODULE RefundProofs -----------------------------
(***************************************************************************)
(* Proofs about Refunds, for every number of children, refunds and         *)
(* requests, every rate, and a platform that may say and do everything the *)
(* constants allow: IInv is inductive.  Its idea is that a request at work *)
(* holds the lock that guards each child it has written and not committed, *)
(* so that what it means to commit is still a later form of what is there, *)
(* whatever the others did in the meantime.                                *)
(***************************************************************************)
EXTENDS Refunds, FiniteSums, LifecycleProofs, TLAPS

-----------------------------------------------------------------------------
(* The inductive invariant.                                                *)

\* A report, or an answer, is true: what it says of the refund is so, or was
\* so while the refund was pending.
Told(p) ==
    /\ p.proc = refund[p.id].proc /\ p.proc > 0
    /\ \/ refund[p.id].status = p.status
       \/ p.status = "PENDING" /\ refund[p.id].status # "none"

TrueAnswer(a) == a = Refusal \/ (a.id # None /\ a.status # "REFUSED" /\ Told(a))

\* The platform's refunds are numbered, and what it says of them is true; an
\* event says one thing of a refund.
Numbered(now) ==
    LET all == {r \in Refund : now[r].status # "none"}
    IN  /\ IsFiniteSet(all)
        /\ \A n \in 1 .. Cardinality(all) : \E r \in all : now[r].age = n
        /\ \A r \in all : now[r].proc > 0

TrueEvent(e) ==
    /\ e.entries # << >>
    /\ \A i \in DOMAIN e.entries : Told(e.entries[i])
    /\ \A i, j \in DOMAIN e.entries :
          e.entries[i].id = e.entries[j].id => e.entries[i] = e.entries[j]

PlatformInv ==
    /\ Numbered(refund)
    /\ \A e \in sent : TrueEvent(e)
    /\ \A a \in answers : TrueAnswer(a[2])

\* What a child may say, committed or not.
RowOk(r) ==
    /\ r.provider_reference # None =>
          /\ ~r.awaiting
          /\ refund[r.provider_reference].status # "none"
    /\ r.provider_reference = None => r.processed = << >>
    /\ r.state = "done" =>
          /\ r.provider_reference # None
          /\ refund[r.provider_reference].status = "SUCCEEDED"
          /\ refund[r.provider_reference].proc = r.proc
    /\ r.rejected =>
          /\ r.state = "error" /\ ~r.awaiting
          /\ r.provider_reference # None =>
                refund[r.provider_reference].status = "FAILED"
    /\ r.state = "absent" => r.provider_reference = None /\ ~r.rejected /\ ~r.awaiting

\* What a child may become.
Later(old, new) ==
    /\ old.provider_reference # None => new.provider_reference = old.provider_reference
    /\ old.state = "done" => new.state = "done"
    /\ old.rejected => new.rejected
    /\ old.state # "absent" =>
          new.key = old.key /\ new.amount = old.amount /\ new.proc = old.proc
    /\ new.state # "absent"

\* A refund that went through is on record among these rows, or flagged.
Covered(p, rows, flags) ==
    p.status = "SUCCEEDED" =>
        \/ p.id \in flags
        \/ \E c \in Child : rows[c].state = "done" /\ rows[c].provider_reference = p.id

\* The events a child remembers were applied to it.
RecordOk(r, flags) ==
    \A i \in DOMAIN r.processed :
        /\ r.processed[i] \in sent
        /\ \A j \in DOMAIN r.processed[i].entries :
              LET p == r.processed[i].entries[j]
              IN  p.id = r.provider_reference /\ p.status = "SUCCEEDED" =>
                      r.state = "done" \/ p.id \in flags

\* The refunds the source remembers are covered.
SeenOk(list, rows, flags) ==
    \A i \in DOMAIN list :
        /\ list[i][1] \in sent
        /\ \A j \in DOMAIN list[i][1].entries :
              list[i][1].entries[j].id = list[i][2] =>
                  Covered(list[i][1].entries[j], rows, flags)

StoreInv ==
    /\ \A c \in Child : RowOk(child[c]) /\ RecordOk(child[c], flagged)
    /\ SeenOk(seen, child, flagged)
    /\ AckedRefundOnRecord

\* A child that has no reference yet is written under the source's lock.
Guard(c) == IF child[c].provider_reference = None THEN Source ELSE c

\* A merchant's request.
Sending(w) == job[w].step \in {"posting", "answered"}

SendingInv(w) ==
    Sending(w) =>
        /\ lock[Source] = w
        /\ child[job[w].child].state = "absent"
        /\ job[w].step = "answered" => TrueAnswer(job[w].answer)

\* A webhook.
Handling(w) == job[w].step \in {"looking", "found"}
FlagsOf(w) == flagged \cup job[w].flags

OverlayInv(w) ==
    \A c \in Child : job[w].rows[c] # None =>
        /\ lock[Guard(c)] = w
        /\ Later(child[c], job[w].rows[c])
        /\ child[c].state = "absent" => job[w].rows[c].key = None
        /\ RowOk(job[w].rows[c]) /\ RecordOk(job[w].rows[c], FlagsOf(w))
        /\ Len(job[w].rows[c].processed) <= ProcessedCap

HandlingInv(w) ==
    Handling(w) =>
        /\ OverlayInv(w)
        /\ job[w].event \in sent
        /\ job[w].todo # << >>
        /\ \A j \in DOMAIN job[w].todo :
              \E i \in DOMAIN job[w].event.entries : job[w].todo[j] = job[w].event.entries[i]
        /\ \A i \in DOMAIN job[w].event.entries :
              \/ \E j \in DOMAIN job[w].todo : job[w].todo[j] = job[w].event.entries[i]
              \/ Covered(job[w].event.entries[i], View(w), FlagsOf(w))
        /\ job[w].step = "found" /\ job[w].target # None =>
              View(w)[job[w].target].provider_reference = job[w].todo[1].id
        /\ job[w].seen # None =>
              /\ lock[Source] = w
              /\ SeenOk(job[w].seen, View(w), FlagsOf(w))
              /\ Len(job[w].seen) <= ProcessedCap

\* Keys count what was settled before them.
Counted(key) == key.recorded <= Recorded /\ key.rejected <= Rejected

KeyInv ==
    /\ \A c \in Child : child[c].key # None =>
          /\ Counted(child[c].key)
          /\ child[c].state = "done" => child[c].key.recorded < Recorded
          /\ child[c].rejected => child[c].key.rejected < Rejected
    /\ \A w \in Worker : Sending(w) => Counted(job[w].key)

IInv ==
    /\ TypeOK
    /\ PlatformInv
    /\ StoreInv
    /\ \A w \in Worker : SendingInv(w) /\ HandlingInv(w)
    /\ KeyInv

-----------------------------------------------------------------------------
(* Typing.                                                                 *)

\* The constants.
LEMMA ConstantFacts ==
    /\ None \notin Refund /\ None \notin Worker /\ None \notin Child
    /\ None \notin Row /\ None \notin Key /\ None \notin Seq(Seen)
    /\ ProcessedCap \in Nat \ {0} /\ MaxChild \in Nat
    /\ Source \notin Child
    /\ Source \in Child \cup {Source}
  BY ConstantsAssumption, NoneAssumption DEF Child, Source

\* What a request carries at each step.
LEMMA JobTypes ==
    ASSUME job \in [Worker -> Job], NEW w \in Worker
    PROVE  /\ Sending(w) =>
                /\ job[w].child \in Child /\ job[w].amount \in Nat /\ job[w].key \in Key
                /\ job[w].step = "answered" => job[w].answer \in Answer
           /\ Handling(w) =>
                /\ job[w] \in [step : {"looking", "found"}, event : Event, todo : Seq(Report),
                               target : Child \cup {None}, rows : [Child -> Row \cup {None}],
                               seen : Seq(Seen) \cup {None}, flags : SUBSET Refund]
                /\ job[w].event \in Event /\ job[w].todo \in Seq(Report)
                /\ job[w].target \in Child \cup {None}
                /\ job[w].rows \in [Child -> Row \cup {None}]
                /\ job[w].seen \in Seq(Seen) \cup {None}
                /\ job[w].flags \in SUBSET Refund
           /\ job[w] = Idle <=> job[w].step = "idle"
           /\ Sending(w) \/ Handling(w) \/ job[w] = Idle
           /\ job[w].step \in {"idle", "posting", "answered", "looking", "found"}
<1>1. job[w] \in Job
  OBVIOUS
<1> QED
  BY <1>1 DEF Job, Sending, Handling, Idle

\* What a request sees is a full set of children.
LEMMA ViewTypes ==
    ASSUME child \in [Child -> Row], job \in [Worker -> Job], NEW w \in Worker, Handling(w)
    PROVE  /\ View(w) \in [Child -> Row]
           /\ \A c \in Child : job[w].rows[c] = None => View(w)[c] = child[c]
           /\ \A c \in Child : job[w].rows[c] # None => View(w)[c] = job[w].rows[c]
<1>1. job[w].rows \in [Child -> Row \cup {None}]
  BY JobTypes
<1>2. \A c \in Child : job[w].rows[c] # None => job[w].rows[c] \in Row
  BY <1>1
<1> QED
  BY <1>2 DEF View

\* The entries of an event.
LEMMA EventTypes ==
    ASSUME NEW e \in Event
    PROVE  /\ e.entries \in Seq(Report)
           /\ Len(e.entries) \in Nat /\ DOMAIN e.entries = 1 .. Len(e.entries)
           /\ \A i \in DOMAIN e.entries : e.entries[i] \in Report
<1>1. e.entries \in Seq(Report)
  BY DEF Event
<1> QED
  BY <1>1, LenProperties, ElementOfSeq

\* The slots are finite, and so is any set of them.
LEMMA ChildFinite ==
    /\ IsFiniteSet(Child)
    /\ \A S \in SUBSET Child : IsFiniteSet(S) /\ Cardinality(S) \in Nat
<1>1. IsFiniteSet(Child)
  BY ConstantFacts, FS_Interval DEF Child
<1> QED
  BY <1>1, FS_Subset, FS_CardinalityType

-----------------------------------------------------------------------------
(* How rows and what is said of them carry over from a state of the        *)
(* children to a later one.                                                *)

\* These children are those, or later forms of them.
Onward(old, new) == \A c \in Child : new[c] = old[c] \/ Later(old[c], new[c])

\* Later is transitive.
LEMMA LaterTransitive ==
    ASSUME NEW a \in Row, NEW b \in Row, NEW c \in Row, Later(a, b), Later(b, c)
    PROVE  Later(a, c)
  BY ConstantFacts DEF Later, Row

\* What covers a report still does when rows move on and notes are added.
LEMMA CoveredStays ==
    ASSUME NEW p, NEW old, NEW new, NEW f, NEW g, Onward(old, new), f \subseteq g, p.id # None,
           Covered(p, old, f)
    PROVE  Covered(p, new, g)
  BY DEF Covered, Onward, Later

\* A completed row keeps its justification, with more notes as well.
LEMMA RecordStays ==
    ASSUME NEW r, NEW f, NEW g, f \subseteq g, RecordOk(r, f)
    PROVE  RecordOk(r, g)
  BY DEF RecordOk

\* The events a row remembers stay accounted for as rows move on.
LEMMA SeenStays ==
    ASSUME NEW list \in Seq(Seen), NEW old, NEW new, NEW f, NEW g,
           Onward(old, new), f \subseteq g, SeenOk(list, old, f)
    PROVE  SeenOk(list, new, g)
<1> SUFFICES ASSUME NEW i \in DOMAIN list, NEW j \in DOMAIN list[i][1].entries,
                    list[i][1].entries[j].id = list[i][2]
             PROVE  Covered(list[i][1].entries[j], new, g)
  BY DEF SeenOk
<1>1. list[i] \in Seen
  BY LenProperties, ElementOfSeq
<1>2. list[i][2] \in Refund
  BY <1>1 DEF Seen
<1>3. Covered(list[i][1].entries[j], old, f)
  BY DEF SeenOk
<1> QED
  BY <1>2, <1>3, CoveredStays, ConstantFacts

-----------------------------------------------------------------------------
(* The platform only adds to what it said.                                 *)

Grown ==
    \A r \in Refund :
        /\ refund[r].status # "none" =>
              refund'[r].status # "none" /\ refund'[r].proc = refund[r].proc
        /\ refund[r].status \in {"SUCCEEDED", "FAILED"} => refund'[r].status = refund[r].status

\* A report of the platform stays true of it: ids and amounts never change, and
\* a refund that succeeded or failed has done so for good.
LEMMA ToldStays ==
    ASSUME Grown, NEW p, p.id \in Refund, p.status \in {"PENDING", "SUCCEEDED", "FAILED"},
           Told(p)
    PROVE  Told(p)'
  BY DEF Told, Grown

\* So does what it answered to a key, and what a row says of it.
LEMMA AnswerStays ==
    ASSUME Grown, NEW a \in Answer, TrueAnswer(a)
    PROVE  TrueAnswer(a)'
<1>1. CASE a = Refusal
  BY <1>1 DEF TrueAnswer
<1>2. CASE a # Refusal
  <2>1. a.id # None /\ a.status # "REFUSED" /\ Told(a)
    BY <1>2 DEF TrueAnswer
  <2>2. a.id \in Refund /\ a.status \in {"PENDING", "SUCCEEDED", "FAILED"}
    BY <2>1 DEF Answer
  <2>3. Told(a)'
    BY <2>1, <2>2, ToldStays
  <2> QED
    BY <2>1, <2>3 DEF TrueAnswer
<1> QED
  BY <1>1, <1>2

LEMMA RowStays ==
    ASSUME Grown, NEW r \in Row, RowOk(r)
    PROVE  RowOk(r)'
<1>1. r.provider_reference \in Refund \cup {None}
  BY DEF Row
<1> QED
  BY <1>1 DEF RowOk, Grown

\* What the platform does leaves Odoo's side of the invariant as it was.
PlatformMoves ==
    /\ Grown
    /\ UNCHANGED <<child, seen, lock, flagged, acked>>
    /\ sent \subseteq sent'
    /\ \A w \in Worker : job'[w] # job[w] =>
          /\ job[w].step = "posting"
          /\ job'[w].step = "answered"
          /\ job'[w].child = job[w].child /\ job'[w].key = job[w].key
          /\ TrueAnswer(job[w].answer)'

\* A step of the platform leaves the invariant of the store, of the requests and
\* of the keys as they are.
LEMMA StoreUnderPlatform ==
    ASSUME IInv, PlatformMoves
    PROVE  StoreInv'
<1> USE DEF PlatformMoves
<1>1. TypeOK /\ StoreInv
  BY DEF IInv
<1>2. ASSUME NEW c \in Child
      PROVE  RowOk(child[c])' /\ RecordOk(child[c], flagged)'
  <2>1. child[c] \in Row /\ RowOk(child[c]) /\ RecordOk(child[c], flagged)
    BY <1>1 DEF TypeOK, StoreInv
  <2>2. RowOk(child[c])'
    BY <2>1, RowStays
  <2>3. RecordOk(child[c], flagged)'
    BY <2>1 DEF RecordOk
  <2> QED
    BY <2>2, <2>3
<1>3. SeenOk(seen, child, flagged)'
  BY <1>1 DEF StoreInv, SeenOk, Covered
<1>4. AckedRefundOnRecord'
  BY <1>1 DEF StoreInv, AckedRefundOnRecord, OnRecord
<1> QED
  BY <1>2, <1>3, <1>4 DEF StoreInv

LEMMA WorkUnderPlatform ==
    ASSUME IInv, PlatformMoves, NEW w \in Worker
    PROVE  SendingInv(w)' /\ HandlingInv(w)'
<1> USE DEF PlatformMoves
<1>1. TypeOK /\ SendingInv(w) /\ HandlingInv(w)
  BY DEF IInv
<1>2. job \in [Worker -> Job]
  BY <1>1 DEF TypeOK
<1>3. CASE job'[w] = job[w]
  <2>1. SendingInv(w)'
    <3>1. CASE job[w].step = "answered"
      <4>1. job[w].answer \in Answer /\ TrueAnswer(job[w].answer)
        BY <1>1, <1>2, <3>1, JobTypes DEF SendingInv, Sending
      <4>2. TrueAnswer(job[w].answer)'
        BY <1>3, <4>1, AnswerStays
      <4> QED
        BY <1>1, <1>3, <4>2 DEF SendingInv, Sending
    <3>2. CASE job[w].step # "answered"
      BY <1>1, <1>3, <3>2 DEF SendingInv, Sending
    <3> QED
      BY <3>1, <3>2
  <2>2. HandlingInv(w)'
    <3> SUFFICES ASSUME Handling(w) PROVE HandlingInv(w)'
      BY <1>3 DEF HandlingInv, Handling
    <3>1. View(w)' = View(w) /\ FlagsOf(w)' = FlagsOf(w)
      BY <1>3 DEF View, FlagsOf
    <3>2. OverlayInv(w)'
      <4> SUFFICES ASSUME NEW c \in Child, job[w].rows[c] # None
                   PROVE  /\ lock[Guard(c)] = w
                          /\ Later(child[c], job[w].rows[c])
                          /\ child[c].state = "absent" => job[w].rows[c].key = None
                          /\ RowOk(job[w].rows[c])'
                          /\ RecordOk(job[w].rows[c], FlagsOf(w))'
                          /\ Len(job[w].rows[c].processed) <= ProcessedCap
        BY <1>3 DEF OverlayInv, Guard, Later
      <4>1. job[w].rows[c] \in Row
        BY <1>2, JobTypes
      <4>2. /\ lock[Guard(c)] = w
            /\ Later(child[c], job[w].rows[c])
            /\ child[c].state = "absent" => job[w].rows[c].key = None
            /\ RowOk(job[w].rows[c]) /\ RecordOk(job[w].rows[c], FlagsOf(w))
            /\ Len(job[w].rows[c].processed) <= ProcessedCap
        BY <1>1 DEF HandlingInv, OverlayInv
      <4>3. RowOk(job[w].rows[c])'
        BY <1>3, <4>1, <4>2, RowStays
      <4>4. RecordOk(job[w].rows[c], FlagsOf(w))'
        <5>1. PICK r, f : r = job[w].rows[c] /\ f = FlagsOf(w)
          OBVIOUS
        <5>2. RecordOk(r, f)
          BY <4>2, <5>1
        <5>3. sent \subseteq sent'
          OBVIOUS
        <5>4. RecordOk(r, f)'
          BY <5>2, <5>3 DEF RecordOk
        <5>5. r = (job[w].rows[c])' /\ f = FlagsOf(w)'
          BY <1>3, <3>1, <5>1
        <5> QED
          BY <5>4, <5>5 DEF RecordOk
      <4> QED
        BY <4>2, <4>3, <4>4
    <3>3. \A list : SeenOk(list, View(w), FlagsOf(w)) => SeenOk(list, View(w), FlagsOf(w))'
      BY <3>1 DEF SeenOk, Covered
    <3>4. \A p : Covered(p, View(w), FlagsOf(w)) => Covered(p, View(w), FlagsOf(w))'
      BY <3>1 DEF Covered
    <3>5. job'[w].step = job[w].step /\ job'[w].event = job[w].event
          /\ job'[w].todo = job[w].todo /\ job'[w].target = job[w].target
          /\ job'[w].seen = job[w].seen
      BY <1>3
    <3>6. /\ job[w].event \in sent'
          /\ job[w].seen # None => lock'[Source] = w
          /\ job[w].seen # None => SeenOk(job[w].seen, View(w), FlagsOf(w))
      BY <1>1 DEF HandlingInv
    <3>7. job[w].step = "found" /\ job[w].target # None =>
              View(w)'[job[w].target].provider_reference = job[w].todo[1].id
      BY <1>1, <3>1 DEF HandlingInv
    <3>8. job[w].seen # None => SeenOk(job[w].seen, View(w), FlagsOf(w))'
      BY <1>3, <3>3, <3>6
    <3>9. \A i \in DOMAIN job[w].event.entries :
              \/ \E j \in DOMAIN job[w].todo : job[w].todo[j] = job[w].event.entries[i]
              \/ Covered(job[w].event.entries[i], View(w), FlagsOf(w))'
      BY <1>1, <1>3, <3>4 DEF HandlingInv
    <3> HIDE DEF PlatformMoves
    <3> QED
      BY <1>1, <3>2, <3>5, <3>6, <3>7, <3>8, <3>9 DEF HandlingInv
  <2> QED
    BY <2>1, <2>2
<1>4. CASE job'[w] # job[w]
  <2>1. /\ job[w].step = "posting" /\ job'[w].step = "answered"
        /\ job'[w].child = job[w].child
        /\ TrueAnswer(job[w].answer)'
    BY <1>4
  <2>2. SendingInv(w)'
    BY <1>1, <2>1 DEF SendingInv, Sending
  <2>3. HandlingInv(w)'
    BY <2>1 DEF HandlingInv, Handling
  <2> QED
    BY <2>2, <2>3
<1> QED
  BY <1>3, <1>4

LEMMA KeysUnderPlatform ==
    ASSUME IInv, PlatformMoves
    PROVE  KeyInv'
<1>1. \A w \in Worker : Sending(w)' => Sending(w) /\ job'[w].key = job[w].key
  BY DEF PlatformMoves, Sending
<1>2. Recorded' = Recorded /\ Rejected' = Rejected
  BY DEF PlatformMoves, Recorded, Rejected, Refunds
<1> QED
  BY <1>1, <1>2 DEF PlatformMoves, IInv, KeyInv, Counted

-----------------------------------------------------------------------------
(* The platform's refunds and events.                                      *)

Platform == [Refund -> PlatformRow]

\* An event that reports refunds as they are now.
Reports(e, now) ==
    /\ e \in Event /\ e.entries # << >>
    /\ \A i \in DOMAIN e.entries :
          \E r \in Refund : now[r].status # "none" /\ e.entries[i] = ReportOf(r, now)

\* What the platform says of a refund is a report.
LEMMA ReportFacts ==
    ASSUME NEW now \in Platform, NEW r \in Refund, now[r].status # "none"
    PROVE  ReportOf(r, now) \in Report
<1>1. now[r] \in PlatformRow
  BY DEF Platform
<1> QED
  BY <1>1 DEF ReportOf, Report, PlatformRow

\* The events the platform sends tell of refunds as they are now.
LEMMA SingleReports ==
    ASSUME NEW now \in Platform, NEW r \in Refund, now[r].status # "none",
           NEW type \in {"refund.created", "refund.failed"}
    PROVE  Reports(Single(type, r, now), now)
<1> DEFINE p == ReportOf(r, now)
           e == Single(type, r, now)
<1>1. p \in Report
  BY ReportFacts
<1> HIDE DEF p
<1>2. e.entries = << p >> /\ e.type = type
  BY DEF Single, p
<1>3. << p >> \in Seq(Report) /\ DOMAIN << p >> = 1 .. 1 /\ << p >>[1] = p /\ << p >> # << >>
  BY <1>1
<1>4. e \in Event
  BY <1>2, <1>3 DEF Event, Single, p
<1> HIDE DEF e
<1>5. Reports(e, now)
  BY <1>2, <1>3, <1>4 DEF Reports, p
<1> QED
  BY <1>5 DEF e

LEMMA ChargeReports ==
    ASSUME NEW now \in Platform, Numbered(now), NEW x \in Refund, now[x].status # "none"
    PROVE  Reports(Charged(now), now)
<1> DEFINE all == {r \in Refund : now[r].status # "none"}
           n == Cardinality(all)
           At(i) == CHOOSE r \in all : now[r].age = n - i + 1
           list == [i \in 1 .. n |-> ReportOf(At(i), now)]
<1>1. IsFiniteSet(all) /\ x \in all
  BY DEF Numbered
<1>2. n \in Nat /\ n # 0
  BY <1>1, FS_CardinalityType, FS_EmptySet
<1>3. ASSUME NEW i \in 1 .. n PROVE At(i) \in all
  <2>1. n - i + 1 \in 1 .. n
    BY <1>2
  <2>2. \E r \in all : now[r].age = n - i + 1
    BY <2>1 DEF Numbered
  <2> QED
    BY <2>2
<1>4. Charged(now).entries = list /\ Charged(now).type = "charge.refunded"
  BY DEF Charged, ChargeEntries
<1> HIDE DEF all, n, At
<1>5. \A i \in 1 .. n : At(i) \in Refund /\ now[At(i)].status # "none"
  BY <1>3 DEF all
<1>6. \A i \in 1 .. n : ReportOf(At(i), now) \in Report
  BY <1>5, ReportFacts
<1>7. list \in [1 .. n -> Report]
  BY <1>6
<1>8. list \in Seq(Report) /\ DOMAIN list = 1 .. n /\ \A i \in 1 .. n : list[i] = ReportOf(At(i), now)
  BY <1>2, <1>7, SeqDef
<1> HIDE DEF list
<1>9. list # << >>
  BY <1>2, <1>8
<1>10. Charged(now) \in Event
  BY <1>4, <1>8 DEF Event, Charged
<1> QED
  BY <1>4, <1>5, <1>8, <1>9, <1>10 DEF Reports

LEMMA CreatedReports ==
    ASSUME NEW now \in Platform, Numbered(now), NEW r \in Refund, now[r].status # "none",
           NEW e \in Created(r, now)
    PROVE  Reports(e, now)
  BY SingleReports, ChargeReports DEF Created

\* Reports of what is so now are true.
LEMMA ReportsAreTrue ==
    ASSUME refund \in Platform, Numbered(refund), NEW e, Reports(e, refund)
    PROVE  e \in Event /\ TrueEvent(e)
<1>1. \A r \in Refund : refund[r].status # "none" => refund[r].proc > 0
  BY DEF Numbered
<1>2. ASSUME NEW i \in DOMAIN e.entries PROVE Told(e.entries[i])
  <2>1. PICK r \in Refund : refund[r].status # "none" /\ e.entries[i] = ReportOf(r, refund)
    BY DEF Reports
  <2> QED
    BY <1>1, <2>1 DEF Told, ReportOf
<1>3. ASSUME NEW i \in DOMAIN e.entries, NEW j \in DOMAIN e.entries,
             e.entries[i].id = e.entries[j].id
      PROVE  e.entries[i] = e.entries[j]
  <2>1. PICK r \in Refund : e.entries[i] = ReportOf(r, refund)
    BY DEF Reports
  <2>2. PICK s \in Refund : e.entries[j] = ReportOf(s, refund)
    BY DEF Reports
  <2>3. r = s
    BY <1>3, <2>1, <2>2 DEF ReportOf
  <2> QED
    BY <2>1, <2>2, <2>3
<1> QED
  BY <1>2, <1>3 DEF Reports, TrueEvent

\* What the platform's own steps do to its refunds and events.
PlatformStays ==
    /\ Grown
    /\ refund' \in Platform /\ Numbered(refund')
    /\ sent \subseteq sent' /\ sent' \subseteq Event
    /\ \A e \in sent' : TrueEvent(e)'

\* A step in which the platform only adds such events keeps its part of the
\* invariant.
LEMMA EventsStay ==
    ASSUME IInv, Grown, refund' \in Platform, Numbered(refund'),
           NEW E, sent' = sent \cup E, \A e \in E : Reports(e, refund')
    PROVE  PlatformStays
<1>1. sent \subseteq Event /\ \A e \in sent : TrueEvent(e)
  BY DEF IInv, TypeOK, PlatformInv
<1>2. ASSUME NEW e \in sent PROVE TrueEvent(e)'
  <2>1. TrueEvent(e) /\ e \in Event
    BY <1>1
  <2>2. ASSUME NEW i \in DOMAIN e.entries PROVE Told(e.entries[i])'
    <3>1. e.entries[i] \in Report
      BY <2>1, EventTypes
    <3>2. /\ e.entries[i].id \in Refund
          /\ e.entries[i].status \in {"PENDING", "SUCCEEDED", "FAILED"}
      BY <3>1 DEF Report
    <3>3. Told(e.entries[i])
      BY <2>1 DEF TrueEvent
    <3> QED
      BY <3>2, <3>3, ToldStays
  <2> QED
    BY <2>1, <2>2 DEF TrueEvent
<1>3. ASSUME NEW e \in E PROVE e \in Event /\ TrueEvent(e)'
  <2>1. Reports(e, refund)'
    BY DEF Reports, ReportOf
  <2>2. (refund \in Platform)' /\ Numbered(refund)'
    BY DEF Numbered
  <2>3. (e \in Event /\ TrueEvent(e))'
    BY <2>1, <2>2, ReportsAreTrue, PTL
  <2> QED
    BY <2>3
<1> QED
  BY <1>1, <1>2, <1>3 DEF PlatformStays

\* Making a refund, and deciding a pending one, are steps of that kind.
LEMMA CreateFacts ==
    ASSUME IInv, NEW r \in Refund, NEW proc \in Nat \ {0}, NEW status \in Outcomes,
           NEW details \in BOOLEAN, Create(r, proc, status, details)
    PROVE  /\ PlatformStays
           /\ refund'[r].status = status /\ refund'[r].proc = proc
<1> DEFINE row == [status |-> status, proc |-> proc, details |-> details,
                   age |-> Cardinality(Existing) + 1]
           now == [refund EXCEPT ![r] = row]
           all == {x \in Refund : now[x].status # "none"}
<1>1. refund \in Platform /\ Numbered(refund)
  BY DEF IInv, TypeOK, PlatformInv, Platform
<1>2. /\ refund[r].status = "none"
      /\ refund' = now
      /\ sent' = sent \cup Created(r, now)
  BY DEF Create
<1>3. status \in {"PENDING", "SUCCEEDED", "FAILED"}
  BY ConstantsAssumption
<1>4. IsFiniteSet(Existing) /\ Cardinality(Existing) \in Nat
  BY <1>1, FS_CardinalityType DEF Numbered, Existing
<1>5. row \in PlatformRow /\ row.status = status /\ row.proc = proc
      /\ row.age = Cardinality(Existing) + 1
  BY <1>3, <1>4 DEF PlatformRow
<1> HIDE DEF row
<1>6. now \in Platform /\ now[r] = row /\ \A x \in Refund \ {r} : now[x] = refund[x]
  BY <1>1, <1>5 DEF Platform
<1> HIDE DEF now
<1>7. all = Existing \cup {r} /\ r \notin Existing
  BY <1>2, <1>3, <1>5, <1>6 DEF Existing
<1>8. IsFiniteSet(all) /\ Cardinality(all) = Cardinality(Existing) + 1
  BY <1>4, <1>7, FS_AddElement
<1>9. ASSUME NEW n \in 1 .. Cardinality(all) PROVE \E x \in all : now[x].age = n
  <2>1. CASE n = Cardinality(Existing) + 1
    BY <1>5, <1>6, <1>7, <2>1
  <2>2. CASE n # Cardinality(Existing) + 1
    <3>1. n \in 1 .. Cardinality(Existing)
      BY <1>4, <1>8, <2>2
    <3>2. PICK x \in Existing : refund[x].age = n
      BY <1>1, <3>1 DEF Numbered, Existing
    <3> QED
      BY <1>6, <1>7, <3>2 DEF Existing
  <2> QED
    BY <2>1, <2>2
<1>10. \A x \in all : now[x].proc > 0
  BY <1>1, <1>5, <1>6, <1>7 DEF Numbered, Existing
<1>11. Numbered(now)
  BY <1>8, <1>9, <1>10 DEF Numbered
<1>12. Grown
  BY <1>2, <1>6 DEF Grown
<1>13. \A e \in Created(r, now) : Reports(e, now)
  BY <1>3, <1>5, <1>6, <1>11, CreatedReports
<1>14. PlatformStays
  BY <1>2, <1>6, <1>11, <1>12, <1>13, EventsStay
<1> QED
  BY <1>2, <1>5, <1>6, <1>14

LEMMA ResolveFacts ==
    ASSUME IInv, NEW r \in Refund, NEW status \in {"SUCCEEDED", "FAILED"}, Resolve(r, status)
    PROVE  PlatformStays
<1> DEFINE row == [refund[r] EXCEPT !.status = status]
           now == [refund EXCEPT ![r] = row]
<1>1. refund \in Platform /\ Numbered(refund)
  BY DEF IInv, TypeOK, PlatformInv, Platform
<1>2. /\ refund[r].status = "PENDING"
      /\ refund' = now
      /\ sent' = sent \cup {IF status = "FAILED" THEN Single("refund.failed", r, now)
                            ELSE Charged(now)}
  BY DEF Resolve
<1>3. refund[r] \in PlatformRow
  BY <1>1 DEF Platform
<1>4. /\ row \in PlatformRow /\ row.status = status
      /\ row.proc = refund[r].proc /\ row.age = refund[r].age
  BY <1>3 DEF PlatformRow
<1> HIDE DEF row
<1>5. now \in Platform /\ now[r] = row /\ \A x \in Refund \ {r} : now[x] = refund[x]
  BY <1>1, <1>4 DEF Platform
<1> HIDE DEF now
<1>6. {x \in Refund : now[x].status # "none"} = {x \in Refund : refund[x].status # "none"}
  BY <1>2, <1>4, <1>5
<1>7. \A x \in Refund : now[x].proc = refund[x].proc /\ now[x].age = refund[x].age
  BY <1>4, <1>5
<1>8. Numbered(now)
  BY <1>1, <1>6, <1>7 DEF Numbered
<1>9. Grown
  BY <1>2, <1>4, <1>5 DEF Grown
<1>10. now[r].status # "none"
  BY <1>4, <1>5
<1>11. Reports(Single("refund.failed", r, now), now) /\ Reports(Charged(now), now)
  BY <1>5, <1>8, <1>10, SingleReports, ChargeReports
<1> DEFINE told == {IF status = "FAILED" THEN Single("refund.failed", r, now) ELSE Charged(now)}
<1>12. \A e \in told : Reports(e, now)
  BY <1>11
<1>13. sent' = sent \cup told
  BY <1>2
<1> HIDE DEF told
<1> QED
  BY <1>2, <1>5, <1>8, <1>9, <1>12, <1>13, EventsStay

-----------------------------------------------------------------------------
(* The platform's steps preserve the invariant.                            *)

\* What they owe: their refunds, events and answers, and the job they answer.
LEMMA PlatformPreserves ==
    ASSUME IInv, PlatformMoves, refund' \in Platform, Numbered(refund'),
           sent' \subseteq Event, \A e \in sent' : TrueEvent(e)',
           job' \in [Worker -> Job],
           answers' \subseteq Key \X Answer, \A a \in answers' : TrueAnswer(a[2])'
    PROVE  IInv'
<1>1. TypeOK'
  BY DEF IInv, TypeOK, PlatformMoves, Platform
<1>2. PlatformInv'
  BY DEF PlatformInv, Numbered
<1> QED
  BY <1>1, <1>2, StoreUnderPlatform, WorkUnderPlatform, KeysUnderPlatform DEF IInv

\* Answers once given stay true.
LEMMA AnswersStay ==
    ASSUME IInv, Grown
    PROVE  \A a \in answers : TrueAnswer(a[2])'
<1> SUFFICES ASSUME NEW a \in answers PROVE TrueAnswer(a[2])'
  OBVIOUS
<1>1. a[2] \in Answer /\ TrueAnswer(a[2])
  BY DEF IInv, TypeOK, PlatformInv
<1> QED
  BY <1>1, AnswerStays

\* A platform step that leaves the requests and the answers alone.
LEMMA QuietPreserves ==
    ASSUME IInv, PlatformStays, UNCHANGED <<store, answers>>
    PROVE  IInv'
<1>1. PlatformMoves
  BY DEF PlatformMoves, PlatformStays, store
<1>2. job' \in [Worker -> Job] /\ answers' \subseteq Key \X Answer
  BY DEF IInv, TypeOK, store
<1>3. \A a \in answers' : TrueAnswer(a[2])'
  BY AnswersStay DEF PlatformStays
<1> QED
  BY <1>1, <1>2, <1>3, PlatformPreserves DEF PlatformStays

\* The answered job.
Answered(w, answer) == [step |-> "answered", child |-> job[w].child, amount |-> job[w].amount,
                        key |-> job[w].key, answer |-> answer]

\* A request that has its answer is a request.
LEMMA AnsweredType ==
    ASSUME IInv, NEW w \in Worker, job[w].step = "posting", NEW answer \in Answer
    PROVE  /\ [job EXCEPT ![w] = Answered(w, answer)] \in [Worker -> Job]
           /\ job[w].key \in Key
<1>1. job \in [Worker -> Job]
  BY DEF IInv, TypeOK
<1>2. job[w].child \in Child /\ job[w].amount \in Nat /\ job[w].key \in Key
  BY <1>1, JobTypes DEF Sending
<1>3. Answered(w, answer) \in Job
  BY <1>2 DEF Answered, Job
<1> QED
  BY <1>1, <1>2, <1>3

\* An answer given, with the refund it is about or none.
LEMMA AnswerPreserves ==
    ASSUME IInv, NEW w \in Worker, job[w].step = "posting", NEW answer \in Answer,
           PlatformStays, TrueAnswer(answer)', PlatformAnswer(w, answer)
    PROVE  IInv'
<1>1. /\ job' = [job EXCEPT ![w] = Answered(w, answer)]
      /\ answers' = answers \cup {<<job[w].key, answer>>}
      /\ UNCHANGED <<child, seen, lock, flagged, acked>>
  BY DEF PlatformAnswer, Answered
<1>2. job' \in [Worker -> Job] /\ job[w].key \in Key
  BY <1>1, AnsweredType
<1>3. job'[w] = Answered(w, answer) /\ \A v \in Worker \ {w} : job'[v] = job[v]
  BY <1>1 DEF IInv, TypeOK
<1>4. TrueAnswer(job[w].answer)'
  BY <1>3 DEF Answered
<1>5. PlatformMoves
  BY <1>1, <1>3, <1>4 DEF PlatformMoves, PlatformStays, Answered
<1>6. answers' \subseteq Key \X Answer
  BY <1>1, <1>2 DEF IInv, TypeOK
<1>7. \A a \in answers' : TrueAnswer(a[2])'
  <2>1. \A a \in answers : TrueAnswer(a[2])'
    BY AnswersStay DEF PlatformStays
  <2>2. <<job[w].key, answer>>[2] = answer
    OBVIOUS
  <2> QED
    BY <1>1, <2>1, <2>2
<1> QED
  BY <1>2, <1>5, <1>6, <1>7, PlatformPreserves DEF PlatformStays

\* A step that leaves the platform alone keeps its part of the invariant.
LEMMA UnchangedPlatform ==
    ASSUME IInv, refund' = refund, sent' = sent
    PROVE  PlatformStays
<1>1. refund \in Platform /\ Numbered(refund) /\ sent \subseteq Event /\ \A e \in sent : TrueEvent(e)
  BY DEF IInv, TypeOK, PlatformInv, Platform
<1>2. \A e \in sent : TrueEvent(e)'
  BY <1>1 DEF TrueEvent, Told
<1> QED
  BY <1>1, <1>2 DEF PlatformStays, Grown

LEMMA PlatformReplayPreserves ==
    ASSUME IInv, NEW w \in Worker, PlatformReplay(w)
    PROVE  IInv'
<1>1. PICK a \in answers :
          /\ a[1] = job[w].key
          /\ job' = [job EXCEPT ![w] = Answered(w, a[2])]
  BY DEF PlatformReplay, Answered
<1>2. /\ job[w].step = "posting"
      /\ UNCHANGED <<child, seen, lock, flagged, acked, refund, answers, sent>>
  BY DEF PlatformReplay, platform
<1>3. a[2] \in Answer
  BY DEF IInv, TypeOK
<1>4. PlatformStays
  BY <1>2, UnchangedPlatform
<1>5. TrueAnswer(a[2])'
  BY <1>4, AnswersStay DEF PlatformStays
<1>6. job' \in [Worker -> Job]
  BY <1>1, <1>2, <1>3, AnsweredType
<1>7. job'[w] = Answered(w, a[2]) /\ \A v \in Worker \ {w} : job'[v] = job[v]
  BY <1>1 DEF IInv, TypeOK
<1>8. TrueAnswer(job[w].answer)'
  BY <1>5, <1>7 DEF Answered
<1>9. PlatformMoves
  BY <1>2, <1>4, <1>7, <1>8 DEF PlatformMoves, PlatformStays, Answered
<1>10. answers' \subseteq Key \X Answer /\ \A b \in answers' : TrueAnswer(b[2])'
  BY <1>2, <1>4, AnswersStay DEF IInv, TypeOK, PlatformStays
<1> QED
  BY <1>4, <1>6, <1>9, <1>10, PlatformPreserves DEF PlatformStays

LEMMA PlatformRefusePreserves ==
    ASSUME IInv, NEW w \in Worker, PlatformRefuse(w)
    PROVE  IInv'
<1>1. Refusal \in Answer
  BY DEF Refusal, Answer
<1>2. PlatformStays
  BY UnchangedPlatform DEF PlatformRefuse
<1>3. TrueAnswer(Refusal)'
  BY DEF TrueAnswer
<1> QED
  BY <1>1, <1>2, <1>3, AnswerPreserves DEF PlatformRefuse

\* What the platform answers of a refund it has just made.
LEMMA FreshAnswer ==
    ASSUME NEW r \in Refund, NEW proc \in Nat \ {0}, NEW status \in Outcomes,
           refund'[r].status = status, refund'[r].proc = proc
    PROVE  /\ [id |-> r, status |-> status, proc |-> proc] \in Answer
           /\ TrueAnswer([id |-> r, status |-> status, proc |-> proc])'
<1>1. status \in {"PENDING", "SUCCEEDED", "FAILED"} /\ r # None
  BY ConstantsAssumption
<1> QED
  BY <1>1 DEF Answer, TrueAnswer, Told

LEMMA PlatformRefundPreserves ==
    ASSUME IInv, NEW w \in Worker, NEW r \in Refund, NEW status \in Outcomes,
           PlatformRefund(w, r, status)
    PROVE  IInv'
<1>1. PICK proc \in 1 .. Balance :
          /\ Create(r, proc, status, TRUE)
          /\ PlatformAnswer(w, [id |-> r, status |-> status, proc |-> proc])
  BY DEF PlatformRefund
<1>2. proc \in Nat \ {0}
  OBVIOUS
<1>3. PlatformStays /\ refund'[r].status = status /\ refund'[r].proc = proc
  BY <1>1, <1>2, CreateFacts
<1> QED
  BY <1>1, <1>2, <1>3, FreshAnswer, AnswerPreserves DEF PlatformRefund

LEMMA PlatformLatePreserves ==
    ASSUME IInv, NEW c \in Child, NEW r \in Refund, NEW status \in Outcomes,
           PlatformLate(c, r, status)
    PROVE  IInv'
<1> DEFINE key == child[c].key
           answer == [id |-> r, status |-> status, proc |-> key.proc]
<1>1. /\ key # None /\ key.proc \in 1 .. Balance
      /\ Create(r, key.proc, status, TRUE)
      /\ answers' = answers \cup {<<key, answer>>}
      /\ UNCHANGED <<child, seen, lock, job, flagged, acked>>
  BY DEF PlatformLate, store
<1>2. key.proc \in Nat \ {0} /\ key \in Key
  BY <1>1 DEF IInv, TypeOK, Row
<1>3. PlatformStays /\ refund'[r].status = status /\ refund'[r].proc = key.proc
  BY <1>1, <1>2, CreateFacts
<1>4. answer \in Answer
  BY <1>2, <1>3, FreshAnswer
<1>5. ASSUME NEW a \in answers' PROVE TrueAnswer(a[2])'
  <2>1. CASE a \in answers
    BY <1>3, <2>1, AnswersStay DEF PlatformStays
  <2>2. CASE a = <<key, answer>>
    <3>1. TrueAnswer(answer)'
      <4> DEFINE proc == key.proc
      <4>1. proc \in Nat \ {0} /\ refund'[r].proc = proc /\ UNCHANGED proc
        BY <1>1, <1>2, <1>3
      <4> QED
        BY <1>3, <4>1, FreshAnswer
    <3> QED
      BY <1>1, <2>2, <3>1
  <2> QED
    BY <1>1, <2>1, <2>2
<1>6. PlatformMoves
  BY <1>1, <1>3 DEF PlatformMoves, PlatformStays
<1>7. answers' \subseteq Key \X Answer
  BY <1>1, <1>2, <1>4 DEF IInv, TypeOK
<1>8. job' \in [Worker -> Job]
  BY <1>1 DEF IInv, TypeOK
<1> QED
  BY <1>3, <1>5, <1>6, <1>7, <1>8, PlatformPreserves DEF PlatformStays

LEMMA DashboardRefundPreserves ==
    ASSUME IInv, NEW r \in Refund, NEW proc \in 1 .. SourceProcessing, NEW details \in BOOLEAN,
           DashboardRefund(r, proc, details)
    PROVE  IInv'
<1>1. PICK status \in Outcomes : Create(r, proc, status, details)
  BY DEF DashboardRefund
<1>2. PlatformStays
  BY <1>1, CreateFacts
<1> QED
  BY <1>2, QuietPreserves DEF DashboardRefund

LEMMA ResolvePreserves ==
    ASSUME IInv, NEW r \in Refund, NEW status \in {"SUCCEEDED", "FAILED"}, Resolve(r, status)
    PROVE  IInv'
<1>1. PlatformStays
  BY ResolveFacts
<1> QED
  BY <1>1, QuietPreserves DEF Resolve

-----------------------------------------------------------------------------
(* A step of one request.                                                  *)

\* Nothing of request v is in the way of a write of child c.
Clear(v, c) ==
    /\ Sending(v) => job[v].child # c
    /\ Handling(v) => job[v].rows[c] = None

\* What a step of request w may do: it moves children on that no other
\* request has in hand, and leaves the others their jobs and locks.
OwnMoves(w) ==
    /\ UNCHANGED platform
    /\ child' \in [Child -> Row]
    /\ \A c \in Child : child'[c] # child[c] =>
          /\ Later(child[c], child'[c])
          /\ \A v \in Worker \ {w} : Clear(v, c)
    /\ flagged \subseteq flagged'
    /\ \A v \in Worker \ {w} : job'[v] = job[v]
    /\ \A v \in Worker \ {w}, l \in Child \cup {Source} : lock[l] = v => lock'[l] = v

\* The lock that guards a child is its own or the source's.
LEMMA GuardIsLock ==
    ASSUME NEW c \in Child
    PROVE  Guard(c) \in Child \cup {Source}
  BY DEF Guard

\* What one request writes disturbs no other: every row it may write is guarded
\* by a lock it holds.
LEMMA OthersKeep ==
    ASSUME IInv, NEW w \in Worker, OwnMoves(w), NEW v \in Worker \ {w}
    PROVE  SendingInv(v)' /\ HandlingInv(v)'
<1>1. SendingInv(v) /\ HandlingInv(v) /\ TypeOK
  BY DEF IInv
<1>2. job \in [Worker -> Job] /\ child \in [Child -> Row]
  BY <1>1 DEF TypeOK
<1>3. /\ job'[v] = job[v]
      /\ UNCHANGED <<refund, sent>>
      /\ flagged \subseteq flagged'
      /\ \A l \in Child \cup {Source} : lock[l] = v => lock'[l] = v
      /\ \A c \in Child : child'[c] # child[c] => Later(child[c], child'[c]) /\ Clear(v, c)
  BY DEF OwnMoves, platform
<1>4. Source \in Child \cup {Source}
  BY ConstantFacts
<1>5. SendingInv(v)'
  <2> SUFFICES ASSUME Sending(v) PROVE SendingInv(v)'
    BY <1>3 DEF SendingInv, Sending
  <2>1. job[v].child \in Child
    BY <1>2, JobTypes
  <2>2. child'[job[v].child] = child[job[v].child]
    BY <1>3, <2>1 DEF Clear
  <2>3. job[v].step = "answered" => TrueAnswer(job[v].answer)'
    BY <1>1, <1>3 DEF SendingInv, TrueAnswer, Told
  <2> QED
    BY <1>1, <1>3, <1>4, <2>2, <2>3 DEF SendingInv
<1>6. HandlingInv(v)'
  <2> SUFFICES ASSUME Handling(v) PROVE HandlingInv(v)'
    BY <1>3 DEF HandlingInv, Handling
  <2>1. job[v].rows \in [Child -> Row \cup {None}]
    BY <1>2, JobTypes
  <2>2. FlagsOf(v)' = flagged' \cup job[v].flags /\ FlagsOf(v) \subseteq FlagsOf(v)'
    BY <1>3 DEF FlagsOf
  <2>3. View(v)' = [c \in Child |-> IF job[v].rows[c] # None THEN job[v].rows[c] ELSE child'[c]]
    BY <1>3 DEF View
  <2>4. Onward(View(v), View(v)')
    <3> SUFFICES ASSUME NEW c \in Child
                 PROVE  View(v)'[c] = View(v)[c] \/ Later(View(v)[c], View(v)'[c])
      BY DEF Onward
    <3> QED
      BY <1>3, <2>3 DEF View
  <2>5. OverlayInv(v)'
    <3> SUFFICES ASSUME NEW c \in Child, job[v].rows[c] # None
                 PROVE  /\ lock'[Guard(c)'] = v
                        /\ Later(child'[c], job[v].rows[c])
                        /\ child'[c].state = "absent" => job[v].rows[c].key = None
                        /\ RowOk(job[v].rows[c])'
                        /\ RecordOk(job[v].rows[c], FlagsOf(v))'
                        /\ Len(job[v].rows[c].processed) <= ProcessedCap
      BY <1>3 DEF OverlayInv, Later
    <3>1. child'[c] = child[c]
      BY <1>3 DEF Clear
    <3>2. Guard(c)' = Guard(c)
      BY <3>1 DEF Guard
    <3>3. /\ lock[Guard(c)] = v
          /\ Later(child[c], job[v].rows[c])
          /\ child[c].state = "absent" => job[v].rows[c].key = None
          /\ RowOk(job[v].rows[c]) /\ RecordOk(job[v].rows[c], FlagsOf(v))
          /\ Len(job[v].rows[c].processed) <= ProcessedCap
      BY <1>1 DEF HandlingInv, OverlayInv
    <3>4. lock'[Guard(c)'] = v
      BY <1>3, <3>2, <3>3, GuardIsLock
    <3>5. RowOk(job[v].rows[c])'
      BY <1>3, <3>3 DEF RowOk
    <3>6. RecordOk(job[v].rows[c], FlagsOf(v))'
      BY <1>3, <2>2, <3>3 DEF RecordOk
    <3> QED
      BY <3>1, <3>3, <3>4, <3>5, <3>6
  <2>6. ASSUME NEW p \in Report, Covered(p, View(v), FlagsOf(v))
        PROVE  Covered(p, View(v), FlagsOf(v))'
    <3>1. p.id # None
      BY ConstantFacts DEF Report
    <3>2. Covered(p, View(v)', FlagsOf(v)')
      BY <2>2, <2>4, <2>6, <3>1, CoveredStays
    <3> QED
      BY <3>2 DEF Covered
  <2>7. job[v].seen # None => SeenOk(job[v].seen, View(v), FlagsOf(v))'
    <3> SUFFICES ASSUME job[v].seen # None
                 PROVE  SeenOk(job[v].seen, View(v), FlagsOf(v))'
      OBVIOUS
    <3>1. job[v].seen \in Seq(Seen) /\ SeenOk(job[v].seen, View(v), FlagsOf(v))
      BY <1>1, <1>2, JobTypes DEF HandlingInv
    <3>2. SeenOk(job[v].seen, View(v)', FlagsOf(v)')
      BY <2>2, <2>4, <3>1, SeenStays
    <3> QED
      BY <1>3, <3>2 DEF SeenOk, Covered
  <2>8. ASSUME job[v].step = "found", job[v].target # None
        PROVE  View(v)'[job[v].target].provider_reference = job[v].todo[1].id
    <3>1. /\ job[v].target \in Child
          /\ View(v)[job[v].target].provider_reference = job[v].todo[1].id
      BY <1>1, <1>2, <2>8, JobTypes DEF HandlingInv
    <3>2. job[v].todo[1] \in Report
      <4>1. job[v].todo \in Seq(Report) /\ job[v].todo # << >>
        BY <1>1, <1>2, JobTypes DEF HandlingInv
      <4> QED
        BY <4>1
    <3>3. job[v].todo[1].id # None
      BY <3>2, ConstantFacts DEF Report
    <3> QED
      BY <2>4, <3>1, <3>3 DEF Onward, Later
  <2>9. \A i \in DOMAIN job[v].event.entries :
            \/ \E j \in DOMAIN job[v].todo : job[v].todo[j] = job[v].event.entries[i]
            \/ Covered(job[v].event.entries[i], View(v), FlagsOf(v))'
    <3> SUFFICES ASSUME NEW i \in DOMAIN job[v].event.entries,
                        ~\E j \in DOMAIN job[v].todo : job[v].todo[j] = job[v].event.entries[i]
                 PROVE  Covered(job[v].event.entries[i], View(v), FlagsOf(v))'
      OBVIOUS
    <3>1. Covered(job[v].event.entries[i], View(v), FlagsOf(v))
      BY <1>1 DEF HandlingInv
    <3>2. job[v].event.entries[i] \in Report
      BY <1>2, JobTypes, EventTypes
    <3>3. job'[v].event = job[v].event
      BY <1>3
    <3> QED
      BY <2>6, <3>1, <3>2, <3>3
  <2> QED
    BY <1>1, <1>3, <1>4, <2>5, <2>7, <2>8, <2>9 DEF HandlingInv
<1> QED
  BY <1>5, <1>6

\* Sets of children, and what may be counted of them.
LEMMA CardGrows ==
    ASSUME NEW S \in SUBSET Child, NEW T \in SUBSET Child, S \subseteq T
    PROVE  /\ Cardinality(S) \in Nat /\ Cardinality(T) \in Nat
           /\ Cardinality(S) <= Cardinality(T)
           /\ \A x \in T \ S : Cardinality(S) < Cardinality(T)
<1>1. IsFiniteSet(S) /\ IsFiniteSet(T) /\ Cardinality(S) \in Nat /\ Cardinality(T) \in Nat
  BY ChildFinite
<1>2. Cardinality(S) <= Cardinality(T)
  BY <1>1, FS_Subset
<1>3. ASSUME NEW x \in T \ S PROVE Cardinality(S) < Cardinality(T)
  <2>1. Cardinality(S) = Cardinality(T) => S = T
    BY <1>1, FS_Subset
  <2> QED
    BY <1>1, <1>2, <1>3, <2>1
<1> QED
  BY <1>1, <1>2, <1>3

\* The numbers of completed and of refused children never go down, and go up with
\* each child that becomes one: keys made of them are not used again.
LEMMA CountsGrow ==
    ASSUME child \in [Child -> Row], child' \in [Child -> Row], Onward(child, child')
    PROVE  /\ Recorded \in Nat /\ Recorded' \in Nat /\ Recorded <= Recorded'
           /\ Rejected \in Nat /\ Rejected' \in Nat /\ Rejected <= Rejected'
           /\ \A c \in Child : child'[c].state = "done" /\ child[c].state # "done" =>
                 Recorded < Recorded'
           /\ \A c \in Child : child'[c].rejected /\ ~child[c].rejected => Rejected < Rejected'
<1> DEFINE D == Refunds("done")
           E == {c \in Child : child'[c].state = "done"}
           R == {c \in Child : child[c].rejected}
           Q == {c \in Child : child'[c].rejected}
<1>1. D \subseteq E /\ R \subseteq Q
  BY DEF Onward, Later, Refunds
<1>2. D \in SUBSET Child /\ E \in SUBSET Child /\ R \in SUBSET Child /\ Q \in SUBSET Child
  BY DEF Refunds
<1>3. /\ Recorded = Cardinality(D) /\ Recorded' = Cardinality(E)
      /\ Rejected = Cardinality(R) /\ Rejected' = Cardinality(Q)
  BY DEF Recorded, Rejected, Refunds
<1>4. \A c \in Child : /\ child'[c].state = "done" /\ child[c].state # "done" => c \in E \ D
                       /\ child'[c].rejected /\ ~child[c].rejected => c \in Q \ R
  BY DEF Refunds
<1> HIDE DEF D, E, R, Q
<1> QED
  BY <1>1, <1>2, <1>3, <1>4, CardGrows

\* Keys stay behind the counts.
LEMMA KeysKeep ==
    ASSUME IInv, NEW w \in Worker, OwnMoves(w),
           \A c \in Child : child[c].state = "absent" /\ child'[c].key # None =>
               child'[c] = child[c] \/ Counted(child'[c].key),
           Sending(w)' => Counted(job[w].key)'
    PROVE  KeyInv'
<1>1. child \in [Child -> Row] /\ child' \in [Child -> Row] /\ job \in [Worker -> Job] /\ KeyInv
  BY DEF IInv, TypeOK, OwnMoves
<1>2. Onward(child, child')
  BY DEF OwnMoves, Onward
<1>3. /\ Recorded \in Nat /\ Recorded' \in Nat /\ Recorded <= Recorded'
      /\ Rejected \in Nat /\ Rejected' \in Nat /\ Rejected <= Rejected'
      /\ \A c \in Child : child'[c].state = "done" /\ child[c].state # "done" =>
            Recorded < Recorded'
      /\ \A c \in Child : child'[c].rejected /\ ~child[c].rejected => Rejected < Rejected'
  BY <1>1, <1>2, CountsGrow
<1>4. \A key \in Key : /\ key.recorded \in Nat /\ key.rejected \in Nat
                       /\ Counted(key) => key.recorded <= Recorded' /\ key.rejected <= Rejected'
  BY <1>3 DEF Key, Counted
<1>5. ASSUME NEW c \in Child, child'[c].key # None
      PROVE  /\ Counted(child[c].key)'
             /\ child'[c].state = "done" => child'[c].key.recorded < Recorded'
             /\ child'[c].rejected => child'[c].key.rejected < Rejected'
  <2>1. child'[c].key \in Key /\ child[c].key \in Key \cup {None}
    BY <1>1, <1>5 DEF Row
  <2>2. /\ RowOk(child[c])
        /\ child[c].key # None =>
              /\ Counted(child[c].key)
              /\ child[c].state = "done" => child[c].key.recorded < Recorded
              /\ child[c].rejected => child[c].key.rejected < Rejected
    BY <1>1 DEF IInv, StoreInv, KeyInv
  <2>3. CASE child'[c].key = child[c].key
    BY <1>3, <1>4, <1>5, <2>1, <2>2, <2>3 DEF Counted
  <2>4. CASE child'[c].key # child[c].key
    <3>1. child[c].state = "absent" /\ Counted(child'[c].key)
      BY <1>2, <1>5, <2>4 DEF Onward, Later
    <3>2. child[c].state # "done" /\ ~child[c].rejected
      BY <2>2, <3>1 DEF RowOk
    <3> QED
      BY <1>3, <1>4, <2>1, <3>1, <3>2 DEF Counted
  <2> QED
    BY <2>3, <2>4
<1>6. ASSUME NEW v \in Worker, Sending(v)' PROVE Counted(job[v].key)'
  <2>1. CASE v = w
    BY <1>6, <2>1
  <2>2. CASE v # w
    <3>1. job'[v] = job[v] /\ Sending(v)
      BY <1>6, <2>2 DEF OwnMoves, Sending
    <3>2. job[v].key \in Key /\ Counted(job[v].key)
      BY <1>1, <3>1, JobTypes DEF KeyInv
    <3> QED
      BY <1>4, <3>1, <3>2 DEF Counted
  <2> QED
    BY <2>1, <2>2
<1> QED
  BY <1>5, <1>6 DEF KeyInv

\* What is committed stays in order when what is written is.
LEMMA StoreKeeps ==
    ASSUME IInv, NEW w \in Worker, OwnMoves(w),
           \A c \in Child : child'[c] # child[c] =>
               RowOk(child'[c]) /\ RecordOk(child'[c], flagged'),
           UNCHANGED <<seen, acked>>
    PROVE  StoreInv'
<1>1. /\ StoreInv /\ child \in [Child -> Row] /\ child' \in [Child -> Row]
      /\ seen \in Seq(Seen) /\ flagged \subseteq flagged' /\ refund' = refund /\ sent' = sent
      /\ acked \subseteq Event
  BY DEF IInv, TypeOK, OwnMoves, platform
<1>2. Onward(child, child')
  BY DEF OwnMoves, Onward
<1>3. ASSUME NEW c \in Child PROVE RowOk(child[c])' /\ RecordOk(child[c], flagged)'
  <2>1. RowOk(child[c]) /\ RecordOk(child[c], flagged')
    BY <1>1, RecordStays DEF StoreInv
  <2>2. RowOk(child'[c]) /\ RecordOk(child'[c], flagged')
    BY <2>1
  <2>3. RowOk(child[c])'
    BY <1>1, <2>2 DEF RowOk
  <2>4. RecordOk(child[c], flagged)'
    BY <1>1, <2>2 DEF RecordOk
  <2> QED
    BY <2>3, <2>4
<1>4. SeenOk(seen, child, flagged)'
  <2>1. SeenOk(seen, child', flagged')
    BY <1>1, <1>2, SeenStays DEF StoreInv
  <2> QED
    BY <1>1, <2>1 DEF SeenOk, Covered
<1>5. AckedRefundOnRecord'
  <2> SUFFICES ASSUME NEW e \in acked, NEW i \in 1 .. Len(e.entries),
                      e.entries[i].status = "SUCCEEDED"
               PROVE  OnRecord(e.entries[i].id)'
    BY DEF AckedRefundOnRecord
  <2>1. e.entries[i].id # None
    BY <1>1, EventTypes, ConstantFacts DEF Report
  <2>2. OnRecord(e.entries[i].id)
    BY <1>1 DEF StoreInv, AckedRefundOnRecord
  <2> QED
    BY <1>1, <1>2, <2>1, <2>2 DEF OnRecord, Onward, Later
<1> QED
  BY <1>3, <1>4, <1>5 DEF StoreInv

\* A request's step, all told.
LEMMA OwnPreserves ==
    ASSUME IInv, NEW w \in Worker, OwnMoves(w), TypeOK', StoreInv', KeyInv',
           SendingInv(w)', HandlingInv(w)'
    PROVE  IInv'
<1>1. PlatformInv'
  BY DEF IInv, PlatformInv, OwnMoves, platform, TrueEvent, TrueAnswer, Told, Numbered
<1>2. \A v \in Worker : SendingInv(v)' /\ HandlingInv(v)'
  BY OthersKeep
<1> QED
  BY <1>1, <1>2 DEF IInv

\* A step that writes no row.
LEMMA NoWritePreserves ==
    ASSUME IInv, NEW w \in Worker, UNCHANGED <<child, seen, flagged, acked, platform>>,
           NEW j \in Job, job' = [job EXCEPT ![w] = j],
           lock' \in [Child \cup {Source} -> Worker \cup {None}],
           \A v \in Worker \ {w}, l \in Child \cup {Source} : lock[l] = v => lock'[l] = v,
           SendingInv(w)', HandlingInv(w)', Sending(w)' => Counted(job[w].key)'
    PROVE  IInv'
<1>1. TypeOK
  BY DEF IInv
<1>2. \A v \in Worker \ {w} : job'[v] = job[v]
  BY <1>1 DEF TypeOK
<1>3. OwnMoves(w)
  BY <1>1, <1>2 DEF OwnMoves, TypeOK
<1>4. TypeOK'
  BY <1>1 DEF TypeOK, platform
<1>5. StoreInv'
  BY <1>3, StoreKeeps
<1>6. KeyInv'
  BY <1>3, KeysKeep
<1> QED
  BY <1>3, <1>4, <1>5, <1>6, OwnPreserves

-----------------------------------------------------------------------------
(* The requests' steps that write no row.                                  *)

LEMMA AbortPreserves ==
    ASSUME IInv, NEW w \in Worker, Abort(w)
    PROVE  IInv'
<1>1. /\ lock' = [l \in DOMAIN lock |-> IF lock[l] = w THEN None ELSE lock[l]]
      /\ job' = [job EXCEPT ![w] = Idle]
      /\ UNCHANGED <<child, seen, flagged, acked, platform>>
  BY DEF Abort
<1>2. /\ lock \in [Child \cup {Source} -> Worker \cup {None}]
      /\ job \in [Worker -> Job]
  BY DEF IInv, TypeOK
<1>3. Idle \in Job
  BY DEF Idle, Job
<1>4. lock' \in [Child \cup {Source} -> Worker \cup {None}]
  BY <1>1, <1>2
<1>5. \A v \in Worker \ {w}, l \in Child \cup {Source} : lock[l] = v => lock'[l] = v
  BY <1>1, <1>2
<1>6. job'[w].step = "idle"
  BY <1>1, <1>2 DEF Idle
<1>7. ~Sending(w)' /\ SendingInv(w)' /\ HandlingInv(w)'
  BY <1>6 DEF Sending, Handling, SendingInv, HandlingInv
<1> QED
  BY <1>1, <1>3, <1>4, <1>5, <1>7, NoWritePreserves

LEMMA LockBusyPreserves ==
    ASSUME IInv, NEW w \in Worker, LockBusy(w)
    PROVE  IInv'
  BY AbortPreserves DEF LockBusy

\* The two conversions stay in the natural numbers.
LEMMA DivType ==
    ASSUME NEW a \in Nat, NEW b \in Nat \ {0}
    PROVE  a \div b \in Nat
  OBVIOUS

\* Products and conversions of amounts are amounts.
LEMMA TimesType ==
    ASSUME NEW a \in Nat, NEW b \in Nat
    PROVE  a * b \in Nat
  OBVIOUS

LEMMA MoneyTypes ==
    ASSUME NEW n \in Nat
    PROVE  Convert(n) \in Nat /\ Present(n) \in Nat
<1>1. RateNum \in Nat \ {0} /\ RateDen \in Nat \ {0}
  BY ConstantsAssumption
<1>2. n * RateNum \in Nat /\ n * RateDen \in Nat
  BY <1>1, TimesType
<1>3. (n * RateNum) \div RateDen \in Nat /\ (n * RateDen) \div RateNum \in Nat
  BY <1>1, <1>2, DivType
<1> QED
  BY <1>3 DEF Convert, Present

\* The key of a request made now.
LEMMA KeyTypes ==
    ASSUME child \in [Child -> Row], NEW amount \in Nat
    PROVE  RefundKey(amount) \in Key /\ Counted(RefundKey(amount))
<1>1. Refunds("done") \in SUBSET Child /\ {c \in Child : child[c].rejected} \in SUBSET Child
  BY DEF Refunds
<1>2. Recorded \in Nat /\ Rejected \in Nat
  BY <1>1, ChildFinite DEF Recorded, Rejected
<1> DEFINE f == [c \in Child |-> child[c].proc]
<1>3. \A c \in Child : f[c] \in Int
  BY DEF Row
<1> HIDE DEF f
<1>4. SumFunctionOnSet(f, Refunds("done")) \in Int
  BY <1>1, <1>3, ChildFinite, SumType
<1>5. ProcOf(Refunds("done")) \in Int
  BY <1>4 DEF ProcOf, f
<1>6. Convert(amount) \in Nat /\ SourceProcessing \in Nat
  BY ConstantsAssumption, MoneyTypes DEF SourceProcessing
<1>7. SentAmount(amount) \in Int
  BY <1>5, <1>6 DEF SentAmount
<1> HIDE DEF SentAmount, Recorded, Rejected
<1> QED
  BY <1>2, <1>7 DEF RefundKey, Key, Counted

\* A free slot is absent, and no request has it in hand.
LEMMA FreeFacts ==
    ASSUME FreeChild # {}
    PROVE  /\ Min(FreeChild) \in Child
           /\ child[Min(FreeChild)].state = "absent"
           /\ \A v \in Worker : Clear(v, Min(FreeChild))
<1>1. FreeChild \in SUBSET Nat
  BY DEF FreeChild, Child
<1>2. Min(FreeChild) \in FreeChild
  BY <1>1, MinFacts
<1> HIDE DEF FreeChild
<1>3. /\ Min(FreeChild) \in Child
      /\ child[Min(FreeChild)].state = "absent"
      /\ ~Reserved(Min(FreeChild))
  BY <1>2 DEF FreeChild
<1> QED
  BY <1>3 DEF Reserved, Clear, Sending, Handling

LEMMA SubmitRefundPreserves ==
    ASSUME IInv, NEW w \in Worker, NEW amount \in 1 .. SourceAmount, SubmitRefund(w, amount)
    PROVE  IInv'
<1> DEFINE c == Min(FreeChild)
           key == RefundKey(amount)
           j == [step |-> "posting", child |-> c, amount |-> amount, key |-> key]
<1>1. /\ lock[Source] = None /\ FreeChild # {}
      /\ lock' = [lock EXCEPT ![Source] = w]
      /\ job' = [job EXCEPT ![w] = j]
      /\ UNCHANGED <<child, seen, flagged, acked, platform>>
  BY DEF SubmitRefund
<1>2. /\ lock \in [Child \cup {Source} -> Worker \cup {None}]
      /\ job \in [Worker -> Job] /\ child \in [Child -> Row]
  BY DEF IInv, TypeOK
<1>3. amount \in Nat
  BY ConstantsAssumption
<1>4. c \in Child /\ child[c].state = "absent"
  BY <1>1, FreeFacts
<1>5. key \in Key /\ Counted(key)
  BY <1>2, <1>3, KeyTypes
<1> HIDE DEF c, key
<1>6. j \in Job
  BY <1>3, <1>4, <1>5 DEF Job
<1>7. /\ lock' \in [Child \cup {Source} -> Worker \cup {None}] /\ lock'[Source] = w
      /\ \A v \in Worker \ {w}, l \in Child \cup {Source} : lock[l] = v => lock'[l] = v
  BY <1>1, <1>2, ConstantFacts
<1>8. job'[w] = j
  BY <1>1, <1>2
<1>9. SendingInv(w)'
  BY <1>1, <1>4, <1>7, <1>8 DEF SendingInv
<1>10. HandlingInv(w)'
  BY <1>8 DEF HandlingInv, Handling
<1>11. Counted(job[w].key)'
  <2>1. job'[w].key = key
    BY <1>8
  <2>2. Recorded' = Recorded /\ Rejected' = Rejected
    BY <1>1 DEF Recorded, Rejected, Refunds
  <2> QED
    BY <1>5, <2>1, <2>2 DEF Counted
<1> QED
  BY <1>1, <1>6, <1>7, <1>9, <1>10, <1>11, NoWritePreserves

\* The child found for a refund names it.
LEMMA FindFacts ==
    ASSUME NEW rows, NEW r
    PROVE  /\ FindChild(rows, r) \in Child \cup {None}
           /\ FindChild(rows, r) # None => rows[FindChild(rows, r)].provider_reference = r
<1> DEFINE named == {c \in Child : rows[c].provider_reference = r}
<1>1. CASE named = {}
  BY <1>1 DEF FindChild
<1>2. CASE named # {}
  <2>1. MaxChild \in Nat /\ named \in SUBSET (1 .. MaxChild)
    BY ConstantFacts DEF Child
  <2>2. Max(named) \in named
    BY <1>2, <2>1, MaxFacts
  <2>3. FindChild(rows, r) = Max(named)
    BY <1>2 DEF FindChild
  <2> QED
    BY <2>2, <2>3
<1> QED
  BY <1>1, <1>2

LEMMA DeliverPreserves ==
    ASSUME IInv, NEW w \in Worker, NEW e \in sent, Deliver(w, e)
    PROVE  IInv'
<1> DEFINE target == FindChild(child, e.entries[1].id)
           rows == [c \in Child |-> None]
           j == [step |-> "found", event |-> e, todo |-> e.entries, target |-> target,
                 rows |-> rows, seen |-> None, flags |-> {}]
<1>1. /\ job' = [job EXCEPT ![w] = j]
      /\ UNCHANGED <<child, seen, lock, flagged, acked, platform>>
  BY DEF Deliver
<1>2. /\ lock \in [Child \cup {Source} -> Worker \cup {None}]
      /\ job \in [Worker -> Job] /\ child \in [Child -> Row]
      /\ e \in Event /\ e.entries # << >>
  BY DEF IInv, TypeOK, PlatformInv, TrueEvent
<1>3. e.entries \in Seq(Report) /\ DOMAIN e.entries = 1 .. Len(e.entries)
  BY <1>2, EventTypes
<1>4. /\ target \in Child \cup {None}
      /\ target # None => child[target].provider_reference = e.entries[1].id
  BY FindFacts
<1>5. rows \in [Child -> Row \cup {None}]
  OBVIOUS
<1> HIDE DEF target
<1>6. j \in Job
  BY <1>2, <1>3, <1>4, <1>5 DEF Job
<1>7. job'[w] = j
  BY <1>1, <1>2
<1>8. SendingInv(w)' /\ ~Sending(w)'
  BY <1>7 DEF SendingInv, Sending
<1>9. View(w)' = child
  BY <1>1, <1>2, <1>7 DEF View
<1>10. /\ job'[w].event = e /\ job'[w].todo = e.entries /\ job'[w].target = target
       /\ job'[w].rows = rows /\ job'[w].seen = None
  BY <1>7
<1> HIDE DEF j
<1>11. HandlingInv(w)'
  BY <1>1, <1>2, <1>4, <1>9, <1>10 DEF HandlingInv, OverlayInv, platform
<1> QED
  BY <1>1, <1>2, <1>6, <1>8, <1>11, NoWritePreserves

LEMMA LookUpPreserves ==
    ASSUME IInv, NEW w \in Worker, LookUp(w)
    PROVE  IInv'
<1> DEFINE target == FindChild(View(w), job[w].todo[1].id)
           j == [job[w] EXCEPT !.step = "found", !.target = target]
<1>1. /\ job' = [job EXCEPT ![w] = j]
      /\ job[w].step = "looking"
      /\ UNCHANGED <<child, seen, lock, flagged, acked, platform>>
  BY DEF LookUp, IInv, TypeOK
<1>2. /\ lock \in [Child \cup {Source} -> Worker \cup {None}]
      /\ job \in [Worker -> Job] /\ child \in [Child -> Row]
      /\ HandlingInv(w)
  BY DEF IInv, TypeOK
<1>3. /\ Handling(w)
      /\ job[w] \in [step : {"looking", "found"}, event : Event, todo : Seq(Report),
                     target : Child \cup {None}, rows : [Child -> Row \cup {None}],
                     seen : Seq(Seen) \cup {None}, flags : SUBSET Refund]
  BY <1>1, <1>2, JobTypes DEF Handling
<1>4. /\ target \in Child \cup {None}
      /\ target # None => View(w)[target].provider_reference = job[w].todo[1].id
  BY FindFacts
<1> HIDE DEF target
<1>5. /\ j \in [step : {"looking", "found"}, event : Event, todo : Seq(Report),
               target : Child \cup {None}, rows : [Child -> Row \cup {None}],
               seen : Seq(Seen) \cup {None}, flags : SUBSET Refund]
      /\ j.step = "found" /\ j.target = target
      /\ j.event = job[w].event /\ j.todo = job[w].todo /\ j.rows = job[w].rows
      /\ j.seen = job[w].seen /\ j.flags = job[w].flags
  BY <1>3, <1>4
<1> HIDE DEF j
<1>6. j \in Job
  BY <1>5 DEF Job
<1>7. job'[w] = j
  BY <1>1, <1>2
<1>8. SendingInv(w)' /\ ~Sending(w)'
  BY <1>5, <1>7 DEF SendingInv, Sending
<1>9. View(w)' = View(w) /\ FlagsOf(w)' = FlagsOf(w)
  BY <1>1, <1>5, <1>7 DEF View, FlagsOf
<1>10. OverlayInv(w)'
  <2> SUFFICES ASSUME NEW c \in Child, job'[w].rows[c] # None
               PROVE  /\ lock[Guard(c)]' = w
                      /\ Later(child[c], job[w].rows[c])'
                      /\ (child[c].state = "absent" => job[w].rows[c].key = None)'
                      /\ RowOk(job[w].rows[c])'
                      /\ RecordOk(job[w].rows[c], FlagsOf(w))'
                      /\ (Len(job[w].rows[c].processed) <= ProcessedCap)'
    BY DEF OverlayInv
  <2>1. /\ job'[w].rows = job[w].rows /\ FlagsOf(w)' = FlagsOf(w)
        /\ child' = child /\ lock' = lock /\ refund' = refund /\ sent' = sent
    BY <1>1, <1>5, <1>7, <1>9 DEF platform
  <2> DEFINE r == job[w].rows[c]
             f == FlagsOf(w)
  <2>2. /\ lock[Guard(c)] = w
        /\ Later(child[c], r)
        /\ child[c].state = "absent" => r.key = None
        /\ RowOk(r) /\ RecordOk(r, f)
        /\ Len(r.processed) <= ProcessedCap
    BY <1>2, <1>3, <2>1 DEF HandlingInv, OverlayInv
  <2>3. PICK x, g : x = r /\ g = f
    OBVIOUS
  <2>4. x = (job[w].rows[c])' /\ g = FlagsOf(w)'
    BY <2>1, <2>3
  <2> HIDE DEF r, f
  <2>5. lock[Guard(c)]' = w
    BY <2>1, <2>2 DEF Guard
  <2>6. Later(child[c], x)'
    BY <2>1, <2>2, <2>3 DEF Later
  <2>7. RowOk(x)'
    BY <2>1, <2>2, <2>3 DEF RowOk
  <2>8. RecordOk(x, g)'
    BY <2>1, <2>2, <2>3 DEF RecordOk
  <2>9. /\ Later(child[c], job[w].rows[c])'
        /\ RowOk(job[w].rows[c])'
        /\ RecordOk(job[w].rows[c], FlagsOf(w))'
    BY <2>4, <2>6, <2>7, <2>8 DEF Later, RowOk, RecordOk
  <2>10. /\ (child[c].state = "absent" => job[w].rows[c].key = None)'
         /\ (Len(job[w].rows[c].processed) <= ProcessedCap)'
    BY <2>1, <2>2, <2>3, <2>4
  <2> QED
    BY <2>5, <2>9, <2>10
<1>11. \A list : SeenOk(list, View(w), FlagsOf(w)) => SeenOk(list, View(w), FlagsOf(w))'
  BY <1>1, <1>9 DEF SeenOk, Covered, platform
<1>12. \A p : Covered(p, View(w), FlagsOf(w)) => Covered(p, View(w), FlagsOf(w))'
  BY <1>9 DEF Covered
<1>13. job[w].seen # None => SeenOk(job[w].seen, View(w), FlagsOf(w))'
  BY <1>2, <1>3, <1>5, <1>7, <1>11 DEF HandlingInv
<1>14. \A i \in DOMAIN job[w].event.entries :
           \/ \E k \in DOMAIN job[w].todo : job[w].todo[k] = job[w].event.entries[i]
           \/ Covered(job[w].event.entries[i], View(w), FlagsOf(w))'
  BY <1>2, <1>3, <1>5, <1>7, <1>12 DEF HandlingInv
<1>15. /\ job[w].event \in sent' /\ lock' = lock
       /\ job[w].todo # << >>
       /\ \A k \in DOMAIN job[w].todo :
              \E i \in DOMAIN job[w].event.entries : job[w].todo[k] = job[w].event.entries[i]
       /\ job[w].seen # None => lock[Source] = w /\ Len(job[w].seen) <= ProcessedCap
  BY <1>1, <1>2, <1>3 DEF HandlingInv, platform
<1>16. HandlingInv(w)'
  BY <1>4, <1>5, <1>7, <1>9, <1>10, <1>13, <1>14, <1>15 DEF HandlingInv
<1> QED
  BY <1>1, <1>2, <1>6, <1>8, <1>16, NoWritePreserves

-----------------------------------------------------------------------------
(* The merchant's request writes its child.                                *)

\* A step that writes children and leaves its request with nothing to do.
LEMMA WritePreserves ==
    ASSUME IInv, NEW w \in Worker, OwnMoves(w), UNCHANGED <<seen, flagged, acked>>,
           job' \in [Worker -> Job], job'[w] = Idle,
           lock' \in [Child \cup {Source} -> Worker \cup {None}],
           \A c \in Child : child'[c] # child[c] =>
               /\ RowOk(child'[c]) /\ RecordOk(child'[c], flagged)
               /\ Len(child'[c].processed) <= ProcessedCap
               /\ child[c].state = "absent" /\ child'[c].key # None => Counted(child'[c].key)
    PROVE  IInv'
<1>1. TypeOK
  BY DEF IInv
<1>2. \A c \in Child : Len(child'[c].processed) <= ProcessedCap
  BY <1>1 DEF TypeOK
<1>3. TypeOK'
  BY <1>1, <1>2 DEF TypeOK, OwnMoves, platform
<1>4. ~Sending(w)' /\ SendingInv(w)' /\ HandlingInv(w)'
  BY DEF Sending, Handling, SendingInv, HandlingInv, Idle
<1>5. StoreInv'
  BY StoreKeeps
<1>6. KeyInv'
  BY <1>4, KeysKeep
<1> QED
  BY <1>3, <1>4, <1>5, <1>6, OwnPreserves

\* The row of a child that is not there yet.
LEMMA NoRowFacts ==
    /\ NoRow \in Row
    /\ NoRow.provider_reference = None /\ ~NoRow.awaiting /\ ~NoRow.rejected
    /\ NoRow.key = None /\ NoRow.processed = << >> /\ NoRow.proc = 0
<1>1. << >> \in Seq(Event)
  OBVIOUS
<1> QED
  BY <1>1 DEF NoRow, Row

LEMMA SubmitRefusedPreserves ==
    ASSUME IInv, NEW w \in Worker, NEW amount \in 1 .. SourceAmount, SubmitRefused(w, amount)
    PROVE  IInv'
<1> DEFINE c == Min(FreeChild)
           row == [NoRow EXCEPT !.state = SetError("draft"), !.amount = amount]
<1>1. /\ job[w] = Idle /\ FreeChild # {}
      /\ child' = [child EXCEPT ![c] = row]
      /\ UNCHANGED <<seen, lock, job, flagged, acked, platform>>
  BY DEF SubmitRefused
<1>2. /\ lock \in [Child \cup {Source} -> Worker \cup {None}]
      /\ job \in [Worker -> Job] /\ child \in [Child -> Row]
  BY DEF IInv, TypeOK
<1>3. c \in Child /\ child[c].state = "absent" /\ \A v \in Worker : Clear(v, c)
  BY <1>1, FreeFacts
<1>4. amount \in Nat
  BY ConstantsAssumption
<1>5. << >> \in Seq(Event) /\ Len(<< >>) = 0 /\ DOMAIN << >> = {}
  OBVIOUS
<1>6. /\ row \in Row /\ row.state = "error" /\ row.provider_reference = None
      /\ ~row.awaiting /\ ~row.rejected /\ row.key = None /\ row.processed = << >>
  BY <1>4, NoRowFacts DEF Row, SetError
<1> HIDE DEF c, row
<1>7. child' \in [Child -> Row] /\ child'[c] = row /\ \A d \in Child \ {c} : child'[d] = child[d]
  BY <1>1, <1>2, <1>3, <1>6
<1>8. RowOk(child[c])
  BY <1>3 DEF IInv, StoreInv
<1>9. Later(child[c], row)
  BY <1>3, <1>6, <1>8 DEF Later, RowOk
<1>10. OwnMoves(w)
  BY <1>1, <1>3, <1>7, <1>9 DEF OwnMoves
<1>11. RowOk(row) /\ RecordOk(row, flagged)
  BY <1>5, <1>6 DEF RowOk, RecordOk
<1>12. Len(row.processed) <= ProcessedCap
  BY <1>5, <1>6, ConstantFacts
<1> QED
  BY <1>1, <1>2, <1>6, <1>7, <1>10, <1>11, <1>12, WritePreserves

\* The child as it was sent.
LEMMA SentFacts ==
    ASSUME IInv, NEW w \in Worker, Sending(w)
    PROVE  /\ SentRow(w) \in Row
           /\ SentRow(w).state = "draft" /\ SentRow(w).provider_reference = None
           /\ SentRow(w).awaiting /\ ~SentRow(w).rejected
           /\ SentRow(w).key = job[w].key /\ SentRow(w).processed = << >>
           /\ job[w].child \in Child /\ child[job[w].child].state = "absent"
           /\ lock[Source] = w
           /\ job[w].key \in Key /\ job[w].key # None /\ Counted(job[w].key)
           /\ \A v \in Worker \ {w} :
                 ~Sending(v) /\ (Handling(v) => \A c \in Child :
                     job[v].rows[c] # None => child[c].provider_reference # None)
<1>1. /\ job \in [Worker -> Job] /\ SendingInv(w) /\ KeyInv
      /\ \A v \in Worker : SendingInv(v) /\ HandlingInv(v)
  BY DEF IInv, TypeOK
<1>2. job[w].child \in Child /\ job[w].amount \in Nat /\ job[w].key \in Key
  BY <1>1, JobTypes
<1>3. job[w].key.proc \in Int /\ << >> \in Seq(Event)
  BY <1>2 DEF Key
<1>4. lock[Source] = w /\ child[job[w].child].state = "absent" /\ Counted(job[w].key)
  BY <1>1 DEF SendingInv, KeyInv
<1>5. ASSUME NEW v \in Worker \ {w}
      PROVE  ~Sending(v) /\ (Handling(v) => \A c \in Child :
                 job[v].rows[c] # None => child[c].provider_reference # None)
  BY <1>1, <1>4 DEF SendingInv, HandlingInv, OverlayInv, Guard
<1>6. job[w].key # None
  BY <1>2, ConstantFacts
<1>7. /\ SentRow(w) \in Row
      /\ SentRow(w).state = "draft" /\ SentRow(w).provider_reference = None
      /\ SentRow(w).awaiting /\ ~SentRow(w).rejected
      /\ SentRow(w).key = job[w].key /\ SentRow(w).processed = << >>
  BY <1>2, <1>3 DEF SentRow, NoRow, Row
<1> QED
  BY <1>2, <1>4, <1>5, <1>6, <1>7

\* The request ends: it gives up the source's lock and its job.
LEMMA SubmitEnds ==
    ASSUME IInv, NEW w \in Worker, Sending(w),
           lock' = [lock EXCEPT ![Source] = None], job' = [job EXCEPT ![w] = Idle]
    PROVE  /\ job' \in [Worker -> Job] /\ job'[w] = Idle
           /\ \A v \in Worker \ {w} : job'[v] = job[v]
           /\ lock' \in [Child \cup {Source} -> Worker \cup {None}]
           /\ \A v \in Worker \ {w}, l \in Child \cup {Source} : lock[l] = v => lock'[l] = v
<1>1. /\ lock \in [Child \cup {Source} -> Worker \cup {None}]
      /\ job \in [Worker -> Job]
  BY DEF IInv, TypeOK
<1>2. Idle \in Job
  BY DEF Idle, Job
<1>3. lock[Source] = w
  BY SentFacts
<1> QED
  BY <1>1, <1>2, <1>3, ConstantFacts

LEMMA SubmitLostPreserves ==
    ASSUME IInv, NEW w \in Worker, SubmitLost(w)
    PROVE  IInv'
<1> DEFINE c == job[w].child
           row == [SentRow(w) EXCEPT !.state = SetError(@)]
<1>1. /\ Sending(w)
      /\ child' = [child EXCEPT ![c] = row]
      /\ lock' = [lock EXCEPT ![Source] = None] /\ job' = [job EXCEPT ![w] = Idle]
      /\ UNCHANGED <<seen, flagged, acked, platform>>
  BY DEF SubmitLost, Sending
<1>2. child \in [Child -> Row]
  BY DEF IInv, TypeOK
<1>3. /\ SentRow(w) \in Row
      /\ SentRow(w).state = "draft" /\ SentRow(w).provider_reference = None
      /\ SentRow(w).awaiting /\ ~SentRow(w).rejected
      /\ SentRow(w).key = job[w].key /\ SentRow(w).processed = << >>
      /\ c \in Child /\ child[c].state = "absent"
      /\ Counted(job[w].key)
  BY <1>1, SentFacts
<1>4. << >> \in Seq(Event) /\ Len(<< >>) = 0 /\ DOMAIN << >> = {}
  OBVIOUS
<1>5. /\ row \in Row /\ row.state = "error" /\ row.provider_reference = None
      /\ ~row.rejected /\ row.key = job[w].key /\ row.processed = << >>
  BY <1>3 DEF Row, SetError
<1>6. RowOk(child[c])
  BY <1>3 DEF IInv, StoreInv
<1>7. \A v \in Worker \ {w} : Clear(v, c)
  BY <1>1, <1>3, <1>6, SentFacts DEF Clear, RowOk
<1> HIDE DEF c, row
<1>8. child' \in [Child -> Row] /\ child'[c] = row /\ \A d \in Child \ {c} : child'[d] = child[d]
  BY <1>1, <1>2, <1>3, <1>5
<1>9. Later(child[c], row)
  BY <1>3, <1>5, <1>6 DEF Later, RowOk
<1>10. /\ job' \in [Worker -> Job] /\ job'[w] = Idle
       /\ \A v \in Worker \ {w} : job'[v] = job[v]
       /\ lock' \in [Child \cup {Source} -> Worker \cup {None}]
       /\ \A v \in Worker \ {w}, l \in Child \cup {Source} : lock[l] = v => lock'[l] = v
  BY <1>1, SubmitEnds
<1>11. OwnMoves(w)
  BY <1>1, <1>7, <1>8, <1>9, <1>10 DEF OwnMoves
<1>12. RowOk(row) /\ RecordOk(row, flagged)
  BY <1>4, <1>5 DEF RowOk, RecordOk
<1>13. Len(row.processed) <= ProcessedCap
  BY <1>4, <1>5, ConstantFacts
<1> QED
  BY <1>1, <1>3, <1>5, <1>8, <1>10, <1>11, <1>12, <1>13, WritePreserves

\* What the platform's answer makes of the child.
LEMMA AnswerFacts ==
    ASSUME NEW r \in Row, r.state = "draft", r.provider_reference = None, ~r.rejected,
           r.processed = << >>, NEW a \in Answer, TrueAnswer(a)
    PROVE  LET row == [AnswerRow(r, a) EXCEPT !.awaiting = FALSE]
           IN  /\ AnswerRow(r, a) \in Row /\ AnswerRow(r, a).key = r.key
               /\ row \in Row /\ row.state # "absent" /\ row.key = r.key
               /\ row.processed = << >> /\ RowOk(row)
<1> DEFINE row == [AnswerRow(r, a) EXCEPT !.awaiting = FALSE]
<1>1. a.id \in Refund \cup {None} /\ a.status \in {"REFUSED", "PENDING", "SUCCEEDED", "FAILED"}
  BY DEF Answer
<1>2. CASE a.status = "REFUSED"
  <2>1. AnswerRow(r, a) = [r EXCEPT !.state = "error", !.rejected = TRUE]
    BY <1>2 DEF AnswerRow, SetError
  <2>2. /\ AnswerRow(r, a) \in Row /\ AnswerRow(r, a).key = r.key
        /\ row \in Row /\ row.state = "error" /\ row.provider_reference = None
        /\ ~row.awaiting /\ row.processed = << >> /\ row.key = r.key
    BY <2>1 DEF Row
  <2> HIDE DEF row
  <2>3. RowOk(row)
    BY <2>2 DEF RowOk
  <2> QED
    BY <2>2, <2>3 DEF row
<1>3. CASE a.status # "REFUSED"
  <2>1. a.id \in Refund /\ Told(a)
    BY <1>1, <1>3, ConstantFacts DEF TrueAnswer, Refusal
  <2> DEFINE known == [r EXCEPT !.provider_reference = a.id]
  <2>2. /\ known \in Row /\ known.state = "draft" /\ known.provider_reference = a.id
        /\ ~known.rejected /\ known.processed = << >> /\ known.key = r.key /\ known.proc = r.proc
    BY <2>1 DEF Row
  <2> HIDE DEF known
  <2>3. /\ a.status = "SUCCEEDED" =>
               AnswerRow(r, a) = [known EXCEPT !.state = IF a.proc # r.proc THEN "error" ELSE "done"]
        /\ a.status = "PENDING" => AnswerRow(r, a) = [known EXCEPT !.state = "pending"]
        /\ a.status = "FAILED" => AnswerRow(r, a) = [known EXCEPT !.state = "error", !.rejected = TRUE]
    BY <2>2 DEF AnswerRow, known, SetError, SetDone, SetPending
  <2>4. /\ AnswerRow(r, a) \in Row /\ AnswerRow(r, a).key = r.key
        /\ row \in Row /\ row.state \in {"error", "done", "pending"}
        /\ row.provider_reference = a.id
        /\ ~row.awaiting /\ row.processed = << >> /\ row.key = r.key
        /\ row.state = "done" => a.status = "SUCCEEDED" /\ row.proc = a.proc
        /\ row.rejected => a.status = "FAILED" /\ row.state = "error"
    <3>1. CASE a.status = "SUCCEEDED"
      BY <2>2, <2>3, <3>1 DEF Row
    <3>2. CASE a.status = "PENDING"
      BY <2>2, <2>3, <3>2 DEF Row
    <3>3. CASE a.status = "FAILED"
      BY <2>2, <2>3, <3>3 DEF Row
    <3> QED
      BY <1>1, <1>3, <3>1, <3>2, <3>3
  <2> HIDE DEF row
  <2>5. RowOk(row)
    BY <1>1, <1>3, <2>1, <2>4, ConstantFacts DEF RowOk, Told
  <2> QED
    BY <2>4, <2>5 DEF row
<1> QED
  BY <1>2, <1>3

LEMMA SubmitAnsweredPreserves ==
    ASSUME IInv, NEW w \in Worker, SubmitAnswered(w)
    PROVE  IInv'
<1> DEFINE c == job[w].child
           key == job[w].key
           answered == AnswerRow(SentRow(w), job[w].answer)
           row == [answered EXCEPT !.awaiting = FALSE]
           rows == [child EXCEPT ![c] = answered]
           Freed(d) == [child[d] EXCEPT !.awaiting = FALSE]
<1>1. /\ Sending(w) /\ job[w].step = "answered"
      /\ child' = SettleAwaiting(rows, c)
      /\ lock' = [lock EXCEPT ![Source] = None] /\ job' = [job EXCEPT ![w] = Idle]
      /\ UNCHANGED <<seen, flagged, acked, platform>>
  BY DEF SubmitAnswered, Sending
<1>2. child \in [Child -> Row] /\ job \in [Worker -> Job]
  BY DEF IInv, TypeOK
<1>3. /\ SentRow(w) \in Row
      /\ SentRow(w).state = "draft" /\ SentRow(w).provider_reference = None
      /\ ~SentRow(w).rejected
      /\ SentRow(w).key = key /\ SentRow(w).processed = << >>
      /\ c \in Child /\ child[c].state = "absent"
      /\ key # None /\ Counted(key)
  BY <1>1, SentFacts
<1>4. job[w].answer \in Answer /\ TrueAnswer(job[w].answer)
  BY <1>1, <1>2, JobTypes DEF IInv, SendingInv
<1>5. /\ answered \in Row /\ answered.key = key
      /\ row \in Row /\ row.state # "absent" /\ row.key = key
      /\ row.processed = << >> /\ RowOk(row)
  BY <1>3, <1>4, AnswerFacts
<1> HIDE DEF c, key, answered
<1>6. rows \in [Child -> Row] /\ rows[c] = answered /\ \A d \in Child \ {c} : rows[d] = child[d]
  BY <1>2, <1>3, <1>5
<1> HIDE DEF rows
<1>7. /\ child' \in [Child -> Row]
      /\ child'[c] = row
      /\ \A d \in Child \ {c} :
            child'[d] = IF child[d].key = key THEN Freed(d) ELSE child[d]
  <2>1. \A d \in Child \ {c} : Freed(d) \in Row
    BY <1>2 DEF Row
  <2>2. child' = [d \in Child |-> IF d = c \/ rows[d].key = rows[c].key
                                THEN [rows[d] EXCEPT !.awaiting = FALSE] ELSE rows[d]]
    BY <1>1 DEF SettleAwaiting
  <2> HIDE DEF row, Freed
  <2>3. child'[c] = row
    BY <1>3, <1>6, <2>2 DEF row
  <2>4. ASSUME NEW d \in Child \ {c}
        PROVE  child'[d] = IF child[d].key = key THEN Freed(d) ELSE child[d]
    BY <1>5, <1>6, <2>2 DEF Freed
  <2>5. \A d \in Child : child'[d] \in Row
    BY <1>2, <1>5, <2>1, <2>3, <2>4
  <2>6. child' = [d \in Child |-> child'[d]]
    BY <2>2
  <2>7. child' \in [Child -> Row]
    BY <2>5, <2>6
  <2> QED
    BY <2>3, <2>4, <2>7
<1>8. RowOk(child[c])
  BY <1>3 DEF IInv, StoreInv
<1>9. Later(child[c], row)
  BY <1>3, <1>5, <1>8 DEF Later, RowOk
<1>10. \A v \in Worker \ {w} : Clear(v, c)
  BY <1>1, <1>3, <1>8, SentFacts DEF Clear, RowOk
<1>11. ASSUME NEW d \in Child \ {c}, child'[d] # child[d]
       PROVE  /\ child'[d] = Freed(d) /\ child[d].awaiting
              /\ RowOk(child[d]) /\ RecordOk(child[d], flagged)
              /\ Len(child[d].processed) <= ProcessedCap
  <2>1. child'[d] = Freed(d) /\ child[d] \in Row
    BY <1>2, <1>7, <1>11
  <2>2. child[d].awaiting
    <3>1. ASSUME ~child[d].awaiting PROVE FALSE
      <4>1. Freed(d) = child[d]
        BY <2>1, <3>1 DEF Row
      <4> QED
        BY <1>11, <2>1, <4>1
    <3> QED
      BY <3>1
  <2> QED
    BY <2>1, <2>2 DEF IInv, StoreInv, TypeOK
<1>12. ASSUME NEW d \in Child \ {c}, child'[d] # child[d]
       PROVE  /\ Later(child[d], child'[d])
              /\ \A v \in Worker \ {w} : Clear(v, d)
              /\ RowOk(child'[d]) /\ RecordOk(child'[d], flagged)
              /\ Len(child'[d].processed) <= ProcessedCap
              /\ child[d].state # "absent"
  <2>1. /\ child'[d] = Freed(d) /\ child[d].awaiting /\ child[d] \in Row
        /\ RowOk(child[d]) /\ RecordOk(child[d], flagged)
        /\ Len(child[d].processed) <= ProcessedCap
    BY <1>2, <1>11, <1>12
  <2>2. /\ child'[d].state = child[d].state /\ child'[d].key = child[d].key
        /\ child'[d].amount = child[d].amount /\ child'[d].proc = child[d].proc
        /\ child'[d].provider_reference = child[d].provider_reference
        /\ child'[d].rejected = child[d].rejected /\ child'[d].processed = child[d].processed
        /\ ~child'[d].awaiting
    BY <2>1 DEF Row
  <2>3. child[d].provider_reference = None /\ child[d].state # "absent"
    BY <2>1 DEF RowOk
  <2>4. \A v \in Worker \ {w} : Clear(v, d)
    BY <1>1, <2>3, SentFacts DEF Clear
  <2>5. Later(child[d], child'[d])
    BY <2>2, <2>3 DEF Later
  <2>6. RowOk(child'[d])
    BY <2>1, <2>2, <2>3 DEF RowOk
  <2>7. RecordOk(child'[d], flagged)
    BY <2>1, <2>2 DEF RecordOk
  <2> QED
    BY <2>1, <2>2, <2>3, <2>4, <2>5, <2>6, <2>7
<1>13. << >> \in Seq(Event) /\ Len(<< >>) = 0 /\ DOMAIN << >> = {}
  OBVIOUS
<1>14. /\ job' \in [Worker -> Job] /\ job'[w] = Idle
       /\ \A v \in Worker \ {w} : job'[v] = job[v]
       /\ lock' \in [Child \cup {Source} -> Worker \cup {None}]
       /\ \A v \in Worker \ {w}, l \in Child \cup {Source} : lock[l] = v => lock'[l] = v
  BY <1>1, SubmitEnds
<1> HIDE DEF row, Freed
<1>15. OwnMoves(w)
  <2> SUFFICES ASSUME NEW d \in Child, child'[d] # child[d]
               PROVE  Later(child[d], child'[d]) /\ \A v \in Worker \ {w} : Clear(v, d)
    BY <1>1, <1>7, <1>14 DEF OwnMoves
  <2> QED
    BY <1>7, <1>9, <1>10, <1>12
<1>16. RecordOk(row, flagged) /\ Len(row.processed) <= ProcessedCap
  BY <1>5, <1>13, ConstantFacts DEF RecordOk
<1>17. ASSUME NEW d \in Child, child'[d] # child[d]
       PROVE  /\ RowOk(child'[d]) /\ RecordOk(child'[d], flagged)
              /\ Len(child'[d].processed) <= ProcessedCap
              /\ child[d].state = "absent" /\ child'[d].key # None => Counted(child'[d].key)
  BY <1>3, <1>5, <1>7, <1>12, <1>16, <1>17
<1> QED
  BY <1>1, <1>14, <1>15, <1>17, WritePreserves

-----------------------------------------------------------------------------
(* The webhook applies an entry.                                           *)

\* What a webhook sees is in order, and ahead of what is committed.
LEMMA ViewFacts ==
    ASSUME IInv, NEW w \in Worker, Handling(w)
    PROVE  /\ View(w) \in [Child -> Row]
           /\ \A c \in Child : View(w)[c] # child[c] =>
                 /\ lock[Guard(c)] = w /\ Later(child[c], View(w)[c])
                 /\ child[c].state = "absent" => View(w)[c].key = None
           /\ \A c \in Child : /\ RowOk(View(w)[c]) /\ RecordOk(View(w)[c], FlagsOf(w))
                               /\ Len(View(w)[c].processed) <= ProcessedCap
<1>1. /\ job \in [Worker -> Job] /\ child \in [Child -> Row] /\ HandlingInv(w) /\ StoreInv
      /\ \A c \in Child : Len(child[c].processed) <= ProcessedCap
  BY DEF IInv, TypeOK
<1>2. /\ View(w) \in [Child -> Row]
      /\ \A c \in Child : job[w].rows[c] = None => View(w)[c] = child[c]
      /\ \A c \in Child : job[w].rows[c] # None => View(w)[c] = job[w].rows[c]
  BY <1>1, ViewTypes
<1>3. ASSUME NEW c \in Child
      PROVE  /\ View(w)[c] # child[c] =>
                  /\ lock[Guard(c)] = w /\ Later(child[c], View(w)[c])
                  /\ child[c].state = "absent" => View(w)[c].key = None
             /\ RowOk(View(w)[c]) /\ RecordOk(View(w)[c], FlagsOf(w))
             /\ Len(View(w)[c].processed) <= ProcessedCap
  <2>1. CASE job[w].rows[c] = None
    <3>1. RowOk(child[c]) /\ RecordOk(child[c], flagged) /\ flagged \subseteq FlagsOf(w)
      BY <1>1 DEF StoreInv, FlagsOf
    <3>2. RecordOk(child[c], FlagsOf(w))
      BY <3>1, RecordStays
    <3> QED
      BY <1>1, <1>2, <2>1, <3>1, <3>2
  <2>2. CASE job[w].rows[c] # None
    BY <1>1, <1>2, <2>2 DEF HandlingInv, OverlayInv
  <2> QED
    BY <2>1, <2>2
<1> QED
  BY <1>2, <1>3

\* What an entry of the event in hand may make of the rows, under row's lock.
Applies(w, row, rows, list, flags) ==
    /\ row \in Child \cup {Source} /\ rows \in [Child -> Row]
    /\ list \in Seq(Seen) /\ Len(list) <= ProcessedCap /\ flags \in SUBSET Refund
    /\ \A c \in Child : rows[c] # View(w)[c] =>
          /\ Guard(c) = row \/ lock[Guard(c)] = w
          /\ Later(View(w)[c], rows[c])
          /\ View(w)[c].state = "absent" => rows[c].key = None
          /\ RowOk(rows[c]) /\ RecordOk(rows[c], FlagsOf(w) \cup flags)
          /\ Len(rows[c].processed) <= ProcessedCap
    /\ Covered(job[w].todo[1], rows, FlagsOf(w) \cup flags)
    /\ SeenOk(list, rows, FlagsOf(w) \cup flags)
    /\ row # Source => list = IF job[w].seen # None THEN job[w].seen ELSE seen

\* What applying a report to a child may change: only rows whose guard is the lock
\* held, forward in their lives, so that the report is covered afterwards.
LEMMA AppliedFacts ==
    ASSUME IInv, NEW w \in Worker, Handling(w), NEW row, NEW rows, NEW list, NEW flags,
           Applies(w, row, rows, list, flags), lock[row] \in {None, w}
    PROVE  /\ Onward(View(w), rows)
           /\ \A c \in Child : rows[c] # child[c] =>
                 /\ Guard(c) = row \/ lock[Guard(c)] = w
                 /\ Later(child[c], rows[c])
                 /\ child[c].state = "absent" => rows[c].key = None
                 /\ \A v \in Worker \ {w} : Clear(v, c)
           /\ \A c \in Child : /\ RowOk(rows[c]) /\ RecordOk(rows[c], FlagsOf(w) \cup flags)
                               /\ Len(rows[c].processed) <= ProcessedCap
<1> DEFINE F == FlagsOf(w) \cup flags
           seeing == View(w)
<1>1. /\ child \in [Child -> Row] /\ \A v \in Worker : SendingInv(v) /\ HandlingInv(v)
      /\ \A c \in Child : RowOk(child[c])
  BY DEF IInv, TypeOK, StoreInv
<1>2. /\ seeing \in [Child -> Row]
      /\ \A c \in Child : seeing[c] # child[c] =>
            /\ lock[Guard(c)] = w /\ Later(child[c], seeing[c])
            /\ child[c].state = "absent" => seeing[c].key = None
      /\ \A c \in Child : /\ RowOk(seeing[c]) /\ RecordOk(seeing[c], FlagsOf(w))
                          /\ Len(seeing[c].processed) <= ProcessedCap
  BY ViewFacts
<1>3. /\ rows \in [Child -> Row]
      /\ \A c \in Child : rows[c] # seeing[c] =>
            /\ Guard(c) = row \/ lock[Guard(c)] = w
            /\ Later(seeing[c], rows[c])
            /\ seeing[c].state = "absent" => rows[c].key = None
            /\ RowOk(rows[c]) /\ RecordOk(rows[c], F)
            /\ Len(rows[c].processed) <= ProcessedCap
  BY DEF Applies
<1>4. FlagsOf(w) \subseteq F
  OBVIOUS
<1> HIDE DEF F, seeing
<1>5. Onward(seeing, rows)
  BY <1>3 DEF Onward
<1>6. ASSUME NEW c \in Child
      PROVE  /\ RowOk(rows[c]) /\ RecordOk(rows[c], F)
             /\ Len(rows[c].processed) <= ProcessedCap
  <2>1. RecordOk(seeing[c], F)
    BY <1>2, <1>4, RecordStays
  <2> QED
    BY <1>2, <1>3, <2>1
<1>7. ASSUME NEW c \in Child, rows[c] # child[c]
      PROVE  /\ Guard(c) = row \/ lock[Guard(c)] = w
             /\ Later(child[c], rows[c])
             /\ child[c].state = "absent" => rows[c].key = None
             /\ \A v \in Worker \ {w} : Clear(v, c)
  <2>1. Guard(c) = row \/ lock[Guard(c)] = w
    BY <1>2, <1>3, <1>7
  <2>2. child[c] \in Row /\ seeing[c] \in Row /\ rows[c] \in Row
    BY <1>1, <1>2, <1>3
  <2>3. Later(child[c], rows[c])
    BY <1>2, <1>3, <1>7, <2>2, LaterTransitive
  <2>4. child[c].state = "absent" => rows[c].key = None
    <3>1. CASE seeing[c] = child[c]
      BY <1>3, <1>7, <3>1
    <3>2. CASE seeing[c] # child[c]
      BY <1>2, <1>3, <3>2 DEF Later
    <3> QED
      BY <3>1, <3>2
  <2>5. lock[Guard(c)] \in {None, w}
    BY <2>1
  <2>6. ASSUME NEW v \in Worker \ {w} PROVE Clear(v, c)
    <3>1. v # None /\ lock[Guard(c)] # v
      BY <2>5, ConstantFacts
    <3>2. Sending(v) => job[v].child # c
      BY <1>1, <3>1 DEF SendingInv, Guard, RowOk
    <3>3. Handling(v) => job[v].rows[c] = None
      BY <1>1, <3>1 DEF HandlingInv, OverlayInv
    <3> QED
      BY <3>2, <3>3 DEF Clear
  <2> QED
    BY <2>1, <2>3, <2>4, <2>6
<1> QED
  BY <1>5, <1>6, <1>7 DEF F, seeing

\* The entries that are not yet done are those to do after this one.
LEMMA TodoFacts ==
    ASSUME IInv, NEW w \in Worker, Handling(w), NEW row, NEW rows, NEW list, NEW flags,
           Applies(w, row, rows, list, flags), lock[row] \in {None, w}
    PROVE  /\ job[w].todo \in Seq(Report) /\ job[w].todo # << >> /\ Len(job[w].todo) \in Nat \ {0}
           /\ DOMAIN job[w].todo = 1 .. Len(job[w].todo)
           /\ \A i \in DOMAIN job[w].event.entries :
                 \/ \E j \in DOMAIN job[w].todo \ {1} : job[w].todo[j] = job[w].event.entries[i]
                 \/ Covered(job[w].event.entries[i], rows, FlagsOf(w) \cup flags)
<1>1. job \in [Worker -> Job] /\ HandlingInv(w)
  BY DEF IInv, TypeOK
<1>2. /\ job[w].todo \in Seq(Report) /\ job[w].todo # << >>
      /\ Len(job[w].todo) \in Nat \ {0} /\ DOMAIN job[w].todo = 1 .. Len(job[w].todo)
  <2>1. job[w].todo \in Seq(Report) /\ job[w].todo # << >>
    BY <1>1, JobTypes DEF HandlingInv
  <2> QED
    BY <2>1, LenProperties, EmptySeq
<1>3. ASSUME NEW i \in DOMAIN job[w].event.entries
      PROVE  \/ \E j \in DOMAIN job[w].todo \ {1} : job[w].todo[j] = job[w].event.entries[i]
             \/ Covered(job[w].event.entries[i], rows, FlagsOf(w) \cup flags)
  <2>1. CASE \E j \in DOMAIN job[w].todo : job[w].todo[j] = job[w].event.entries[i]
    BY <2>1 DEF Applies
  <2>2. CASE Covered(job[w].event.entries[i], View(w), FlagsOf(w))
    <3>1. job[w].event.entries[i].id # None
      BY <1>1, JobTypes, EventTypes, ConstantFacts DEF Report
    <3>2. Onward(View(w), rows)
      BY AppliedFacts
    <3>3. FlagsOf(w) \subseteq FlagsOf(w) \cup flags
      OBVIOUS
    <3> QED
      BY <2>2, <3>1, <3>2, <3>3, CoveredStays
  <2> QED
    BY <1>1, <2>1, <2>2 DEF HandlingInv
<1> QED
  BY <1>2, <1>3

\* The last entry: what was written is committed, and the event answered 200.
LEMMA TakeLast ==
    ASSUME IInv, NEW w \in Worker, Handling(w), NEW row, NEW rows, NEW list, NEW flags,
           Applies(w, row, rows, list, flags), Take(w, row, rows, list, flags),
           Len(job[w].todo) = 1
    PROVE  IInv'
<1> DEFINE F == FlagsOf(w) \cup flags
           e == job[w].event
<1>1. /\ lock[row] \in {None, w}
      /\ child' = rows /\ seen' = list
      /\ flagged' = F
      /\ acked' = acked \cup {e}
      /\ lock' = [l \in DOMAIN lock |-> IF lock[l] = w THEN None ELSE lock[l]]
      /\ job' = [job EXCEPT ![w] = Idle]
      /\ UNCHANGED platform
  BY DEF Take, FlagsOf
<1>2. /\ TypeOK /\ StoreInv /\ HandlingInv(w)
      /\ lock \in [Child \cup {Source} -> Worker \cup {None}]
      /\ job \in [Worker -> Job] /\ acked \subseteq sent /\ sent \subseteq Event
      /\ flagged \subseteq Refund
  BY DEF IInv, TypeOK
<1>3. rows \in [Child -> Row] /\ list \in Seq(Seen) /\ Len(list) <= ProcessedCap
      /\ flags \in SUBSET Refund /\ SeenOk(list, rows, F)
  BY DEF Applies
<1>4. /\ \A c \in Child : rows[c] # child[c] =>
            /\ Later(child[c], rows[c])
            /\ child[c].state = "absent" => rows[c].key = None
            /\ \A v \in Worker \ {w} : Clear(v, c)
      /\ \A c \in Child : /\ RowOk(rows[c]) /\ RecordOk(rows[c], F)
                          /\ Len(rows[c].processed) <= ProcessedCap
  <2>1. /\ \A c \in Child : rows[c] # child[c] =>
              /\ Guard(c) = row \/ lock[Guard(c)] = w
              /\ Later(child[c], rows[c])
              /\ child[c].state = "absent" => rows[c].key = None
              /\ \A v \in Worker \ {w} : Clear(v, c)
        /\ \A c \in Child : /\ RowOk(rows[c]) /\ RecordOk(rows[c], FlagsOf(w) \cup flags)
                            /\ Len(rows[c].processed) <= ProcessedCap
    BY <1>1, AppliedFacts
  <2> QED
    BY <2>1
<1>5. job[w].flags \in SUBSET Refund /\ e \in sent /\ e \in Event
  BY <1>2, JobTypes DEF HandlingInv
<1>6. \A i \in DOMAIN e.entries : Covered(e.entries[i], rows, F)
  <2>1. DOMAIN job[w].todo \ {1} = {}
    BY <1>1, TodoFacts
  <2> QED
    BY <1>1, <2>1, TodoFacts
<1>7. F \subseteq Refund /\ flagged \subseteq F
  BY <1>2, <1>3, <1>5 DEF FlagsOf
<1> HIDE DEF F, e
<1>8. Idle \in Job
  BY DEF Idle, Job
<1>9. /\ job' \in [Worker -> Job] /\ job'[w] = Idle
      /\ \A v \in Worker \ {w} : job'[v] = job[v]
  BY <1>1, <1>2, <1>8
<1>10. /\ lock' \in [Child \cup {Source} -> Worker \cup {None}]
       /\ \A v \in Worker \ {w}, l \in Child \cup {Source} : lock[l] = v => lock'[l] = v
  BY <1>1, <1>2
<1>11. OwnMoves(w)
  BY <1>1, <1>3, <1>4, <1>7, <1>9, <1>10 DEF OwnMoves
<1>12. TypeOK'
  <2>1. child' \in [Child -> Row] /\ \A c \in Child : Len(child'[c].processed) <= ProcessedCap
    BY <1>1, <1>3, <1>4
  <2>2. seen' \in Seq(Seen) /\ Len(seen') <= ProcessedCap /\ flagged' \subseteq Refund
    BY <1>1, <1>3, <1>7
  <2>3. acked' \subseteq sent'
    BY <1>1, <1>2, <1>5 DEF platform
  <2> QED
    BY <1>1, <1>2, <1>9, <1>10, <2>1, <2>2, <2>3 DEF TypeOK, platform
<1>13. ~Sending(w)' /\ SendingInv(w)' /\ HandlingInv(w)'
  BY <1>9 DEF Sending, Handling, SendingInv, HandlingInv, Idle
<1>14. KeyInv'
  <2>1. \A c \in Child : child[c].state = "absent" /\ child'[c].key # None => child'[c] = child[c]
    BY <1>1, <1>4
  <2> QED
    BY <1>11, <1>13, <2>1, KeysKeep
<1>15. refund' = refund /\ sent' = sent
  BY <1>1 DEF platform
<1>16. ASSUME NEW c \in Child PROVE RowOk(child[c])' /\ RecordOk(child[c], flagged)'
  <2>1. RowOk(rows[c]) /\ RecordOk(rows[c], F)
    BY <1>4
  <2>2. RowOk(child[c])'
    BY <1>1, <1>15, <2>1 DEF RowOk
  <2>3. RecordOk(child[c], flagged)'
    BY <1>1, <1>15, <2>1 DEF RecordOk
  <2> QED
    BY <2>2, <2>3
<1>17. SeenOk(seen, child, flagged)'
  BY <1>1, <1>3, <1>15 DEF SeenOk, Covered
<1>18. AckedRefundOnRecord'
  <2> SUFFICES ASSUME NEW x \in acked', NEW i \in 1 .. Len(x.entries),
                      x.entries[i].status = "SUCCEEDED"
               PROVE  OnRecord(x.entries[i].id)'
    BY DEF AckedRefundOnRecord
  <2>1. x \in Event
    BY <1>1, <1>2, <1>5
  <2>2. i \in DOMAIN x.entries /\ x.entries[i].id # None
    BY <2>1, EventTypes, ConstantFacts DEF Report
  <2>3. CASE x = e
    BY <1>1, <1>6, <2>2, <2>3 DEF Covered, OnRecord
  <2>4. CASE x \in acked
    <3>1. OnRecord(x.entries[i].id)
      BY <1>2, <2>4 DEF StoreInv, AckedRefundOnRecord
    <3> QED
      BY <1>1, <1>4, <1>7, <2>2, <3>1 DEF OnRecord, Later
  <2> QED
    BY <1>1, <2>3, <2>4
<1>19. StoreInv'
  BY <1>16, <1>17, <1>18 DEF StoreInv
<1> QED
  BY <1>11, <1>12, <1>13, <1>14, <1>19, OwnPreserves

\* Another entry follows: what was written is kept for later.
LEMMA TakeMore ==
    ASSUME IInv, NEW w \in Worker, Handling(w), NEW row, NEW rows, NEW list, NEW flags,
           Applies(w, row, rows, list, flags), Take(w, row, rows, list, flags),
           Len(job[w].todo) # 1
    PROVE  IInv'
<1> DEFINE F == FlagsOf(w) \cup flags
           kept == [c \in Child |-> IF rows[c] # child[c] THEN rows[c] ELSE None]
           remembered == IF row = Source THEN list ELSE job[w].seen
           j == [job[w] EXCEPT !.step = "looking", !.todo = Tail(job[w].todo), !.rows = kept,
                               !.seen = remembered, !.flags = job[w].flags \cup flags]
           todo == Tail(job[w].todo)
<1> HIDE DEF F, kept, remembered, j, todo
<1>1. /\ lock[row] \in {None, w}
      /\ lock' = [lock EXCEPT ![row] = w]
      /\ job' = [job EXCEPT ![w] = j]
      /\ UNCHANGED <<child, seen, flagged, acked, platform>>
  BY DEF Take, IInv, TypeOK, j, kept, remembered
<1>2. /\ HandlingInv(w)
      /\ lock \in [Child \cup {Source} -> Worker \cup {None}]
      /\ job \in [Worker -> Job] /\ child \in [Child -> Row]
  BY DEF IInv, TypeOK
<1>3. /\ rows \in [Child -> Row] /\ list \in Seq(Seen) /\ Len(list) <= ProcessedCap
      /\ flags \in SUBSET Refund /\ SeenOk(list, rows, F) /\ row \in Child \cup {Source}
      /\ row # Source => list = IF job[w].seen # None THEN job[w].seen ELSE seen
  BY DEF Applies, F
<1>4. /\ \A c \in Child : rows[c] # child[c] =>
            /\ Guard(c) = row \/ lock[Guard(c)] = w
            /\ Later(child[c], rows[c])
            /\ child[c].state = "absent" => rows[c].key = None
            /\ \A v \in Worker \ {w} : Clear(v, c)
      /\ \A c \in Child : /\ RowOk(rows[c]) /\ RecordOk(rows[c], FlagsOf(w) \cup flags)
                          /\ Len(rows[c].processed) <= ProcessedCap
  BY <1>1, AppliedFacts
<1>5. /\ job[w].todo \in Seq(Report) /\ job[w].todo # << >> /\ Len(job[w].todo) \in Nat \ {0}
      /\ DOMAIN job[w].todo = 1 .. Len(job[w].todo)
      /\ \A i \in DOMAIN job[w].event.entries :
            \/ \E k \in DOMAIN job[w].todo \ {1} : job[w].todo[k] = job[w].event.entries[i]
            \/ Covered(job[w].event.entries[i], rows, F)
  BY <1>1, TodoFacts DEF F
<1>6. /\ todo \in Seq(Report) /\ Len(todo) = Len(job[w].todo) - 1
      /\ DOMAIN todo = 1 .. Len(todo)
      /\ \A k \in 1 .. Len(todo) : todo[k] = job[w].todo[k + 1]
  BY <1>5, HeadTailProperties, LenProperties DEF todo
<1>7. /\ todo # << >>
      /\ \A k \in DOMAIN todo : k + 1 \in DOMAIN job[w].todo /\ todo[k] = job[w].todo[k + 1]
      /\ \A k \in DOMAIN job[w].todo \ {1} : k - 1 \in DOMAIN todo /\ todo[k - 1] = job[w].todo[k]
  <2>0. Len(job[w].todo) \in Nat \ {0}
    BY <1>5
  <2>1. Len(job[w].todo) >= 2
    <3> DEFINE n == Len(job[w].todo)
    <3>1. n \in Nat \ {0} /\ n # 1
      BY <2>0
    <3> HIDE DEF n
    <3>2. n >= 2
      BY <3>1
    <3> QED
      BY <3>2 DEF n
  <2>2. todo # << >>
    <3>1. Len(todo) # 0
      BY <1>6, <2>1, <2>0
    <3> QED
      BY <3>1
  <2>3. ASSUME NEW k \in DOMAIN job[w].todo \ {1}
        PROVE  k - 1 \in DOMAIN todo /\ todo[k - 1] = job[w].todo[k]
    <3>1. k - 1 \in 1 .. Len(todo) /\ (k - 1) + 1 = k
      BY <1>5, <1>6
    <3> QED
      BY <1>6, <3>1
  <2>4. \A k \in DOMAIN todo : k + 1 \in DOMAIN job[w].todo /\ todo[k] = job[w].todo[k + 1]
    BY <1>5, <1>6
  <2> QED
    BY <2>2, <2>3, <2>4
<1>8. /\ Handling(w)
      /\ job[w] \in [step : {"looking", "found"}, event : Event, todo : Seq(Report),
                     target : Child \cup {None}, rows : [Child -> Row \cup {None}],
                     seen : Seq(Seen) \cup {None}, flags : SUBSET Refund]
      /\ job[w].seen \in Seq(Seen) \cup {None} /\ job[w].flags \in SUBSET Refund
  BY <1>2, JobTypes
<1>9. /\ kept \in [Child -> Row \cup {None}]
      /\ \A c \in Child : /\ rows[c] # child[c] => kept[c] = rows[c]
                          /\ rows[c] = child[c] => kept[c] = None
      /\ \A c \in Child : rows[c] # None
  <2>1. \A c \in Child : rows[c] \in Row /\ rows[c] # None
    BY <1>3, ConstantFacts
  <2> QED
    BY <2>1 DEF kept
<1>10. remembered \in Seq(Seen) \cup {None}
  BY <1>3, <1>8 DEF remembered
<1>11. /\ j \in [step : {"looking", "found"}, event : Event, todo : Seq(Report),
                target : Child \cup {None}, rows : [Child -> Row \cup {None}],
                seen : Seq(Seen) \cup {None}, flags : SUBSET Refund]
       /\ j.step = "looking" /\ j.event = job[w].event /\ j.todo = todo
       /\ j.rows = kept /\ j.seen = remembered /\ j.flags = job[w].flags \cup flags
  <2>1. job[w].flags \cup flags \in SUBSET Refund
    BY <1>3, <1>8
  <2>2. j = [job[w] EXCEPT !.step = "looking", !.todo = todo, !.rows = kept,
                           !.seen = remembered, !.flags = job[w].flags \cup flags]
    BY DEF j, todo
  <2> QED
    BY <1>6, <1>8, <1>9, <1>10, <2>1, <2>2
<1>12. j \in Job /\ job'[w] = j
  BY <1>1, <1>2, <1>11 DEF Job
<1>13. ~Sending(w)' /\ SendingInv(w)'
  BY <1>11, <1>12 DEF SendingInv, Sending
<1>14. /\ lock' \in [Child \cup {Source} -> Worker \cup {None}]
       /\ lock'[row] = w
       /\ \A l \in Child \cup {Source} : lock[l] = w => lock'[l] = w
       /\ \A v \in Worker \ {w}, l \in Child \cup {Source} : lock[l] = v => lock'[l] = v
  BY <1>1, <1>2, <1>3, ConstantFacts
<1>15. View(w)' = rows
  <2>1. View(w)' = [c \in Child |-> IF kept[c] # None THEN kept[c] ELSE child[c]]
    BY <1>1, <1>11, <1>12 DEF View
  <2>2. \A c \in Child : (IF kept[c] # None THEN kept[c] ELSE child[c]) = rows[c]
    BY <1>9
  <2> QED
    BY <1>3, <2>1, <2>2
<1>16. FlagsOf(w)' = F
  BY <1>1, <1>11, <1>12 DEF FlagsOf, F
<1>17. refund' = refund /\ sent' = sent /\ child' = child
  BY <1>1 DEF platform
<1>18. OverlayInv(w)'
  <2> SUFFICES ASSUME NEW c \in Child, job'[w].rows[c] # None
               PROVE  (/\ lock[Guard(c)] = w
                       /\ Later(child[c], job[w].rows[c])
                       /\ child[c].state = "absent" => job[w].rows[c].key = None
                       /\ RowOk(job[w].rows[c]) /\ RecordOk(job[w].rows[c], FlagsOf(w))
                       /\ Len(job[w].rows[c].processed) <= ProcessedCap)'
    BY DEF OverlayInv
  <2>1. job'[w].rows[c] = rows[c] /\ rows[c] # child[c]
    BY <1>9, <1>11, <1>12
  <2>2. Guard(c)' = Guard(c)
    BY <1>17 DEF Guard
  <2>3. lock'[Guard(c)] = w
    BY <1>4, <1>14, <2>1, GuardIsLock
  <2>4. RowOk(rows[c]) /\ RecordOk(rows[c], F)
    BY <1>4 DEF F
  <2>5. RowOk(job[w].rows[c])'
    BY <1>17, <2>1, <2>4 DEF RowOk
  <2>6. RecordOk(job[w].rows[c], FlagsOf(w))'
    BY <1>16, <1>17, <2>1, <2>4 DEF RecordOk
  <2>7. Later(child[c], job[w].rows[c])'
    BY <1>4, <1>17, <2>1 DEF Later
  <2> QED
    BY <1>4, <1>17, <2>1, <2>2, <2>3, <2>5, <2>6, <2>7
<1>19. job'[w].seen # None =>
           /\ lock'[Source] = w
           /\ SeenOk(job[w].seen, View(w), FlagsOf(w))'
           /\ Len(job'[w].seen) <= ProcessedCap
  <2>1. CASE row = Source
    <3>1. job'[w].seen = list
      BY <1>11, <1>12, <2>1 DEF remembered
    <3>2. SeenOk(job[w].seen, View(w), FlagsOf(w))'
      BY <1>3, <1>15, <1>16, <1>17, <3>1 DEF SeenOk, Covered
    <3> QED
      BY <1>3, <1>14, <2>1, <3>1, <3>2
  <2>2. CASE row # Source
    <3> SUFFICES ASSUME job[w].seen # None
                 PROVE  /\ lock'[Source] = w
                        /\ SeenOk(job[w].seen, View(w), FlagsOf(w))'
                        /\ Len(job'[w].seen) <= ProcessedCap
      BY <1>11, <1>12, <2>2 DEF remembered
    <3>1. job'[w].seen = list /\ list = job[w].seen
      BY <1>3, <1>11, <1>12, <2>2 DEF remembered
    <3>2. lock[Source] = w
      BY <1>2, <1>8 DEF HandlingInv
    <3>3. SeenOk(job[w].seen, View(w), FlagsOf(w))'
      BY <1>3, <1>15, <1>16, <1>17, <3>1 DEF SeenOk, Covered
    <3> QED
      BY <1>3, <1>14, <3>1, <3>2, <3>3, ConstantFacts
  <2> QED
    BY <2>1, <2>2
<1>20. \A i \in DOMAIN job[w].event.entries :
           \/ \E k \in DOMAIN todo : todo[k] = job[w].event.entries[i]
           \/ Covered(job[w].event.entries[i], rows, F)
  BY <1>5, <1>7
<1>21. \A k \in DOMAIN todo :
           \E i \in DOMAIN job[w].event.entries : todo[k] = job[w].event.entries[i]
  <2>1. \A k \in DOMAIN job[w].todo :
            \E i \in DOMAIN job[w].event.entries : job[w].todo[k] = job[w].event.entries[i]
    BY <1>2, <1>8 DEF HandlingInv
  <2> QED
    BY <1>7, <2>1
<1>22. \A p : Covered(p, rows, F) => Covered(p, View(w), FlagsOf(w))'
  BY <1>15, <1>16 DEF Covered
<1>23. job'[w].event = job[w].event /\ job'[w].todo = todo /\ job'[w].step = "looking"
  BY <1>11, <1>12
<1>24. \A i \in DOMAIN job'[w].event.entries :
           \/ \E k \in DOMAIN job'[w].todo : job'[w].todo[k] = job'[w].event.entries[i]
           \/ Covered(job[w].event.entries[i], View(w), FlagsOf(w))'
  BY <1>20, <1>22, <1>23
<1>25. job'[w].event \in sent'
  BY <1>2, <1>8, <1>17, <1>23 DEF HandlingInv
<1>26. HandlingInv(w)'
  BY <1>7, <1>18, <1>19, <1>21, <1>23, <1>24, <1>25 DEF HandlingInv
<1> QED
  BY <1>1, <1>12, <1>13, <1>14, <1>26, NoWritePreserves

\* The entry in hand.
LEMMA HeadFacts ==
    ASSUME IInv, NEW w \in Worker, Handling(w)
    PROVE  /\ job[w].todo[1] \in Report /\ job[w].todo[1].id \in Refund
           /\ job[w].todo[1].id # None /\ Told(job[w].todo[1])
           /\ job[w].event \in sent /\ job[w].event \in Event
           /\ \E i \in DOMAIN job[w].event.entries : job[w].event.entries[i] = job[w].todo[1]
           /\ \A i \in DOMAIN job[w].event.entries :
                 job[w].event.entries[i].id = job[w].todo[1].id =>
                     job[w].event.entries[i] = job[w].todo[1]
<1>1. /\ job \in [Worker -> Job] /\ HandlingInv(w) /\ \A e \in sent : TrueEvent(e)
  BY DEF IInv, TypeOK, PlatformInv
<1>2. job[w].event \in sent /\ job[w].event \in Event /\ TrueEvent(job[w].event)
  BY <1>1, JobTypes DEF HandlingInv
<1>3. 1 \in DOMAIN job[w].todo /\ job[w].todo[1] \in Report
  <2>1. job[w].todo \in Seq(Report) /\ job[w].todo # << >>
    BY <1>1, JobTypes DEF HandlingInv
  <2> QED
    BY <2>1
<1>4. PICK i \in DOMAIN job[w].event.entries : job[w].event.entries[i] = job[w].todo[1]
  BY <1>1, <1>3 DEF HandlingInv
<1>5. job[w].todo[1].id \in Refund /\ job[w].todo[1].id # None
  BY <1>3, ConstantFacts DEF Report
<1> QED
  BY <1>2, <1>3, <1>4, <1>5 DEF TrueEvent

\* The source's list as the request sees it.
Known(w) == IF job[w].seen # None THEN job[w].seen ELSE seen

\* The events a webhook finds remembered, in the row as it sees it, are accounted for.
LEMMA KnownFacts ==
    ASSUME IInv, NEW w \in Worker, Handling(w)
    PROVE  /\ Known(w) \in Seq(Seen) /\ Len(Known(w)) <= ProcessedCap
           /\ SeenOk(Known(w), View(w), FlagsOf(w))
<1>1. /\ job \in [Worker -> Job] /\ HandlingInv(w) /\ SeenOk(seen, child, flagged)
      /\ seen \in Seq(Seen) /\ Len(seen) <= ProcessedCap
  BY DEF IInv, TypeOK, StoreInv
<1>2. Onward(child, View(w)) /\ flagged \subseteq FlagsOf(w)
  BY ViewFacts DEF Onward, FlagsOf
<1>3. SeenOk(seen, View(w), FlagsOf(w))
  BY <1>1, <1>2, SeenStays
<1>4. job[w].seen # None => job[w].seen \in Seq(Seen)
  BY <1>1, JobTypes
<1> QED
  BY <1>1, <1>3, <1>4 DEF Known, HandlingInv

\* What a report makes of a child that is, or becomes, the refund's.
LEMMA UpdateFacts ==
    ASSUME NEW r \in Row, NEW p \in Report, p.id # None, Told(p), RowOk(r), r.state # "absent",
           r.provider_reference \in {None, p.id}, ~r.awaiting,
           r.provider_reference = None => ~r.rejected
    PROVE  /\ RefundUpdate(r, p) \in Row /\ RowOk(RefundUpdate(r, p))
           /\ Later(r, RefundUpdate(r, p))
           /\ RefundUpdate(r, p).provider_reference = p.id
           /\ RefundUpdate(r, p).processed = r.processed
           /\ RefundUpdate(r, p).state # "absent" /\ RefundUpdate(r, p).key = r.key
           /\ p.status = "SUCCEEDED" /\ ~Disagrees(r, p) => RefundUpdate(r, p).state = "done"
<1> DEFINE known == [r EXCEPT !.provider_reference = p.id]
           new == RefundUpdate(r, p)
<1>1. p.status \in {"PENDING", "SUCCEEDED", "FAILED"} /\ p.id \in Refund
  BY DEF Report
<1>2. /\ known \in Row /\ known.state = r.state /\ known.provider_reference = p.id
      /\ known.rejected = r.rejected /\ known.processed = r.processed
      /\ known.key = r.key /\ known.proc = r.proc /\ known.amount = r.amount
      /\ known.awaiting = r.awaiting
  BY <1>1 DEF Row
<1>3. r.state \in {"draft", "pending", "done", "error"}
  BY DEF Row
<1>4. /\ p.status = "SUCCEEDED" =>
            new = IF Disagrees(r, p) THEN known ELSE [known EXCEPT !.state = SetDone(known.state)]
      /\ p.status = "PENDING" => new = [known EXCEPT !.state = SetPending(known.state)]
      /\ p.status = "FAILED" =>
            new = [known EXCEPT !.state = SetError(known.state), !.rejected = TRUE]
  BY DEF RefundUpdate
<1> HIDE DEF known, new
<1>5. /\ SetDone(r.state) = "done"
      /\ SetPending(r.state) \in {"pending", "done", "error"}
      /\ SetPending(r.state) = "done" <=> r.state = "done"
      /\ SetPending(r.state) = "error" <=> r.state = "error"
      /\ SetError(r.state) \in {"done", "error"}
      /\ SetError(r.state) = "done" <=> r.state = "done"
  BY <1>3 DEF SetDone, SetPending, SetError
<1>6. /\ r.state = "done" => refund[p.id].status = "SUCCEEDED" /\ refund[p.id].proc = r.proc
      /\ r.rejected => refund[p.id].status = "FAILED" /\ r.state = "error"
  BY DEF RowOk
<1>7. /\ p.status = "SUCCEEDED" =>
            refund[p.id].status = "SUCCEEDED" /\ refund[p.id].proc = p.proc
      /\ p.status = "FAILED" => refund[p.id].status = "FAILED"
      /\ refund[p.id].status # "none"
  BY <1>1 DEF Told
<1>8. CASE p.status = "SUCCEEDED"
  <2>1. CASE Disagrees(r, p)
    <3>1. new = known
      BY <1>4, <1>8, <2>1
    <3>2. RowOk(known)
      BY <1>1, <1>2, <1>3, <1>6, <1>7 DEF RowOk
    <3>3. Later(r, known)
      BY <1>2, <1>3 DEF Later
    <3> QED
      BY <1>2, <2>1, <3>1, <3>2, <3>3 DEF new
  <2>2. CASE ~Disagrees(r, p)
    <3>1. p.proc = r.proc
      BY <1>8, <2>2 DEF Disagrees
    <3>2. /\ new \in Row /\ new.state = "done" /\ new.provider_reference = p.id
          /\ new.rejected = r.rejected /\ new.processed = r.processed
          /\ new.key = r.key /\ new.proc = r.proc /\ new.amount = r.amount
          /\ new.awaiting = r.awaiting
      BY <1>2, <1>4, <1>5, <1>8, <2>2 DEF Row
    <3>3. RowOk(new)
      BY <1>6, <1>7, <1>8, <3>1, <3>2 DEF RowOk
    <3>4. Later(r, new)
      BY <3>2 DEF Later
    <3> QED
      BY <3>2, <3>3, <3>4 DEF new
  <2> QED
    BY <2>1, <2>2
<1>9. CASE p.status = "PENDING"
  <2>1. /\ new \in Row /\ new.state = SetPending(r.state) /\ new.provider_reference = p.id
        /\ new.rejected = r.rejected /\ new.processed = r.processed
        /\ new.key = r.key /\ new.proc = r.proc /\ new.amount = r.amount
        /\ new.awaiting = r.awaiting
    BY <1>2, <1>4, <1>5, <1>9 DEF Row
  <2>2. RowOk(new)
    BY <1>5, <1>6, <1>7, <2>1 DEF RowOk
  <2>3. Later(r, new)
    BY <1>5, <2>1 DEF Later
  <2>4. new.state # "absent"
    BY <1>5, <2>1
  <2> QED
    BY <1>9, <2>1, <2>2, <2>3, <2>4 DEF new
<1>10. CASE p.status = "FAILED"
  <2>1. /\ new \in Row /\ new.state = SetError(r.state) /\ new.provider_reference = p.id
        /\ new.rejected /\ new.processed = r.processed
        /\ new.key = r.key /\ new.proc = r.proc /\ new.amount = r.amount
        /\ new.awaiting = r.awaiting
    <3> DEFINE st == SetError(r.state)
    <3>1. new = [known EXCEPT !.state = st, !.rejected = TRUE]
      BY <1>2, <1>4, <1>10
    <3>2. st \in {"absent", "draft", "pending", "done", "error"}
      BY <1>5
    <3> HIDE DEF st
    <3>3. /\ new \in Row /\ new.state = st /\ new.provider_reference = p.id
          /\ new.rejected = TRUE /\ new.processed = r.processed
          /\ new.key = r.key /\ new.proc = r.proc /\ new.amount = r.amount
          /\ new.awaiting = r.awaiting
      BY <1>2, <3>1, <3>2 DEF Row
    <3> QED
      BY <3>3 DEF st
  <2>2. RowOk(new)
    BY <1>5, <1>6, <1>7, <1>10, <2>1 DEF RowOk
  <2>3. Later(r, new)
    BY <1>5, <2>1 DEF Later
  <2>4. new.state # "absent"
    BY <1>5, <2>1
  <2> QED
    BY <1>10, <2>1, <2>2, <2>3, <2>4 DEF new
<1> QED
  BY <1>1, <1>8, <1>9, <1>10

LEMMA ApplyRefundUpdatePreserves ==
    ASSUME IInv, NEW w \in Worker, ApplyRefundUpdate(w)
    PROVE  IInv'
<1> DEFINE c == job[w].target
           p == job[w].todo[1]
           e == job[w].event
           seeing == View(w)
           new == [RefundUpdate(seeing[c], p) EXCEPT
                     !.processed = RememberEvent(seeing[c].processed, e, ProcessedCap)]
           rows == ApplyToChild(seeing, c, e, p)
           flags == IF ~IsReplay(seeing[c].processed, e) /\ Disagrees(seeing[c], p)
                    THEN {p.id} ELSE {}
           F == FlagsOf(w) \cup flags
<1> HIDE DEF c, p, e, seeing, new, rows, flags, F
<1>1. /\ job[w].step = "found" /\ c # None
      /\ Take(w, c, rows, Known(w), flags)
  BY DEF ApplyRefundUpdate, Known, c, p, e, seeing, rows, flags
<1>2. Handling(w)
  BY <1>1 DEF Handling
<1>3. /\ p \in Report /\ p.id \in Refund /\ p.id # None /\ Told(p)
      /\ e \in sent /\ e \in Event
      /\ \E i \in DOMAIN e.entries : e.entries[i] = p
      /\ \A i \in DOMAIN e.entries : e.entries[i].id = p.id => e.entries[i] = p
  BY <1>2, HeadFacts DEF p, e
<1>4. c \in Child /\ seeing[c].provider_reference = p.id
  <2>1. job \in [Worker -> Job] /\ HandlingInv(w)
    BY DEF IInv, TypeOK
  <2> QED
    BY <1>1, <1>2, <2>1, JobTypes DEF HandlingInv, c, p, seeing
<1>5. /\ seeing \in [Child -> Row]
      /\ \A d \in Child : seeing[d] # child[d] => lock[Guard(d)] = w
      /\ RowOk(seeing[c]) /\ RecordOk(seeing[c], FlagsOf(w))
      /\ Later(child[c], seeing[c]) \/ child[c] = seeing[c]
  BY <1>2, <1>4, ViewFacts DEF seeing
<1>6. /\ Known(w) \in Seq(Seen) /\ Len(Known(w)) <= ProcessedCap
      /\ SeenOk(Known(w), seeing, FlagsOf(w))
  BY <1>2, KnownFacts DEF seeing
<1>7. flags \in SUBSET Refund /\ FlagsOf(w) \subseteq F /\ flags \subseteq F
  BY <1>3 DEF flags, F
<1>8. CASE IsReplay(seeing[c].processed, e)
  <2>1. rows = seeing
    BY <1>8 DEF rows, ApplyToChild
  <2>2. seeing[c].processed \in Seq(Event)
    BY <1>4, <1>5 DEF Row
  <2>3. PICK k \in DOMAIN seeing[c].processed : seeing[c].processed[k] = e
    BY <1>8, <2>2, LenProperties DEF IsReplay, InSeq
  <2>4. Covered(p, rows, F)
    BY <1>3, <1>4, <1>5, <1>7, <2>1, <2>3 DEF RecordOk, Covered
  <2>5. SeenOk(Known(w), rows, F)
    BY <1>6, <1>7, <2>1, SeenStays DEF Onward
  <2>6. Applies(w, c, rows, Known(w), flags)
    BY <1>4, <1>5, <1>6, <1>7, <2>1, <2>4, <2>5 DEF Applies, Known, F, p, seeing
  <2> QED
    BY <1>1, <1>2, <2>6, TakeLast, TakeMore
<1>9. CASE ~IsReplay(seeing[c].processed, e)
  <2> DEFINE r == RefundUpdate(seeing[c], p)
  <2>1. seeing[c] \in Row /\ seeing[c].state # "absent" /\ ~seeing[c].awaiting
    BY <1>3, <1>4, <1>5 DEF RowOk
  <2>2. /\ r \in Row /\ RowOk(r) /\ Later(seeing[c], r) /\ r.provider_reference = p.id
        /\ r.processed = seeing[c].processed /\ r.state # "absent"
        /\ p.status = "SUCCEEDED" /\ ~Disagrees(seeing[c], p) => r.state = "done"
    BY <1>3, <1>4, <1>5, <2>1, UpdateFacts
  <2>3. seeing[c].processed \in Seq(Event) /\ ProcessedCap \in Nat \ {0}
    BY <2>1, ConstantFacts DEF Row
  <2>4. /\ RememberEvent(seeing[c].processed, e, ProcessedCap) \in Seq(Event)
        /\ Len(RememberEvent(seeing[c].processed, e, ProcessedCap)) <= ProcessedCap
        /\ \A x : InSeq(x, RememberEvent(seeing[c].processed, e, ProcessedCap)) =>
                InSeq(x, seeing[c].processed) \/ x = e
    BY <1>3, <1>9, <2>3, RememberFacts
  <2>5. new = [r EXCEPT !.processed = RememberEvent(seeing[c].processed, e, ProcessedCap)]
    BY DEF new
  <2> HIDE DEF r
  <2>6. /\ new \in Row /\ new.state = r.state /\ new.amount = r.amount /\ new.proc = r.proc
        /\ new.provider_reference = p.id /\ new.awaiting = r.awaiting
        /\ new.rejected = r.rejected /\ new.key = r.key
        /\ new.processed = RememberEvent(seeing[c].processed, e, ProcessedCap)
    BY <2>2, <2>4, <2>5 DEF Row
  <2>7. RowOk(new)
    BY <1>3, <2>2, <2>6 DEF RowOk
  <2>8. Later(seeing[c], new)
    BY <2>2, <2>6 DEF Later
  <2>9. p.status = "SUCCEEDED" => new.state = "done" \/ p.id \in F
    BY <1>7, <1>9, <2>2, <2>6 DEF flags
  <2>10. RecordOk(new, F)
    <3> SUFFICES ASSUME NEW i \in DOMAIN new.processed
                 PROVE  /\ new.processed[i] \in sent
                        /\ \A j \in DOMAIN new.processed[i].entries :
                              LET q == new.processed[i].entries[j]
                              IN  q.id = new.provider_reference /\ q.status = "SUCCEEDED" =>
                                      new.state = "done" \/ q.id \in F
      BY DEF RecordOk
    <3>1. InSeq(new.processed[i], new.processed)
      BY <2>4, <2>6, LenProperties DEF InSeq
    <3>2. CASE new.processed[i] = e
      BY <1>3, <2>6, <2>9, <3>2
    <3>3. CASE InSeq(new.processed[i], seeing[c].processed)
      <4>1. PICK k \in DOMAIN seeing[c].processed : seeing[c].processed[k] = new.processed[i]
        BY <2>3, <3>3, LenProperties DEF InSeq
      <4> QED
        BY <1>4, <1>5, <1>7, <2>6, <2>8, <4>1 DEF RecordOk, Later
    <3> QED
      BY <2>4, <2>6, <3>1, <3>2, <3>3
  <2>11. rows = [seeing EXCEPT ![c] = new]
    BY <1>9 DEF rows, ApplyToChild, new
  <2>12. rows \in [Child -> Row] /\ rows[c] = new /\ \A d \in Child \ {c} : rows[d] = seeing[d]
    BY <1>4, <1>5, <2>6, <2>11
  <2>13. Covered(p, rows, F)
    BY <1>4, <2>6, <2>9, <2>12 DEF Covered
  <2>14. Onward(seeing, rows)
    BY <2>8, <2>12 DEF Onward
  <2>15. SeenOk(Known(w), rows, F)
    BY <1>6, <1>7, <2>14, SeenStays
  <2>16. Guard(c) = c \/ lock[Guard(c)] = w
    BY <1>3, <1>4, <1>5 DEF Guard
  <2>17. Len(new.processed) <= ProcessedCap
    BY <2>4, <2>6
  <2>18. \A d \in Child : rows[d] # seeing[d] =>
            /\ Guard(d) = c \/ lock[Guard(d)] = w
            /\ Later(seeing[d], rows[d])
            /\ seeing[d].state = "absent" => rows[d].key = None
            /\ RowOk(rows[d]) /\ RecordOk(rows[d], F)
            /\ Len(rows[d].processed) <= ProcessedCap
    BY <2>1, <2>7, <2>8, <2>10, <2>12, <2>16, <2>17
  <2>19. Applies(w, c, rows, Known(w), flags)
    BY <1>4, <1>6, <1>7, <2>12, <2>13, <2>15, <2>18 DEF Applies, Known, F, p, seeing
  <2> QED
    BY <1>1, <1>2, <2>19, TakeLast, TakeMore
<1> QED
  BY <1>8, <1>9

\* A report of a refund no child names, and what it makes of the rows seen.
MirrorOk(rows, new, p, flags) ==
    /\ new \in [Child -> Row]
    /\ \A c \in Child : new[c] # rows[c] =>
          /\ Guard(c) = Source
          /\ Later(rows[c], new[c])
          /\ rows[c].state = "absent" => new[c].key = None
          /\ RowOk(new[c]) /\ new[c].processed = << >>
    /\ p.status = "SUCCEEDED" =>
          \/ p.id \in flags
          \/ \E c \in Child : new[c].state = "done" /\ new[c].provider_reference = p.id

\* An attempt that waits for its answer no more.
LEMMA FreedFacts ==
    ASSUME NEW r \in Row, RowOk(r), r.awaiting, r.provider_reference = None
    PROVE  LET f == [r EXCEPT !.awaiting = FALSE]
           IN  /\ f \in Row /\ RowOk(f) /\ Later(r, f) /\ ~f.awaiting /\ ~f.rejected
               /\ f.state # "absent" /\ r.state # "absent" /\ f.processed = << >>
               /\ f.provider_reference = None /\ f.key = r.key /\ f.proc = r.proc
               /\ [r EXCEPT !.awaiting = FALSE, !.proc = r.proc] = f
<1> DEFINE f == [r EXCEPT !.awaiting = FALSE]
<1>1. /\ f \in Row /\ f.state = r.state /\ f.amount = r.amount /\ f.proc = r.proc
      /\ f.provider_reference = None /\ f.awaiting = FALSE /\ f.rejected = r.rejected
      /\ f.key = r.key /\ f.processed = r.processed
      /\ [r EXCEPT !.awaiting = FALSE, !.proc = r.proc] = f
  BY DEF Row
<1> HIDE DEF f
<1>2. ~r.rejected /\ r.state # "absent" /\ r.processed = << >> /\ r.state # "done"
  BY DEF RowOk
<1>3. RowOk(f)
  BY <1>1, <1>2 DEF RowOk
<1>4. Later(r, f)
  BY <1>1, <1>2 DEF Later
<1> QED
  BY <1>1, <1>2, <1>3, <1>4 DEF f

\* Adopting an attempt, mirroring a refund, or noting one that cannot be told apart
\* from several attempts, each leave the report covered.
LEMMA AdoptFacts ==
    ASSUME IInv, NEW w \in Worker, Handling(w), NEW p \in Report, p.id # None, Told(p),
           Unresolved(View(w), p) # {}
    PROVE  MirrorOk(View(w), Adopt(View(w), Unresolved(View(w), p), p), p, {})
<1> DEFINE rows == View(w)
           C == Unresolved(rows, p)
           m == Min(C)
           Freed(c) == [rows[c] EXCEPT !.awaiting = FALSE]
           first == RefundUpdate(Freed(m), p)
           new == Adopt(rows, C, p)
<1> HIDE DEF rows, m, Freed, first, new
<1>1. /\ rows \in [Child -> Row]
      /\ \A c \in Child : RowOk(rows[c]) /\ (rows[c] # child[c] => Later(child[c], rows[c]))
  BY ViewFacts DEF rows
<1>2. \A c \in C : /\ c \in Child /\ rows[c].awaiting
                   /\ rows[c].provider_reference = None /\ rows[c].proc = p.proc
  BY DEF Unresolved
<1>3. C \in SUBSET Nat /\ C # {}
  BY DEF Unresolved, Child, rows
<1> HIDE DEF C
<1>4. m \in C /\ m \in Child
  BY <1>2, <1>3, MinFacts DEF m
<1>5. ASSUME NEW c \in C
      PROVE  /\ Freed(c) \in Row /\ RowOk(Freed(c)) /\ Later(rows[c], Freed(c))
             /\ ~Freed(c).awaiting /\ ~Freed(c).rejected
             /\ Freed(c).state # "absent" /\ rows[c].state # "absent"
             /\ Freed(c).processed = << >> /\ Freed(c).provider_reference = None
             /\ Freed(c).key = rows[c].key /\ Freed(c).proc = p.proc
             /\ [rows[c] EXCEPT !.awaiting = FALSE, !.proc = p.proc] = Freed(c)
             /\ Guard(c) = Source
  <2>1. /\ rows[c] \in Row /\ RowOk(rows[c]) /\ rows[c].awaiting
        /\ rows[c].provider_reference = None /\ rows[c].proc = p.proc
    BY <1>1, <1>2
  <2>2. child[c].provider_reference = None
    BY <1>1, <1>2, <2>1 DEF Later
  <2> QED
    BY <2>1, <2>2, FreedFacts DEF Freed, Guard
<1>6. /\ first \in Row /\ RowOk(first) /\ Later(Freed(m), first)
      /\ first.provider_reference = p.id /\ first.processed = << >>
      /\ p.status = "SUCCEEDED" /\ ~Disagrees(Freed(m), p) => first.state = "done"
  BY <1>4, <1>5, UpdateFacts DEF first
<1>7. ~Disagrees(Freed(m), p)
  <2>1. p.proc > 0 /\ p.proc \in Nat
    BY DEF Told, Report
  <2>2. Freed(m).proc = p.proc
    BY <1>4, <1>5
  <2>3. Freed(m).proc # 0
    BY <2>1, <2>2
  <2> QED
    BY <2>2, <2>3 DEF Disagrees
<1>8. Later(rows[m], first)
  <2>1. rows[m] \in Row
    BY <1>1, <1>4
  <2> QED
    BY <1>4, <1>5, <1>6, <2>1, LaterTransitive
<1>9. \A c \in Child : /\ c = m => new[c] = first
                       /\ c \in C \ {m} => new[c] = Freed(c)
                       /\ c \notin C => new[c] = rows[c]
  <2>1. new = [c \in Child |-> IF c = m
                              THEN RefundUpdate([rows[c] EXCEPT !.awaiting = FALSE, !.proc = p.proc], p)
                              ELSE IF c \in C THEN [rows[c] EXCEPT !.awaiting = FALSE]
                              ELSE rows[c]]
    BY DEF new, Adopt, m
  <2>2. [rows[m] EXCEPT !.awaiting = FALSE, !.proc = p.proc] = Freed(m)
    BY <1>4, <1>5
  <2>3. new[m] = first
    BY <1>4, <2>1, <2>2 DEF first
  <2>4. \A c \in C \ {m} : new[c] = Freed(c)
    BY <1>2, <2>1 DEF Freed
  <2>5. \A c \in Child \ C : new[c] = rows[c]
    BY <1>4, <2>1
  <2> QED
    BY <2>3, <2>4, <2>5
<1>10. new \in [Child -> Row]
  <2>1. new = [c \in Child |-> new[c]]
    BY DEF new, Adopt
  <2>2. \A c \in Child : new[c] \in Row
    BY <1>1, <1>4, <1>5, <1>6, <1>9
  <2> QED
    BY <2>1, <2>2
<1>11. ASSUME NEW c \in Child, new[c] # rows[c]
       PROVE  /\ Guard(c) = Source
              /\ Later(rows[c], new[c])
              /\ rows[c].state = "absent" => new[c].key = None
              /\ RowOk(new[c]) /\ new[c].processed = << >>
  <2>1. CASE c = m
    BY <1>4, <1>5, <1>6, <1>8, <1>9, <2>1
  <2>2. CASE c \in C \ {m}
    BY <1>5, <1>9, <2>2
  <2> QED
    BY <1>9, <1>11, <2>1, <2>2
<1>12. p.status = "SUCCEEDED" =>
           \E c \in Child : new[c].state = "done" /\ new[c].provider_reference = p.id
  BY <1>4, <1>6, <1>7, <1>9
<1>13. MirrorOk(rows, new, p, {})
  BY <1>10, <1>11, <1>12 DEF MirrorOk
<1> QED
  BY <1>13 DEF new, C, rows

LEMMA MirroredFacts ==
    ASSUME IInv, NEW w \in Worker, Handling(w), NEW p \in Report, p.id # None, Told(p),
           FreeChild # {}
    PROVE  MirrorOk(View(w), [View(w) EXCEPT ![Min(FreeChild)] = Mirrored(p)], p, {})
<1> DEFINE rows == View(w)
           c == Min(FreeChild)
           amount == IF p.details THEN Present(p.proc) ELSE p.proc
           draft == [NoRow EXCEPT !.state = "draft", !.proc = p.proc, !.amount = amount]
           row == Mirrored(p)
           new == [rows EXCEPT ![c] = row]
<1> HIDE DEF rows, c, amount, draft, row, new
<1>1. p.proc \in Nat /\ p.proc > 0
  BY DEF Told, Report
<1>2. amount \in Nat
  BY <1>1, MoneyTypes DEF amount
<1>3. /\ draft \in Row /\ draft.state = "draft" /\ draft.proc = p.proc
      /\ draft.provider_reference = None /\ ~draft.awaiting /\ ~draft.rejected
      /\ draft.key = None /\ draft.processed = << >>
  <2>1. draft = [NoRow EXCEPT !.state = "draft", !.proc = p.proc, !.amount = amount]
    BY DEF draft
  <2>2. p.proc \in Int
    BY <1>1
  <2> QED
    BY <1>2, <2>1, <2>2, NoRowFacts DEF Row
<1>4. RowOk(draft)
  BY <1>3 DEF RowOk
<1>5. row = RefundUpdate(draft, p)
  BY DEF row, Mirrored, draft, amount
<1>6. ~Disagrees(draft, p)
  BY <1>1, <1>3 DEF Disagrees
<1>7. /\ row \in Row /\ RowOk(row) /\ row.state # "absent"
      /\ row.provider_reference = p.id /\ row.processed = << >> /\ row.key = None
      /\ p.status = "SUCCEEDED" => row.state = "done"
  BY <1>3, <1>4, <1>5, <1>6, UpdateFacts
<1>8. c \in Child /\ child[c].state = "absent" /\ Clear(w, c)
  BY FreeFacts DEF c
<1>9. /\ child \in [Child -> Row] /\ job \in [Worker -> Job]
      /\ RowOk(child[c])
  BY <1>8 DEF IInv, TypeOK, StoreInv
<1>10. rows \in [Child -> Row] /\ rows[c] = child[c]
  BY <1>8, <1>9, ViewTypes DEF Clear, rows
<1>11. Guard(c) = Source /\ Later(rows[c], row)
  BY <1>7, <1>8, <1>9, <1>10 DEF Guard, RowOk, Later
<1>12. new \in [Child -> Row] /\ new[c] = row /\ \A d \in Child \ {c} : new[d] = rows[d]
  BY <1>7, <1>8, <1>10 DEF new
<1>13. MirrorOk(rows, new, p, {})
  BY <1>7, <1>8, <1>11, <1>12 DEF MirrorOk
<1> QED
  BY <1>13 DEF rows, new, c, row

LEMMA MirrorFacts ==
    ASSUME IInv, NEW w \in Worker, Handling(w), NEW p \in Report, p.id # None, Told(p),
           Unresolved(View(w), p) = {} => FreeChild # {}
    PROVE  MirrorOk(View(w), Mirror(View(w), p), p,
                    IF Escalates(View(w), p) THEN {p.id} ELSE {})
<1> DEFINE rows == View(w)
           C == Unresolved(rows, p)
<1>1. rows \in [Child -> Row]
  BY ViewFacts
<1> HIDE DEF rows, C
<1>2. MirrorOk(rows, rows, p, {p.id})
  BY <1>1 DEF MirrorOk
<1>3. CASE C # {} /\ ~Ambiguous(C, rows)
  <2>1. MirrorOk(rows, Adopt(rows, C, p), p, {})
    BY <1>3, AdoptFacts DEF rows, C
  <2>2. Mirror(rows, p) = Adopt(rows, C, p) /\ ~Escalates(rows, p)
    BY <1>3 DEF Mirror, Escalates, C
  <2> QED
    BY <2>1, <2>2 DEF rows
<1>4. CASE C # {} /\ Ambiguous(C, rows)
  <2>1. Mirror(rows, p) = rows /\ Escalates(rows, p)
    BY <1>4 DEF Mirror, Escalates, C
  <2> QED
    BY <1>2, <2>1 DEF rows
<1>5. CASE C = {} /\ Unmirrorable(p)
  <2>1. Mirror(rows, p) = rows /\ Escalates(rows, p)
    BY <1>5 DEF Mirror, Escalates, C
  <2> QED
    BY <1>2, <2>1 DEF rows
<1>6. CASE C = {} /\ ~Unmirrorable(p)
  <2>1. MirrorOk(rows, [rows EXCEPT ![Min(FreeChild)] = Mirrored(p)], p, {})
    BY <1>6, MirroredFacts DEF rows, C
  <2>2. Mirror(rows, p) = [rows EXCEPT ![Min(FreeChild)] = Mirrored(p)] /\ ~Escalates(rows, p)
    BY <1>6 DEF Mirror, Escalates, C
  <2> QED
    BY <2>1, <2>2 DEF rows
<1> QED
  BY <1>3, <1>4, <1>5, <1>6

LEMMA MirrorExternalRefundPreserves ==
    ASSUME IInv, NEW w \in Worker, MirrorExternalRefund(w)
    PROVE  IInv'
<1> DEFINE rows == View(w)
           p == job[w].todo[1]
           e == job[w].event
           list == Known(w)
           id == <<e, p.id>>
           new == Mirror(rows, p)
           told == RememberEvent(list, id, ProcessedCap)
           flags == IF Escalates(rows, p) THEN {p.id} ELSE {}
           F == FlagsOf(w) \cup flags
<1> HIDE DEF rows, p, e, list, id, new, told, flags, F
<1>1. /\ job[w].step = "found"
      /\ IF IsReplay(list, id) THEN Take(w, Source, rows, list, {})
         ELSE /\ Unresolved(rows, p) = {} => FreeChild # {}
              /\ Take(w, Source, new, told, flags)
  BY DEF MirrorExternalRefund, DedupeKey, Known, rows, p, e, list, id, new, told, flags
<1>2. Handling(w)
  BY <1>1 DEF Handling
<1>3. /\ p \in Report /\ p.id \in Refund /\ p.id # None /\ Told(p)
      /\ e \in sent /\ e \in Event
      /\ \E i \in DOMAIN e.entries : e.entries[i] = p
      /\ \A i \in DOMAIN e.entries : e.entries[i].id = p.id => e.entries[i] = p
  BY <1>2, HeadFacts DEF p, e
<1>4. /\ rows \in [Child -> Row]
      /\ list \in Seq(Seen) /\ Len(list) <= ProcessedCap
      /\ SeenOk(list, rows, FlagsOf(w))
  BY <1>2, ViewFacts, KnownFacts DEF rows, list
<1>5. id \in Seen /\ id[1] = e /\ id[2] = p.id
  BY <1>3 DEF id, Seen
<1>6. Source \in Child \cup {Source}
  BY ConstantFacts
<1>7. CASE IsReplay(list, id)
  <2>1. PICK k \in DOMAIN list : list[k] = id
    BY <1>4, <1>7, LenProperties DEF IsReplay, InSeq
  <2>2. Covered(p, rows, FlagsOf(w))
    BY <1>3, <1>4, <1>5, <2>1 DEF SeenOk
  <2>3. FlagsOf(w) \cup {} = FlagsOf(w) /\ {} \in SUBSET Refund
    OBVIOUS
  <2>4. Applies(w, Source, rows, list, {})
    BY <1>4, <1>6, <2>2, <2>3 DEF Applies, p, rows
  <2> QED
    BY <1>1, <1>2, <1>7, <2>4, TakeLast, TakeMore
<1>8. CASE ~IsReplay(list, id)
  <2>1. MirrorOk(rows, new, p, flags)
    BY <1>1, <1>2, <1>3, <1>8, MirrorFacts DEF rows, new, flags
  <2>2. /\ told \in Seq(Seen) /\ Len(told) <= ProcessedCap
        /\ \A x : InSeq(x, told) => InSeq(x, list) \/ x = id
    BY <1>4, <1>5, <1>8, ConstantFacts, RememberFacts DEF told
  <2>3. flags \in SUBSET Refund /\ FlagsOf(w) \subseteq F /\ flags \subseteq F
    BY <1>3 DEF flags, F
  <2>4. Onward(rows, new)
    BY <2>1 DEF MirrorOk, Onward
  <2>5. Covered(p, new, F)
    BY <2>1, <2>3 DEF MirrorOk, Covered
  <2>6. SeenOk(list, new, F)
    BY <1>4, <2>3, <2>4, SeenStays
  <2>7. SeenOk(told, new, F)
    <3> SUFFICES ASSUME NEW i \in DOMAIN told
                 PROVE  /\ told[i][1] \in sent
                        /\ \A j \in DOMAIN told[i][1].entries :
                              told[i][1].entries[j].id = told[i][2] =>
                                  Covered(told[i][1].entries[j], new, F)
      BY DEF SeenOk
    <3>1. InSeq(told[i], told)
      BY <2>2, LenProperties DEF InSeq
    <3>2. CASE told[i] = id
      <4>1. told[i][1] = e /\ told[i][2] = p.id
        BY <1>5, <3>2
      <4> QED
        BY <1>3, <2>5, <4>1
    <3>3. CASE InSeq(told[i], list)
      <4>1. PICK k \in DOMAIN list : list[k] = told[i]
        BY <1>4, <3>3, LenProperties DEF InSeq
      <4> QED
        BY <2>6, <4>1 DEF SeenOk
    <3> QED
      BY <2>2, <3>1, <3>2, <3>3
  <2>8. \A c \in Child : new[c] # rows[c] =>
           /\ Guard(c) = Source
           /\ Later(rows[c], new[c])
           /\ rows[c].state = "absent" => new[c].key = None
           /\ RowOk(new[c]) /\ RecordOk(new[c], F)
           /\ Len(new[c].processed) <= ProcessedCap
    <3>1. DOMAIN << >> = {} /\ Len(<< >>) <= ProcessedCap
      BY ConstantFacts
    <3> QED
      BY <2>1, <3>1 DEF MirrorOk, RecordOk
  <2>9. new \in [Child -> Row]
    BY <2>1 DEF MirrorOk
  <2>10. Applies(w, Source, new, told, flags)
    BY <1>6, <2>2, <2>3, <2>5, <2>7, <2>8, <2>9 DEF Applies, p, rows, F
  <2> QED
    BY <1>1, <1>2, <1>8, <2>10, TakeLast, TakeMore
<1> QED
  BY <1>7, <1>8

-----------------------------------------------------------------------------
(* The theorems.                                                           *)

LEMMA InitIInv ==
    ASSUME Init
    PROVE  IInv
<1> USE DEF Init
<1>1. TypeOK
  <2>1. << >> \in Seq(Seen) /\ Len(<< >>) = 0
    OBVIOUS
  <2>2. NoRow \in Row /\ NoRow.processed = << >>
    BY NoRowFacts
  <2>3. NoRefund \in PlatformRow
    BY DEF NoRefund, PlatformRow
  <2>4. Idle \in Job
    BY DEF Idle, Job
  <2> QED
    BY <2>1, <2>2, <2>3, <2>4, ConstantFacts DEF TypeOK
<1>2. \A r \in Refund : refund[r].status = "none"
  BY DEF NoRefund
<1>3. PlatformInv
  <2> DEFINE all == {r \in Refund : refund[r].status # "none"}
  <2>1. all = {}
    BY <1>2
  <2>2. IsFiniteSet({}) /\ Cardinality({}) = 0
    BY FS_EmptySet
  <2> HIDE DEF all
  <2>3. /\ IsFiniteSet(all)
        /\ \A n \in 1 .. Cardinality(all) : \E r \in all : refund[r].age = n
        /\ \A r \in all : refund[r].proc > 0
    BY <2>1, <2>2
  <2>4. Numbered(refund)
    BY <2>3 DEF Numbered, all
  <2> QED
    BY <2>4 DEF PlatformInv
<1>4. \A c \in Child : /\ child[c].state = "absent" /\ child[c].provider_reference = None
                       /\ ~child[c].rejected /\ ~child[c].awaiting /\ child[c].key = None
                       /\ child[c].processed = << >>
  BY DEF NoRow
<1>5. StoreInv
  <2>1. DOMAIN << >> = {}
    OBVIOUS
  <2> QED
    BY <1>4, <2>1 DEF StoreInv, RowOk, RecordOk, SeenOk, AckedRefundOnRecord
<1>6. \A w \in Worker : job[w].step = "idle"
  BY DEF Idle
<1>7. \A w \in Worker : SendingInv(w) /\ HandlingInv(w) /\ ~Sending(w)
  BY <1>6 DEF SendingInv, HandlingInv, Sending, Handling
<1>8. KeyInv
  BY <1>4, <1>7 DEF KeyInv
<1> QED
  BY <1>1, <1>3, <1>5, <1>7, <1>8 DEF IInv

LEMMA StutterPreserves ==
    ASSUME IInv, UNCHANGED vars
    PROVE  IInv'
<1> USE DEF vars
<1>1. TypeOK'
  BY DEF IInv, TypeOK
<1>2. PlatformStays
  BY UnchangedPlatform
<1> QED
  BY <1>2, QuietPreserves DEF store

\* Every step keeps the invariant.
LEMMA NextPreserves ==
    ASSUME IInv, [Next]_vars
    PROVE  IInv'
<1>1. ASSUME NEW w \in Worker, RequestStep(w) PROVE IInv'
  <2>1. CASE \E amount \in 1 .. SourceAmount : SubmitRefund(w, amount) \/ SubmitRefused(w, amount)
    BY <2>1, SubmitRefundPreserves, SubmitRefusedPreserves
  <2>2. CASE SubmitAnswered(w)
    BY <2>2, SubmitAnsweredPreserves
  <2>3. CASE SubmitLost(w)
    BY <2>3, SubmitLostPreserves
  <2>4. CASE \E e \in sent : Deliver(w, e)
    BY <2>4, DeliverPreserves
  <2>5. CASE LookUp(w)
    BY <2>5, LookUpPreserves
  <2>6. CASE ApplyRefundUpdate(w)
    BY <2>6, ApplyRefundUpdatePreserves
  <2>7. CASE MirrorExternalRefund(w)
    BY <2>7, MirrorExternalRefundPreserves
  <2>8. CASE LockBusy(w)
    BY <2>8, LockBusyPreserves
  <2>9. CASE Abort(w)
    BY <2>9, AbortPreserves
  <2> QED
    BY <1>1, <2>1, <2>2, <2>3, <2>4, <2>5, <2>6, <2>7, <2>8, <2>9 DEF RequestStep
<1>2. CASE PlatformStep
  <2>1. ASSUME NEW w \in Worker, PlatformReplay(w) \/ PlatformRefuse(w) PROVE IInv'
    BY <2>1, PlatformReplayPreserves, PlatformRefusePreserves
  <2>2. ASSUME NEW w \in Worker, NEW r \in Refund, NEW status \in Outcomes,
               PlatformRefund(w, r, status)
        PROVE  IInv'
    BY <2>2, PlatformRefundPreserves
  <2>3. ASSUME NEW c \in Child, NEW r \in Refund, NEW status \in Outcomes,
               PlatformLate(c, r, status)
        PROVE  IInv'
    BY <2>3, PlatformLatePreserves
  <2>4. ASSUME NEW r \in Refund, NEW proc \in 1 .. SourceProcessing, NEW details \in BOOLEAN,
               DashboardRefund(r, proc, details)
        PROVE  IInv'
    BY <2>4, DashboardRefundPreserves
  <2>5. ASSUME NEW r \in Refund, NEW status \in {"SUCCEEDED", "FAILED"}, Resolve(r, status)
        PROVE  IInv'
    BY <2>5, ResolvePreserves
  <2> QED
    BY <1>2, <2>1, <2>2, <2>3, <2>4, <2>5 DEF PlatformStep
<1>3. CASE UNCHANGED vars
  BY <1>3, StutterPreserves
<1> QED
  BY <1>1, <1>2, <1>3 DEF Next

\* IInv holds throughout: what a request at work means to commit is a later
\* form of what is committed, and everything a row says of a refund is so.
THEOREM RefundInvariance == Spec => []IInv
<1>1. Init => IInv
  BY InitIInv
<1>2. IInv /\ [Next]_vars => IInv'
  BY NextPreserves
<1> QED
  BY <1>1, <1>2, PTL DEF Spec

\* Every variable keeps its type, whatever the platform refunds: its amounts
\* and the counts in the keys included.
THEOREM RefundTypeCorrect == Spec => []TypeOK
<1>1. IInv => TypeOK
  BY DEF IInv
<1> QED
  BY <1>1, RefundInvariance, PTL

\* A child recorded as done names a refund that the platform completed, of
\* the very amount the child was sent for.
THEOREM DoneIsRefundedHolds == Spec => []DoneIsRefunded
<1>1. IInv => DoneIsRefunded
  BY DEF IInv, StoreInv, RowOk, DoneIsRefunded
<1> QED
  BY <1>1, RefundInvariance, PTL

\* A refused attempt stays refused and is not waited for.
THEOREM RejectedIsSettledHolds == Spec => []RejectedIsSettled
<1>1. IInv => RejectedIsSettled
  BY DEF IInv, StoreInv, RowOk, RejectedIsSettled
<1> QED
  BY <1>1, RefundInvariance, PTL

\* Every refund a webhook answered with 200 reported as completed is on
\* record, or in front of a human: no interleaving of requests loses one.
THEOREM AckedRefundIsOnRecord == Spec => []AckedRefundOnRecord
<1>1. IInv => AckedRefundOnRecord
  BY DEF IInv, StoreInv
<1> QED
  BY <1>1, RefundInvariance, PTL

\* The key a request is sent with counts every attempt that was completed or
\* refused before it, so it is the key of none of them.
LEMMA SendsFresh ==
    ASSUME IInv, [Next]_vars, NEW w \in Worker, Sends(w),
           NEW c \in Child, child[c].state = "done" \/ child[c].rejected
    PROVE  child[c].key # job'[w].key
<1>1. /\ job \in [Worker -> Job] /\ child \in [Child -> Row] /\ KeyInv
  BY DEF IInv, TypeOK
<1>2. job[w].step # "posting" /\ job'[w].step = "posting"
  BY DEF Sends
<1>3. PICK amount \in 1 .. SourceAmount : SubmitRefund(w, amount)
  <2>1. ASSUME NEW v \in Worker, RequestStep(v),
               ~\E amount \in 1 .. SourceAmount : v = w /\ SubmitRefund(w, amount)
        PROVE  job'[w] = job[w] \/ job'[w].step # "posting"
    <3>1. CASE v # w
      BY <1>1, <2>1, <3>1
         DEF RequestStep, SubmitRefund, SubmitRefused, SubmitAnswered, SubmitLost, Deliver, LookUp,
             ApplyRefundUpdate, MirrorExternalRefund, LockBusy, Abort, Take
    <3>2. CASE v = w
      <4>1. CASE \E amount \in 1 .. SourceAmount : SubmitRefused(w, amount)
        BY <4>1 DEF SubmitRefused
      <4>2. CASE SubmitAnswered(w) \/ SubmitLost(w) \/ Abort(w) \/ LockBusy(w)
        BY <1>1, <4>2 DEF SubmitAnswered, SubmitLost, Abort, LockBusy, Idle
      <4>3. CASE \E e \in sent : Deliver(w, e)
        BY <1>1, <4>3 DEF Deliver
      <4>4. CASE LookUp(w)
        <5>1. job[w].step = "looking"
          BY <4>4 DEF LookUp
        <5>2. Handling(w)
          BY <5>1 DEF Handling
        <5>3. job[w] \in [step : {"looking", "found"}, event : Event, todo : Seq(Report),
                         target : Child \cup {None}, rows : [Child -> Row \cup {None}],
                         seen : Seq(Seen) \cup {None}, flags : SUBSET Refund]
          BY <1>1, <5>2, JobTypes
        <5> QED
          BY <1>1, <4>4, <5>3 DEF LookUp
      <4>5. ASSUME job[w].step = "found", NEW row, NEW rows, NEW list, NEW flags,
                   Take(w, row, rows, list, flags)
            PROVE  job'[w].step # "posting"
        <5>1. Handling(w)
          BY <4>5 DEF Handling
        <5>2. job[w] \in [step : {"looking", "found"}, event : Event, todo : Seq(Report),
                         target : Child \cup {None}, rows : [Child -> Row \cup {None}],
                         seen : Seq(Seen) \cup {None}, flags : SUBSET Refund]
          BY <1>1, <5>1, JobTypes
        <5>3. CASE Len(job[w].todo) = 1
          <6>1. job' = [job EXCEPT ![w] = Idle]
            BY <4>5, <5>3 DEF Take
          <6> QED
            BY <1>1, <6>1 DEF Idle
        <5>4. CASE Len(job[w].todo) # 1
          <6> DEFINE todo == Tail(job[w].todo)
                     kept == [d \in Child |-> IF rows[d] # child[d] THEN rows[d] ELSE None]
                     remembered == IF row = Source THEN list ELSE job[w].seen
                     f == job[w].flags \cup flags
                     j == [job[w] EXCEPT !.step = "looking", !.todo = todo, !.rows = kept,
                                         !.seen = remembered, !.flags = f]
          <6>1. job' = [job EXCEPT ![w] = j]
            BY <1>1, <4>5, <5>4 DEF Take
          <6> HIDE DEF todo, kept, remembered, f
          <6>2. j.step = "looking"
            BY <5>2
          <6> HIDE DEF j
          <6> QED
            BY <1>1, <6>1, <6>2
        <5> QED
          BY <5>3, <5>4
      <4>6. CASE ApplyRefundUpdate(w) \/ MirrorExternalRefund(w)
        BY <4>5, <4>6 DEF ApplyRefundUpdate, MirrorExternalRefund
      <4> QED
        BY <2>1, <3>2, <4>1, <4>2, <4>3, <4>4, <4>6 DEF RequestStep
    <3> QED
      BY <3>1, <3>2
  <2>2. CASE PlatformStep
    BY <1>1, <1>2, <2>2
       DEF PlatformStep, PlatformReplay, PlatformRefuse, PlatformRefund, PlatformAnswer,
           PlatformLate, DashboardRefund, Resolve, store
  <2>3. CASE UNCHANGED vars
    BY <1>2, <2>3 DEF vars
  <2> QED
    BY <1>2, <2>1, <2>2, <2>3 DEF Next
<1>4. job'[w].key = RefundKey(amount)
  BY <1>1, <1>3 DEF SubmitRefund
<1>5. amount \in Nat
  BY ConstantsAssumption
<1>6. /\ RefundKey(amount) \in Key
      /\ RefundKey(amount).recorded = Recorded /\ RefundKey(amount).rejected = Rejected
  BY <1>1, <1>5, KeyTypes DEF RefundKey
<1>7. CASE child[c].key = None
  BY <1>4, <1>6, <1>7, ConstantFacts
<1>8. CASE child[c].key # None
  <2>1. child[c].key \in Key
    BY <1>1, <1>8 DEF Row
  <2>2. child[c].key.recorded < Recorded \/ child[c].key.rejected < Rejected
    BY <1>1, <1>8 DEF KeyInv
  <2>3. Recorded \in Nat /\ Rejected \in Nat
    BY <1>6 DEF Key
  <2> QED
    BY <1>4, <1>6, <2>1, <2>2, <2>3 DEF Key
<1> QED
  BY <1>7, <1>8

\* refund_key: no request is ever sent under the key of an attempt that was
\* completed or refused, so no refund is mistaken for one made before.
THEOREM KeysAreNotReused == Spec => SettledKeyNotReused
<1>1. IInv /\ [Next]_vars =>
        [\A w \in Worker : Sends(w) =>
            \A c \in Child : child[c].state = "done" \/ child[c].rejected =>
                child[c].key # job'[w].key]_vars
  BY SendsFresh
<1> QED
  BY <1>1, RefundInvariance, PTL DEF Spec, SettledKeyNotReused

=============================================================================
