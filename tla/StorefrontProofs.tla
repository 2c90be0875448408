-------------------------- MODULE StorefrontProofs --------------------------
(* Storefront's inductive invariant, for any number of requests, accounts   *)
(* and customers and at either isolation, and what follows from it.         *)
EXTENDS Storefront, TLAPS

-----------------------------------------------------------------------------
(***************************************************************************)
(* The inductive invariant.                                                *)
(***************************************************************************)
Refreshers == {"page", "checkout", "refresh"}
Provisioners == {"consent", "setup"}

\* What a request at a step is doing.
KindOfStep(w) ==
    /\ job[w].step \in {"due", "stamped", "asked"} => job[w].kind \in Refreshers
    /\ job[w].step \in {"body", "retry"} => job[w].kind = "checkout"
    /\ job[w].step = "stamping" => job[w].kind = "webhook"
    /\ job[w].step \in {"locking", "provisioning"} => job[w].kind \in Provisioners
    /\ job[w].step = "clearing" => job[w].kind = "disconnect"
    /\ job[w].step \in {"due", "stamped", "asked", "body", "locking"} => ~job[w].relinks

\* Who has written the row holds it, and so does who talks to the platform
\* about the account.
HolderOfStep(w) ==
    /\ job[w].columns # {} => job[w].holds
    /\ job[w].step \in {"stamped", "asked", "provisioning"} => job[w].holds

OneHolder == \A v, w \in Worker : job[v].holds /\ job[w].holds => v = w

\* A request writes the columns it is about; the key it asks with is the row's.
ColumnsInv(w) ==
    /\ job[w].columns \subseteq About(job[w].kind)
    /\ job[w].step \in Waiting \cup {"idle", "provisioning"} => job[w].columns = {}
    /\ job[w].step = "asked" => job[w].key = prov.key

\* An account is only written with the key it belongs to.
DraftInv(w) ==
    LET d == job[w].draft
        c == job[w].columns
    IN  c # {} =>
          \/ job[w].kind \in Refreshers /\ ("account" \in c => d.account = prov.key)
          \/ job[w].kind = "webhook"
          \/ /\ job[w].kind \in Provisioners
             /\ \/ c = Column /\ d.account = d.key
                \/ "incomplete" \in c /\ d.incomplete
          \/ job[w].kind = "disconnect" /\ c = Column /\ d.account = None

\* Where a request sees one state of the row, what made it refresh the account
\* still holds when it asks.
SnapshotInv(w) ==
    Repeatable =>
        /\ job[w].step = "due" /\ ~job[w].stale /\ Passive(w) => Old(prov)
        /\ job[w].step = "stamped" /\ Passive(w) => Old(prov)

\* Where it sees one state of the partner, the link it writes lacks a customer
\* only on the plane, and for the account, that does not know it.
LinkInv(w) ==
    Repeatable /\ ~job[w].staleLink =>
        /\ job[w].kind = "checkout" /\ ~job[w].relinks => job[w].link = link
        /\ job[w].relinks =>
              \A p \in Plane :
                  link[p] # None /\ job[w].link[p] = None =>
                      PlaneOf(job[w].key) = p /\ owner[link[p]] # job[w].key

JobInv(w) ==
    /\ KindOfStep(w) /\ HolderOfStep(w) /\ ColumnsInv(w)
    /\ DraftInv(w) /\ SnapshotInv(w) /\ LinkInv(w)

IInv ==
    /\ TypeOK
    /\ AccountFitsKey
    /\ OneHolder
    /\ \A w \in Worker : JobInv(w)

-----------------------------------------------------------------------------
(***************************************************************************)
(* Rows.                                                                   *)
(***************************************************************************)
LEMMA ColumnsOf == Column = {"key", "account", "fetched_at", "health", "incomplete"}
  BY DEF Column, Blank

\* A row without a connection is a row, and a row with some columns written is one.
LEMMA BlankRow == Blank \in Row
  BY DEF Blank, Row

\* Merging two rows takes each column from one of them.
LEMMA MergedColumns ==
    ASSUME NEW r, NEW columns, NEW d
    PROVE  LET m == Merged(r, columns, d)
           IN  /\ m.key = IF "key" \in columns THEN d.key ELSE r.key
               /\ m.account = IF "account" \in columns THEN d.account ELSE r.account
               /\ m.fetched_at = IF "fetched_at" \in columns THEN d.fetched_at ELSE r.fetched_at
               /\ m.health = IF "health" \in columns THEN d.health ELSE r.health
               /\ m.incomplete = IF "incomplete" \in columns THEN d.incomplete ELSE r.incomplete
  BY ColumnsOf DEF Merged

LEMMA MergedRow ==
    ASSUME NEW r \in Row, NEW columns, NEW d \in Row
    PROVE  Merged(r, columns, d) \in Row
<1>1. DOMAIN Merged(r, columns, d) = {"key", "account", "fetched_at", "health", "incomplete"}
  BY ColumnsOf DEF Merged
<1>2. Merged(r, columns, d) =
        [key |-> Merged(r, columns, d).key, account |-> Merged(r, columns, d).account,
         fetched_at |-> Merged(r, columns, d).fetched_at,
         health |-> Merged(r, columns, d).health,
         incomplete |-> Merged(r, columns, d).incomplete]
  BY <1>1, ColumnsOf DEF Merged
<1> QED
  BY <1>2, MergedColumns DEF Row

-----------------------------------------------------------------------------
(***************************************************************************)
(* Steps of one request.                                                   *)
(***************************************************************************)

\* A step that changes one request, and leaves it as the invariant wants it,
\* changes nothing for the others.
LEMMA JobStep ==
    ASSUME IInv, NEW w \in Worker,
           UNCHANGED <<isolation, prov, link, owner>>,
           job' \in [Worker -> Job],
           \A v \in Worker \ {w} : job'[v] = job[v],
           job'[w].holds => Free(w),
           JobInv(w)'
    PROVE  IInv'
<1>1. TypeOK'
  BY DEF IInv, TypeOK
<1>2. AccountFitsKey'
  BY DEF IInv, AccountFitsKey
<1>3. OneHolder'
  BY DEF IInv, OneHolder, Free
<1>4. ASSUME NEW v \in Worker
      PROVE  JobInv(v)'
  <2>1. CASE v = w
    BY <2>1
  <2>2. CASE v # w
    <3>1. job'[v] = job[v]
      BY <2>2
    <3>2. JobInv(v)
      BY DEF IInv
    <3>3. (KindOfStep(v) /\ HolderOfStep(v))'
      BY <3>1, <3>2 DEF JobInv, KindOfStep, HolderOfStep
    <3>4. (ColumnsInv(v) /\ DraftInv(v))'
      BY <3>1, <3>2 DEF JobInv, ColumnsInv, DraftInv
    <3>5. SnapshotInv(v)'
      BY <3>1, <3>2 DEF JobInv, SnapshotInv, Repeatable, Passive, Old
    <3>6. LinkInv(v)'
      BY <3>1, <3>2 DEF JobInv, LinkInv, Repeatable
    <3> QED
      BY <3>3, <3>4, <3>5, <3>6 DEF JobInv
  <2> QED
    BY <2>1, <2>2
<1> QED
  BY <1>1, <1>2, <1>3, <1>4 DEF IInv

\* A worker without a request.
LEMMA IdleJob == Idle \in Job
  BY BlankRow DEF Idle, Job, Kinds, Steps, NoLink

\* A request begins: it holds nothing and has written nothing.
LEMMA Begun ==
    ASSUME IInv, NEW w \in Worker,
           UNCHANGED <<isolation, prov, link, owner>>,
           job' \in [Worker -> Job],
           \A v \in Worker \ {w} : job'[v] = job[v],
           ~job'[w].holds,
           job'[w].columns = {},
           job'[w].step \in {"idle", "due", "body", "stamping", "locking", "clearing"},
           KindOfStep(w)',
           SnapshotInv(w)',
           LinkInv(w)'
    PROVE  IInv'
<1>1. HolderOfStep(w)'
  BY DEF HolderOfStep
<1>2. ColumnsInv(w)'
  BY DEF ColumnsInv
<1>3. DraftInv(w)'
  BY DEF DraftInv
<1> QED
  BY <1>1, <1>2, <1>3, JobStep DEF JobInv

\* Whatever begins, begins well.
LEMMA BeginStep ==
    ASSUME IInv, NEW w \in Worker,
           \/ RenderPage(w) \/ RefreshAccount(w) \/ FailedDelivery(w)
           \/ \E key \in Key : Consent(w, key)
           \/ CompleteSetup(w) \/ Disconnect(w)
    PROVE  IInv'
<1>1. CASE RenderPage(w)
  <2>1. /\ UNCHANGED <<isolation, prov, link, owner>>
        /\ \A v \in Worker \ {w} : job'[v] = job[v]
        /\ ~job'[w].holds /\ job'[w].columns = {} /\ ~job'[w].relinks
        /\ job'[w].kind = "page" /\ job'[w].step = "due"
    BY <1>1 DEF RenderPage, Begin, Idle, IInv, TypeOK
  <2>2. job' \in [Worker -> Job]
    BY <1>1, IdleJob DEF RenderPage, Begin, Idle, IInv, TypeOK, Job, Kinds, Steps, Waiting
  <2>3. KindOfStep(w)' /\ SnapshotInv(w)' /\ LinkInv(w)'
    BY <2>1, <1>1 DEF KindOfStep, SnapshotInv, LinkInv, Passive, Refreshers, Provisioners, RenderPage, Old
  <2> QED
    BY <2>1, <2>2, <2>3, Begun
<1>2. CASE RefreshAccount(w)
  <2>1. /\ UNCHANGED <<isolation, prov, link, owner>>
        /\ \A v \in Worker \ {w} : job'[v] = job[v]
        /\ ~job'[w].holds /\ job'[w].columns = {} /\ ~job'[w].relinks
        /\ job'[w].kind = "refresh" /\ job'[w].step = "due"
    BY <1>2 DEF RefreshAccount, Begin, Idle, IInv, TypeOK
  <2>2. job' \in [Worker -> Job]
    BY <1>2, IdleJob DEF RefreshAccount, Begin, Idle, IInv, TypeOK, Job, Kinds, Steps, Waiting
  <2>3. KindOfStep(w)' /\ SnapshotInv(w)' /\ LinkInv(w)'
    BY <2>1 DEF KindOfStep, SnapshotInv, LinkInv, Passive, Refreshers, Provisioners
  <2> QED
    BY <2>1, <2>2, <2>3, Begun
<1>3. CASE FailedDelivery(w)
  <2>1. /\ UNCHANGED <<isolation, prov, link, owner>>
        /\ \A v \in Worker \ {w} : job'[v] = job[v]
        /\ ~job'[w].holds /\ job'[w].columns = {} /\ ~job'[w].relinks
        /\ job'[w].kind = "webhook" /\ job'[w].step = "stamping"
    BY <1>3 DEF FailedDelivery, Begin, Idle, IInv, TypeOK
  <2>a. [Blank EXCEPT !.health = "failure"] \in Row
    BY DEF Blank, Row
  <2>b. [Idle EXCEPT !.kind = "webhook", !.step = "stamping", !.draft.health = "failure"] \in Job
    BY <2>a, IdleJob DEF Idle, Job, Kinds, Steps, Waiting
  <2>2. job' \in [Worker -> Job]
    BY <1>3, <2>b DEF FailedDelivery, Begin, IInv, TypeOK
  <2>3. KindOfStep(w)' /\ SnapshotInv(w)' /\ LinkInv(w)'
    BY <2>1 DEF KindOfStep, SnapshotInv, LinkInv, Passive, Refreshers, Provisioners
  <2> QED
    BY <2>1, <2>2, <2>3, Begun
<1>4. ASSUME NEW key \in Key, Consent(w, key)
      PROVE  IInv'
  <2>1. /\ UNCHANGED <<isolation, prov, link, owner>>
        /\ \A v \in Worker \ {w} : job'[v] = job[v]
        /\ ~job'[w].holds /\ job'[w].columns = {} /\ ~job'[w].relinks
        /\ job'[w].kind = "consent" /\ job'[w].step = "locking"
    BY <1>4 DEF Consent, Begin, Idle, IInv, TypeOK
  <2>2. job' \in [Worker -> Job]
    BY <1>4, IdleJob DEF Consent, Begin, Idle, IInv, TypeOK, Job, Kinds, Steps, Waiting
  <2>3. KindOfStep(w)' /\ SnapshotInv(w)' /\ LinkInv(w)'
    BY <2>1 DEF KindOfStep, SnapshotInv, LinkInv, Passive, Refreshers, Provisioners
  <2> QED
    BY <2>1, <2>2, <2>3, Begun
<1>5. CASE CompleteSetup(w)
  <2>1. /\ UNCHANGED <<isolation, prov, link, owner>>
        /\ \A v \in Worker \ {w} : job'[v] = job[v]
        /\ ~job'[w].holds /\ job'[w].columns = {} /\ ~job'[w].relinks
        /\ job'[w].kind = "setup" /\ job'[w].step = "locking"
    BY <1>5 DEF CompleteSetup, Begin, Idle, IInv, TypeOK
  <2>2. job' \in [Worker -> Job]
    BY <1>5, IdleJob DEF CompleteSetup, Begin, Idle, IInv, TypeOK, Job, Kinds, Steps, Waiting
  <2>3. KindOfStep(w)' /\ SnapshotInv(w)' /\ LinkInv(w)'
    BY <2>1 DEF KindOfStep, SnapshotInv, LinkInv, Passive, Refreshers, Provisioners
  <2> QED
    BY <2>1, <2>2, <2>3, Begun
<1>6. CASE Disconnect(w)
  <2>1. /\ UNCHANGED <<isolation, prov, link, owner>>
        /\ \A v \in Worker \ {w} : job'[v] = job[v]
        /\ ~job'[w].holds /\ job'[w].columns = {} /\ ~job'[w].relinks
        /\ job'[w].kind = "disconnect" /\ job'[w].step = "clearing"
    BY <1>6 DEF Disconnect, Begin, Idle, IInv, TypeOK
  <2>2. job' \in [Worker -> Job]
    BY <1>6, IdleJob DEF Disconnect, Begin, Idle, IInv, TypeOK, Job, Kinds, Steps, Waiting
  <2>3. KindOfStep(w)' /\ SnapshotInv(w)' /\ LinkInv(w)'
    BY <2>1 DEF KindOfStep, SnapshotInv, LinkInv, Passive, Refreshers, Provisioners
  <2> QED
    BY <2>1, <2>2, <2>3, Begun
<1> QED
  BY <1>1, <1>2, <1>3, <1>4, <1>5, <1>6

LEMMA CheckoutStep ==
    ASSUME IInv, NEW w \in Worker, Checkout(w)
    PROVE  IInv'
<1>1. /\ UNCHANGED <<isolation, prov, link, owner>>
      /\ \A v \in Worker \ {w} : job'[v] = job[v]
      /\ ~job'[w].holds /\ job'[w].columns = {} /\ ~job'[w].relinks
      /\ job'[w].kind = "checkout" /\ job'[w].link = link
      /\ job'[w].step = IF Old(prov) THEN "due" ELSE "body"
  BY DEF Checkout, Begin, Idle, IInv, TypeOK
<1>2. prov.key \in Key /\ link \in [Plane -> Customer \cup {None}]
  BY DEF Checkout, IInv, TypeOK, Row
<1>3. job' \in [Worker -> Job]
  BY <1>2, IdleJob DEF Checkout, Begin, Idle, IInv, TypeOK, Job, Kinds, Steps, Waiting
<1>4. KindOfStep(w)'
  BY <1>1 DEF KindOfStep, Refreshers
<1>5. SnapshotInv(w)'
  BY <1>1 DEF SnapshotInv, Old
<1>6. LinkInv(w)'
  BY <1>1 DEF LinkInv
<1>7. job'[w].step \in {"idle", "due", "body", "stamping", "locking", "clearing"}
  BY <1>1
<1> QED
  BY <1>1, <1>3, <1>4, <1>5, <1>6, <1>7, Begun

\* A delivery that remembers a customer takes none away.
LEMMA PaidDeliveryStep ==
    ASSUME IInv, NEW w \in Worker, NEW c \in Customer \cup {None}, PaidDelivery(w, c)
    PROVE  IInv'
<1> DEFINE new == IF c = None THEN link ELSE Remembered(link, PlaneOf(prov.key), c)
<1>1. /\ UNCHANGED <<isolation, prov, link, owner>>
      /\ \A v \in Worker \ {w} : job'[v] = job[v]
      /\ ~job'[w].holds /\ job'[w].columns = {}
      /\ job'[w].kind = "webhook" /\ job'[w].step = "stamping"
      /\ job'[w].relinks = (new # link)
      /\ job'[w].link = IF new = link THEN NoLink ELSE new
  BY DEF PaidDelivery, Begin, Idle, IInv, TypeOK
<1>2. link \in [Plane -> Customer \cup {None}]
  BY DEF IInv, TypeOK
<1>3. new \in [Plane -> Customer \cup {None}]
  BY <1>2 DEF Remembered
<1>4. [Blank EXCEPT !.health = "success"] \in Row
  BY DEF Blank, Row
<1>5. (new # link) \in BOOLEAN
  OBVIOUS
<1>6. [Idle EXCEPT !.kind = "webhook", !.step = "stamping", !.draft.health = "success",
                   !.link = IF new = link THEN NoLink ELSE new, !.relinks = new # link] \in Job
  BY <1>3, <1>4, <1>5, IdleJob DEF Idle, Job, Kinds, Steps, Waiting
<1>7. job' \in [Worker -> Job]
  BY <1>6 DEF PaidDelivery, Begin, IInv, TypeOK
<1>8. \A p \in Plane : new[p] = None => link[p] = None
  BY <1>2, StorefrontAssumption DEF Remembered
<1>9. KindOfStep(w)' /\ SnapshotInv(w)'
  BY <1>1 DEF KindOfStep, SnapshotInv
<1>10. LinkInv(w)'
  BY <1>1, <1>8 DEF LinkInv
<1>11. job'[w].step \in {"idle", "due", "body", "stamping", "locking", "clearing"}
  BY <1>1
<1> QED
  BY <1>1, <1>7, <1>9, <1>10, <1>11, Begun

\* The request is over.
LEMMA AbortStep ==
    ASSUME IInv, NEW w \in Worker, Abort(w)
    PROVE  IInv'
<1>1. /\ UNCHANGED <<isolation, prov, link, owner>>
      /\ \A v \in Worker \ {w} : job'[v] = job[v]
      /\ ~job'[w].holds /\ job'[w].columns = {} /\ ~job'[w].relinks
      /\ job'[w].kind = None /\ job'[w].step = "idle"
  BY DEF Abort, Idle, IInv, TypeOK
<1>2. job' \in [Worker -> Job]
  BY IdleJob DEF Abort, IInv, TypeOK
<1>3. KindOfStep(w)' /\ SnapshotInv(w)'
  BY <1>1 DEF KindOfStep, SnapshotInv
<1>4. None # "checkout"
  BY StorefrontAssumption DEF Kinds
<1>5. LinkInv(w)'
  BY <1>1, <1>4 DEF LinkInv
<1> QED
  BY <1>1, <1>2, <1>3, <1>5, Begun

\* What a write of the row leaves of a request.
LEMMA Wrote ==
    ASSUME TypeOK, NEW w \in Worker, NEW columns \in SUBSET Column, NEW draft \in Row,
           NEW step \in Steps, Writes(w, columns, draft, step)
    PROVE  /\ UNCHANGED <<isolation, prov, link, owner>>
           /\ job' \in [Worker -> Job]
           /\ \A v \in Worker \ {w} : job'[v] = job[v]
           /\ job'[w].holds
           /\ job'[w].step = step
           /\ job'[w].columns = job[w].columns \cup columns
           /\ job'[w].draft = Merged(job[w].draft, columns, draft)
           /\ job'[w].kind = job[w].kind
           /\ job'[w].key = job[w].key
           /\ job'[w].stale = job[w].stale
           /\ job'[w].staleLink = job[w].staleLink
           /\ job'[w].link = job[w].link
           /\ job'[w].relinks = job[w].relinks
<1>1. job[w] \in Job /\ job[w].draft \in Row /\ job[w].columns \in SUBSET Column
  BY DEF TypeOK, Job
<1>2. Merged(job[w].draft, columns, draft) \in Row
  BY <1>1, MergedRow
<1>3. job[w].columns \cup columns \in SUBSET Column
  BY <1>1
<1>4. job' \in [Worker -> Job]
  BY <1>1, <1>2, <1>3 DEF Writes, TypeOK, Job
<1> QED
  BY <1>1, <1>4 DEF Writes, TypeOK, Job

LEMMA StampCheckStep ==
    ASSUME IInv, NEW w \in Worker, StampCheck(w)
    PROVE  IInv'
<1> DEFINE stamp == [Blank EXCEPT !.fetched_at = "fresh"]
<1>1. stamp \in Row
  BY DEF Blank, Row
<1>2. Writes(w, {"fetched_at"}, stamp, "stamped") /\ Writable(w) /\ job[w].step = "due"
  BY DEF StampCheck
<1>3. {"fetched_at"} \in SUBSET Column /\ "stamped" \in Steps
  BY ColumnsOf DEF Steps
<1>4. TypeOK /\ JobInv(w)
  BY DEF IInv
<1> HIDE DEF stamp
<1>5. /\ UNCHANGED <<isolation, prov, link, owner>>
      /\ job' \in [Worker -> Job]
      /\ \A v \in Worker \ {w} : job'[v] = job[v]
      /\ job'[w].step = "stamped" /\ job'[w].holds
      /\ job'[w].columns = job[w].columns \cup {"fetched_at"}
      /\ job'[w].kind = job[w].kind /\ job'[w].key = job[w].key
      /\ job'[w].staleLink = job[w].staleLink
      /\ job'[w].link = job[w].link /\ job'[w].relinks = job[w].relinks
  BY <1>1, <1>2, <1>3, <1>4, Wrote
<1>6. job[w].kind \in Refreshers /\ job[w].columns = {}
  BY <1>2, <1>4 DEF JobInv, KindOfStep, ColumnsInv, Waiting
<1>7. KindOfStep(w)' /\ HolderOfStep(w)'
  BY <1>2, <1>4, <1>5, <1>6 DEF JobInv, KindOfStep, HolderOfStep
<1>8. ColumnsInv(w)'
  BY <1>5, <1>6 DEF ColumnsInv, About, Refreshers, Waiting
<1>9. DraftInv(w)'
  BY <1>5, <1>6 DEF DraftInv, Refreshers, Provisioners
<1>10. SnapshotInv(w)'
  BY <1>2, <1>4, <1>5 DEF JobInv, SnapshotInv, Writable, Passive, Old, Repeatable
<1>11. LinkInv(w)'
  BY <1>4, <1>5 DEF JobInv, LinkInv, Repeatable
<1>12. job'[w].holds => Free(w)
  BY <1>2 DEF Writable
<1> QED
  BY <1>5, <1>7, <1>8, <1>9, <1>10, <1>11, <1>12, JobStep DEF JobInv

\* A step that writes nothing keeps all but where the request is.
LEMMA Advanced ==
    ASSUME TypeOK, NEW w \in Worker, NEW step \in Steps, Advance(w, step)
    PROVE  /\ UNCHANGED <<isolation, prov, link, owner>>
           /\ job' \in [Worker -> Job]
           /\ \A v \in Worker \ {w} : job'[v] = job[v]
           /\ job'[w].step = step
           /\ job'[w].holds = job[w].holds
           /\ job'[w].columns = job[w].columns
           /\ job'[w].draft = job[w].draft
           /\ job'[w].kind = job[w].kind
           /\ job'[w].key = job[w].key
           /\ job'[w].stale = job[w].stale
           /\ job'[w].staleLink = job[w].staleLink
           /\ job'[w].link = job[w].link
           /\ job'[w].relinks = job[w].relinks
<1>1. job' \in [Worker -> Job]
  BY DEF Advance, TypeOK, Job
<1> QED
  BY <1>1 DEF Advance, TypeOK, Job

\* So does the invariant, when the step is one with no claim of its own.
LEMMA AdvanceStep ==
    ASSUME IInv, NEW w \in Worker, NEW step \in {"body", "done"}, Advance(w, step),
           step = "body" => job[w].kind = "checkout" /\ ~job[w].relinks
    PROVE  IInv'
<1>1. TypeOK /\ JobInv(w) /\ step \in Steps
  BY DEF IInv, Steps
<1>2. /\ UNCHANGED <<isolation, prov, link, owner>>
      /\ job' \in [Worker -> Job]
      /\ \A v \in Worker \ {w} : job'[v] = job[v]
      /\ job'[w].step = step
      /\ job'[w].holds = job[w].holds
      /\ job'[w].columns = job[w].columns
      /\ job'[w].draft = job[w].draft
      /\ job'[w].kind = job[w].kind
      /\ job'[w].key = job[w].key
      /\ job'[w].staleLink = job[w].staleLink
      /\ job'[w].link = job[w].link
      /\ job'[w].relinks = job[w].relinks
  BY <1>1, Advanced
<1>3. KindOfStep(w)' /\ HolderOfStep(w)'
  BY <1>1, <1>2 DEF JobInv, KindOfStep, HolderOfStep
<1>4. ColumnsInv(w)'
  BY <1>1, <1>2 DEF JobInv, ColumnsInv, Waiting
<1>5. DraftInv(w)'
  BY <1>1, <1>2 DEF JobInv, DraftInv
<1>6. SnapshotInv(w)'
  BY <1>1, <1>2 DEF SnapshotInv
<1>7. LinkInv(w)'
  BY <1>1, <1>2 DEF JobInv, LinkInv, Repeatable
<1>8. job'[w].holds => Free(w)
  BY <1>2 DEF IInv, OneHolder, Free
<1> QED
  BY <1>2, <1>3, <1>4, <1>5, <1>6, <1>7, <1>8, JobStep DEF JobInv

\* Answers that write nothing of the row.
LEMMA QuietStep ==
    ASSUME IInv, NEW w \in Worker, AccountUnread(w) \/ SessionCreated(w) \/ RetryCreated(w)
    PROVE  IInv'
<1>1. CASE AccountUnread(w)
  <2>1. Advance(w, AfterCheck(w)) /\ AfterCheck(w) \in {"body", "done"}
    BY <1>1 DEF AccountUnread, AfterCheck
  <2>2. AfterCheck(w) = "body" => job[w].kind = "checkout" /\ ~job[w].relinks
    BY <1>1 DEF AfterCheck, AccountUnread, IInv, JobInv, KindOfStep
  <2> QED
    BY <2>1, <2>2, AdvanceStep
<1>2. CASE SessionCreated(w) \/ RetryCreated(w)
  BY <1>2, AdvanceStep DEF SessionCreated, RetryCreated
<1> QED
  BY <1>1, <1>2

LEMMA AskAccountStep ==
    ASSUME IInv, NEW w \in Worker, AskAccount(w)
    PROVE  IInv'
<1>1. TypeOK /\ JobInv(w) /\ job[w].step = "stamped"
  BY DEF IInv, AskAccount
<1>2. job[w].kind \in Refreshers /\ job[w].holds /\ job[w].columns \subseteq {"fetched_at", "account"}
  BY <1>1 DEF JobInv, KindOfStep, HolderOfStep, ColumnsInv, About, Refreshers
<1>3. Seen(w).key = prov.key
  BY <1>2, MergedColumns DEF Seen
<1>4. prov.key \in Key \cup {None}
  BY <1>1 DEF TypeOK, Row
<1>5. Seen(w).key \in Key \cup {None} /\ "asked" \in Steps
  BY <1>3, <1>4 DEF Steps
<1>6. job' \in [Worker -> Job]
  <2>1. [job[w] EXCEPT !.step = "asked", !.key = Seen(w).key] \in Job
    BY <1>1, <1>5 DEF TypeOK, Job
  <2>2. job' = [job EXCEPT ![w] = [job[w] EXCEPT !.step = "asked", !.key = Seen(w).key]]
    BY <1>1 DEF AskAccount, TypeOK
  <2> QED
    BY <1>1, <2>1, <2>2 DEF TypeOK
<1>7. /\ UNCHANGED <<isolation, prov, link, owner>>
      /\ \A v \in Worker \ {w} : job'[v] = job[v]
      /\ job'[w].step = "asked" /\ job'[w].key = prov.key /\ job'[w].holds
      /\ job'[w].columns = job[w].columns
      /\ job'[w].draft = job[w].draft
      /\ job'[w].kind = job[w].kind
      /\ job'[w].staleLink = job[w].staleLink
      /\ job'[w].link = job[w].link
      /\ job'[w].relinks = job[w].relinks
  BY <1>1, <1>2, <1>3 DEF AskAccount, TypeOK, Job
<1>8. KindOfStep(w)' /\ HolderOfStep(w)'
  BY <1>1, <1>7 DEF JobInv, KindOfStep, HolderOfStep
<1>9. ColumnsInv(w)' /\ DraftInv(w)' /\ SnapshotInv(w)'
  BY <1>1, <1>7 DEF JobInv, ColumnsInv, DraftInv, SnapshotInv, Waiting
<1>10. LinkInv(w)'
  BY <1>1, <1>7 DEF JobInv, LinkInv, KindOfStep, Repeatable
<1>11. job'[w].holds => Free(w)
  BY <1>2 DEF IInv, OneHolder, Free
<1> QED
  BY <1>7, <1>6, <1>8, <1>9, <1>10, <1>11, JobStep DEF JobInv

(***************************************************************************)
(* Writes of the row: what is special to each is what it does to the draft. *)
(***************************************************************************)
LEMMA WriteStep ==
    ASSUME IInv, NEW w \in Worker, NEW columns \in SUBSET Column, NEW draft \in Row,
           NEW step \in {"body", "done"}, Writes(w, columns, draft, step),
           Free(w),
           columns \subseteq About(job[w].kind),
           step = "body" => job[w].kind = "checkout" /\ ~job[w].relinks,
           DraftInv(w)'
    PROVE  IInv'
<1>1. TypeOK /\ JobInv(w) /\ step \in Steps
  BY DEF IInv, Steps
<1>2. /\ UNCHANGED <<isolation, prov, link, owner>>
      /\ job' \in [Worker -> Job]
      /\ \A v \in Worker \ {w} : job'[v] = job[v]
      /\ job'[w].holds
      /\ job'[w].step = step
      /\ job'[w].columns = job[w].columns \cup columns
      /\ job'[w].kind = job[w].kind
      /\ job'[w].key = job[w].key
      /\ job'[w].staleLink = job[w].staleLink
      /\ job'[w].link = job[w].link
      /\ job'[w].relinks = job[w].relinks
  BY <1>1, Wrote
<1>3. KindOfStep(w)' /\ HolderOfStep(w)'
  BY <1>1, <1>2 DEF JobInv, KindOfStep, HolderOfStep
<1>4. ColumnsInv(w)'
  BY <1>1, <1>2 DEF JobInv, ColumnsInv, Waiting
<1>5. SnapshotInv(w)'
  BY <1>1, <1>2 DEF SnapshotInv
<1>6. LinkInv(w)'
  BY <1>1, <1>2 DEF JobInv, LinkInv, Repeatable
<1> QED
  BY <1>2, <1>3, <1>4, <1>5, <1>6, JobStep DEF JobInv

\* The columns and the draft after a write, and the request's kind.
LEMMA WrittenDraft ==
    ASSUME TypeOK, NEW w \in Worker, NEW columns \in SUBSET Column, NEW draft \in Row,
           NEW step \in Steps, Writes(w, columns, draft, step)
    PROVE  LET d == job'[w].draft
               old == job[w].draft
           IN  /\ job'[w].kind = job[w].kind
               /\ prov' = prov
               /\ job'[w].columns = job[w].columns \cup columns
               /\ d.key = IF "key" \in columns THEN draft.key ELSE old.key
               /\ d.account = IF "account" \in columns THEN draft.account ELSE old.account
               /\ d.incomplete = IF "incomplete" \in columns THEN draft.incomplete
                                 ELSE old.incomplete
<1>1. /\ job'[w].draft = Merged(job[w].draft, columns, draft)
      /\ job'[w].kind = job[w].kind /\ prov' = prov
      /\ job'[w].columns = job[w].columns \cup columns
  BY Wrote
<1> QED
  BY <1>1, MergedColumns

LEMMA AccountReadStep ==
    ASSUME IInv, NEW w \in Worker, AccountRead(w)
    PROVE  IInv'
<1>1. TypeOK /\ JobInv(w) /\ job[w].step = "asked"
  BY DEF IInv, AccountRead
<1>2. job[w].kind \in Refreshers /\ job[w].key = prov.key /\ job[w].holds /\ ~job[w].relinks
  BY <1>1 DEF JobInv, KindOfStep, ColumnsInv, HolderOfStep
<1>3. [Blank EXCEPT !.account = job[w].key] \in Row
  BY <1>1 DEF TypeOK, Job, Blank, Row
<1>4. PICK draft \in Row : draft.account = prov.key
                         /\ Writes(w, {"account"}, draft, AfterCheck(w))
  BY <1>2, <1>3 DEF AccountRead, Blank
<1>5. /\ AfterCheck(w) \in {"body", "done"} /\ AfterCheck(w) \in Steps
      /\ AfterCheck(w) = "body" => job[w].kind = "checkout"
  BY DEF AfterCheck, Steps
<1>6. {"account"} \in SUBSET Column
  BY ColumnsOf
<1>7. job'[w].draft.account = prov.key /\ job'[w].kind = job[w].kind /\ prov' = prov
  BY <1>1, <1>4, <1>5, <1>6, WrittenDraft
<1>8. DraftInv(w)'
  BY <1>2, <1>7 DEF DraftInv, Refreshers, Provisioners
<1>9. Free(w) /\ {"account"} \subseteq About(job[w].kind)
  BY <1>2 DEF IInv, OneHolder, Free, About, Refreshers
<1> QED
  BY <1>2, <1>4, <1>5, <1>6, <1>8, <1>9, WriteStep

LEMMA StampHealthStep ==
    ASSUME IInv, NEW w \in Worker, StampHealth(w)
    PROVE  IInv'
<1>1. TypeOK /\ JobInv(w) /\ job[w].step = "stamping"
  BY DEF IInv, StampHealth
<1>2. job[w].kind = "webhook" /\ job[w].draft \in Row /\ Free(w)
  BY <1>1 DEF JobInv, KindOfStep, TypeOK, Job, StampHealth, Writable
<1>3. {"health"} \in SUBSET Column /\ "done" \in Steps /\ {"health"} \subseteq About(job[w].kind)
  BY <1>2, ColumnsOf DEF Steps, About
<1>4. job'[w].kind = "webhook"
  BY <1>1, <1>2, <1>3, WrittenDraft DEF StampHealth
<1>5. DraftInv(w)'
  BY <1>4 DEF DraftInv, Refreshers, Provisioners
<1> QED
  BY <1>2, <1>3, <1>5, WriteStep DEF StampHealth

LEMMA ClearedStep ==
    ASSUME IInv, NEW w \in Worker, Cleared(w)
    PROVE  IInv'
<1>1. TypeOK /\ JobInv(w) /\ job[w].step = "clearing" /\ Writes(w, Column, Blank, "done")
  BY DEF IInv, Cleared
<1>2. job[w].kind = "disconnect" /\ Free(w) /\ job[w].columns = {}
  BY <1>1 DEF JobInv, KindOfStep, ColumnsInv, Waiting, Cleared, Writable
<1>3. Column \in SUBSET Column /\ "done" \in Steps /\ Column \subseteq About(job[w].kind)
  BY <1>2 DEF Steps, About
<1>4. /\ job'[w].kind = "disconnect"
      /\ job'[w].columns = Column
      /\ job'[w].draft.account = None
  BY <1>1, <1>2, <1>3, BlankRow, ColumnsOf, WrittenDraft DEF Blank
<1>5. DraftInv(w)'
  BY <1>4 DEF DraftInv, Refreshers, Provisioners
<1> QED
  BY <1>1, <1>2, <1>3, <1>5, BlankRow, WriteStep

\* A provisioned row shows the account of its key; one left incomplete says so.
LEMMA ProvisionStep ==
    ASSUME IInv, NEW w \in Worker,
           Provisioned(w) \/ SetupIncomplete(w) \/ StillIncomplete(w)
    PROVE  IInv'
<1>1. TypeOK /\ JobInv(w) /\ job[w].step = "provisioning"
  BY DEF IInv, Provisioned, SetupIncomplete, StillIncomplete
<1>2. /\ job[w].kind \in Provisioners /\ job[w].holds /\ job[w].columns = {}
      /\ job[w].key \in Key \cup {None}
  BY <1>1 DEF JobInv, KindOfStep, ColumnsInv, HolderOfStep, TypeOK, Job
<1>3. Free(w) /\ About(job[w].kind) = Column /\ "done" \in Steps
  BY <1>2 DEF IInv, OneHolder, Free, About, Provisioners, Steps
<1>4. PICK columns \in SUBSET Column, draft \in Row :
        /\ Writes(w, columns, draft, "done")
        /\ \/ columns = Column /\ draft.account = draft.key
           \/ "incomplete" \in columns /\ draft.incomplete
  <2>1. CASE Provisioned(w)
    <3> DEFINE draft == [key |-> job[w].key, account |-> job[w].key, fetched_at |-> "fresh",
                         health |-> None, incomplete |-> FALSE]
    <3>1. draft \in Row /\ draft.account = draft.key
      BY <1>2 DEF Row
    <3> QED
      BY <2>1, <3>1 DEF Provisioned
  <2>2. CASE SetupIncomplete(w)
    <3> DEFINE draft == [Blank EXCEPT !.key = job[w].key, !.incomplete = TRUE]
    <3>1. draft \in Row /\ draft.incomplete
      BY <1>2 DEF Row, Blank
    <3>2. {"key", "incomplete"} \in SUBSET Column
      BY ColumnsOf
    <3> QED
      BY <2>2, <3>1, <3>2 DEF SetupIncomplete
  <2>3. CASE StillIncomplete(w)
    <3> DEFINE draft == [Blank EXCEPT !.incomplete = TRUE]
    <3>1. draft \in Row /\ draft.incomplete
      BY DEF Row, Blank
    <3>2. {"incomplete"} \in SUBSET Column
      BY ColumnsOf
    <3> QED
      BY <2>3, <3>1, <3>2 DEF StillIncomplete
  <2> QED
    BY <2>1, <2>2, <2>3
<1>5. /\ job'[w].kind = job[w].kind
      /\ \/ job'[w].columns = Column /\ job'[w].draft.account = job'[w].draft.key
         \/ "incomplete" \in job'[w].columns /\ job'[w].draft.incomplete
  BY <1>1, <1>2, <1>3, <1>4, ColumnsOf, WrittenDraft
<1>6. DraftInv(w)'
  BY <1>2, <1>5 DEF DraftInv, Refreshers, Provisioners
<1> QED
  BY <1>3, <1>4, <1>6, WriteStep

-----------------------------------------------------------------------------
LEMMA LinkMissingStep ==
    ASSUME IInv, NEW w \in Worker, LinkMissing(w)
    PROVE  IInv'
<1> DEFINE ids == Forgotten(job[w].link, PlaneOf(job[w].key))
<1>1. TypeOK /\ JobInv(w) /\ job[w].step = "body" /\ job[w].kind = "checkout" /\ ~job[w].relinks
  BY DEF IInv, JobInv, KindOfStep, LinkMissing
<1>2. job[w].link \in [Plane -> Customer \cup {None}]
  BY <1>1 DEF TypeOK, Job
<1>3. ids \in [Plane -> Customer \cup {None}] /\ "retry" \in Steps
  BY <1>2 DEF Forgotten, Steps
<1>4. [job[w] EXCEPT !.step = "retry", !.relinks = TRUE, !.link = ids] \in Job
  BY <1>1, <1>3 DEF TypeOK, Job
<1>5. job' = [job EXCEPT ![w] = [job[w] EXCEPT !.step = "retry", !.relinks = TRUE, !.link = ids]]
  BY <1>1 DEF LinkMissing, TypeOK
<1>6. job' \in [Worker -> Job]
  BY <1>4, <1>5, <1>1 DEF TypeOK
<1> HIDE DEF ids
<1>7. /\ UNCHANGED <<isolation, prov, link, owner>>
      /\ \A v \in Worker \ {w} : job'[v] = job[v]
      /\ job'[w].step = "retry" /\ job'[w].relinks
      /\ job'[w].holds = job[w].holds
      /\ job'[w].columns = job[w].columns
      /\ job'[w].draft = job[w].draft
      /\ job'[w].kind = job[w].kind
      /\ job'[w].key = job[w].key
      /\ job'[w].staleLink = job[w].staleLink
      /\ job'[w].link = ids
  BY <1>1, <1>5 DEF LinkMissing, TypeOK, Job
<1>8. KindOfStep(w)' /\ HolderOfStep(w)'
  BY <1>1, <1>7 DEF JobInv, KindOfStep, HolderOfStep
<1>9. ColumnsInv(w)'
  BY <1>1, <1>7 DEF JobInv, ColumnsInv, Waiting
<1>10. DraftInv(w)' /\ SnapshotInv(w)'
  BY <1>1, <1>7 DEF JobInv, DraftInv, SnapshotInv
<1>11. LinkInv(w)'
  <2> SUFFICES ASSUME Repeatable, ~job[w].staleLink, NEW p \in Plane,
                      link[p] # None, ids[p] = None
               PROVE  PlaneOf(job[w].key) = p /\ owner[link[p]] # job[w].key
    BY <1>7 DEF LinkInv, Repeatable
  <2>1. job[w].link = link
    BY <1>1 DEF JobInv, LinkInv
  <2>2. PlaneOf(job[w].key) = p
    BY <1>2, <2>1 DEF ids, Forgotten
  <2> QED
    BY <2>1, <2>2 DEF LinkMissing, Linked
<1>12. job'[w].holds => Free(w)
  BY <1>7 DEF IInv, OneHolder, Free
<1> QED
  BY <1>6, <1>7, <1>8, <1>9, <1>10, <1>11, <1>12, JobStep DEF JobInv

LEMMA LockProviderStep ==
    ASSUME IInv, NEW w \in Worker, LockProvider(w)
    PROVE  IInv'
<1> DEFINE k == IF job[w].key = None THEN prov.key ELSE job[w].key
<1>1. TypeOK /\ JobInv(w) /\ job[w].step = "locking" /\ Free(w)
  BY DEF IInv, LockProvider, Writable
<1>2. job[w].kind \in Provisioners /\ job[w].columns = {}
  BY <1>1 DEF JobInv, KindOfStep, ColumnsInv, Waiting
<1>3. k \in Key \cup {None} /\ "provisioning" \in Steps
  BY <1>1 DEF TypeOK, Job, Row, Steps
<1>4. [job[w] EXCEPT !.step = "provisioning", !.holds = TRUE, !.key = k] \in Job
  BY <1>1, <1>3 DEF TypeOK, Job
<1>5. job' = [job EXCEPT ![w] = [job[w] EXCEPT !.step = "provisioning", !.holds = TRUE, !.key = k]]
  BY <1>1 DEF LockProvider, TypeOK
<1>6. job' \in [Worker -> Job]
  BY <1>4, <1>5, <1>1 DEF TypeOK
<1>7. /\ UNCHANGED <<isolation, prov, link, owner>>
      /\ \A v \in Worker \ {w} : job'[v] = job[v]
      /\ job'[w].step = "provisioning" /\ job'[w].holds
      /\ job'[w].columns = {}
      /\ job'[w].kind = job[w].kind
      /\ job'[w].staleLink = job[w].staleLink
      /\ job'[w].link = job[w].link
      /\ job'[w].relinks = job[w].relinks
  BY <1>1, <1>2, <1>5 DEF LockProvider, TypeOK, Job
<1>8. KindOfStep(w)' /\ HolderOfStep(w)' /\ ColumnsInv(w)' /\ DraftInv(w)' /\ SnapshotInv(w)'
  BY <1>2, <1>7 DEF KindOfStep, HolderOfStep, ColumnsInv, DraftInv, SnapshotInv
<1>9. LinkInv(w)'
  BY <1>1, <1>2, <1>7 DEF JobInv, KindOfStep, LinkInv, Provisioners
<1> QED
  BY <1>1, <1>6, <1>7, <1>8, <1>9, JobStep DEF JobInv

\* The window passes: nothing but the age of the stamp changes.
LEMMA ExpireStep ==
    ASSUME IInv, Expire
    PROVE  IInv'
<1>1. /\ prov' \in Row
      /\ prov'.key = prov.key /\ prov'.account = prov.account
      /\ prov'.incomplete = prov.incomplete /\ Old(prov')
      /\ UNCHANGED <<isolation, link, owner, job>>
  BY DEF Expire, IInv, TypeOK, Row, Old
<1>2. TypeOK' /\ AccountFitsKey' /\ OneHolder'
  BY <1>1 DEF IInv, TypeOK, AccountFitsKey, OneHolder
<1>3. ASSUME NEW v \in Worker
      PROVE  JobInv(v)'
  <2>1. JobInv(v)
    BY DEF IInv
  <2>2. KindOfStep(v)' /\ HolderOfStep(v)'
    BY <1>1, <2>1 DEF JobInv, KindOfStep, HolderOfStep
  <2>3. ColumnsInv(v)' /\ DraftInv(v)'
    BY <1>1, <2>1 DEF JobInv, ColumnsInv, DraftInv
  <2>4. SnapshotInv(v)'
    BY <1>1 DEF SnapshotInv
  <2>5. LinkInv(v)'
    BY <1>1, <2>1 DEF JobInv, LinkInv, Repeatable
  <2> QED
    BY <2>2, <2>3, <2>4, <2>5 DEF JobInv
<1> QED
  BY <1>1, <1>2, <1>3 DEF IInv

-----------------------------------------------------------------------------
(***************************************************************************)
(* Commits.                                                                *)
(***************************************************************************)

\* What a commit leaves of the row.
LEMMA CommitRow ==
    ASSUME IInv, NEW w \in Worker, Commit(w)
    PROVE  /\ prov' \in Row
           /\ \A c \in Column \ job[w].columns : prov'[c] = prov[c]
           /\ prov'.key = IF "key" \in job[w].columns THEN job[w].draft.key ELSE prov.key
           /\ prov'.account = IF "account" \in job[w].columns THEN job[w].draft.account
                             ELSE prov.account
           /\ prov'.incomplete = IF "incomplete" \in job[w].columns THEN job[w].draft.incomplete
                                ELSE prov.incomplete
           /\ prov'.fetched_at = IF "fetched_at" \in job[w].columns
                                THEN job[w].draft.fetched_at ELSE prov.fetched_at
<1>1. prov \in Row /\ job[w].draft \in Row
  BY DEF IInv, TypeOK, Job
<1>2. prov' = Merged(prov, job[w].columns, job[w].draft)
  BY DEF Commit, Seen
<1>3. \A c \in Column \ job[w].columns : prov'[c] = prov[c]
  BY <1>2 DEF Merged
<1> QED
  BY <1>1, <1>2, <1>3, MergedRow, MergedColumns

\* What it leaves of the requests.
LEMMA CommitJobs ==
    ASSUME IInv, NEW w \in Worker, Commit(w)
    PROVE  /\ job' \in [Worker -> Job]
           /\ \A v \in Worker :
                 \/ job'[v] = Idle
                 \/ /\ v # w
                    /\ job'[v].step = job[v].step /\ job'[v].kind = job[v].kind
                    /\ job'[v].holds = job[v].holds /\ job'[v].columns = job[v].columns
                    /\ job'[v].draft = job[v].draft /\ job'[v].key = job[v].key
                    /\ job'[v].link = job[v].link /\ job'[v].relinks = job[v].relinks
                    /\ ~job'[v].stale => ~job[v].stale /\ (Repeatable => job[w].columns = {})
                    /\ ~job'[v].staleLink =>
                          ~job[v].staleLink /\ (Repeatable => ~job[w].relinks)
<1>1. ASSUME NEW v \in Worker
      PROVE  [job[v] EXCEPT !.stale = @ \/ (Repeatable /\ job[w].columns # {}),
                            !.staleLink = @ \/ (Repeatable /\ job[w].relinks)] \in Job
  BY DEF IInv, TypeOK, Job
<1>2. job' \in [Worker -> Job]
  BY <1>1, IdleJob DEF Commit
<1>3. ASSUME NEW v \in Worker
      PROVE  \/ job'[v] = Idle
             \/ /\ v # w
                /\ job'[v].step = job[v].step /\ job'[v].kind = job[v].kind
                /\ job'[v].holds = job[v].holds /\ job'[v].columns = job[v].columns
                /\ job'[v].draft = job[v].draft /\ job'[v].key = job[v].key
                /\ job'[v].link = job[v].link /\ job'[v].relinks = job[v].relinks
                /\ ~job'[v].stale => ~job[v].stale /\ (Repeatable => job[w].columns = {})
                /\ ~job'[v].staleLink =>
                      ~job[v].staleLink /\ (Repeatable => ~job[w].relinks)
  <2>1. CASE v = w \/ job[v].step = "idle"
    BY <2>1 DEF Commit
  <2>2. CASE ~(v = w \/ job[v].step = "idle")
    <3>1. job[v] \in Job
      BY DEF IInv, TypeOK
    <3>2. job'[v] = [job[v] EXCEPT !.stale = @ \/ (Repeatable /\ job[w].columns # {}),
                                   !.staleLink = @ \/ (Repeatable /\ job[w].relinks)]
      BY <2>2 DEF Commit
    <3>3. /\ v # w
          /\ job'[v].step = job[v].step /\ job'[v].kind = job[v].kind
          /\ job'[v].holds = job[v].holds /\ job'[v].columns = job[v].columns
          /\ job'[v].draft = job[v].draft /\ job'[v].key = job[v].key
          /\ job'[v].link = job[v].link /\ job'[v].relinks = job[v].relinks
      BY <2>2, <3>1, <3>2 DEF Job
    <3>4. /\ job'[v].stale = (job[v].stale \/ (Repeatable /\ job[w].columns # {}))
          /\ job'[v].staleLink = (job[v].staleLink \/ (Repeatable /\ job[w].relinks))
      BY <3>1, <3>2 DEF Job
    <3> QED
      BY <3>3, <3>4
  <2> QED
    BY <2>1, <2>2
<1> QED
  BY <1>2, <1>3

LEMMA CommitStep ==
    ASSUME IInv, NEW w \in Worker, Commit(w)
    PROVE  IInv'
<1>1. /\ TypeOK /\ AccountFitsKey /\ OneHolder /\ JobInv(w)
      /\ job[w].step = "done"
      /\ isolation' = isolation /\ owner' = owner
      /\ link' = IF job[w].relinks THEN job[w].link ELSE link
  BY DEF IInv, Commit
<1>2. TypeOK'
  <2>1. prov' \in Row /\ job' \in [Worker -> Job]
    BY CommitRow, CommitJobs
  <2>2. job[w].link \in [Plane -> Customer \cup {None}]
    BY <1>1 DEF TypeOK, Job
  <2> QED
    BY <1>1, <2>1, <2>2 DEF TypeOK
<1>3. AccountFitsKey'
  <2>1. job[w].columns \subseteq About(job[w].kind)
    BY <1>1 DEF JobInv, ColumnsInv
  <2>2. CASE job[w].columns = {}
    BY <1>1, <2>2, CommitRow DEF AccountFitsKey
  <2>3. CASE job[w].columns # {} /\ job[w].kind \in Refreshers
    <3>1. job[w].columns \subseteq {"fetched_at", "account"}
      BY <2>1, <2>3 DEF About, Refreshers
    <3> QED
      BY <1>1, <2>3, <3>1, CommitRow DEF AccountFitsKey, JobInv, DraftInv, Refreshers, Provisioners
  <2>4. CASE job[w].columns # {} /\ job[w].kind = "webhook"
    <3>1. job[w].columns \subseteq {"health"}
      BY <2>1, <2>4 DEF About
    <3> QED
      BY <1>1, <3>1, CommitRow DEF AccountFitsKey
  <2>5. CASE job[w].columns # {} /\ job[w].kind \in Provisioners \cup {"disconnect"}
    BY <1>1, <2>5, CommitRow, ColumnsOf DEF AccountFitsKey, JobInv, DraftInv, Refreshers, Provisioners
  <2> QED
    BY <1>1, <2>2, <2>3, <2>4, <2>5 DEF JobInv, DraftInv
<1>4. OneHolder'
  BY <1>1, CommitJobs DEF OneHolder, Idle
<1>5. ASSUME NEW v \in Worker
      PROVE  JobInv(v)'
  <2>1. CASE job'[v] = Idle
    <3>1. None # "checkout"
      BY StorefrontAssumption DEF Kinds
    <3>2. KindOfStep(v)' /\ HolderOfStep(v)' /\ ColumnsInv(v)' /\ DraftInv(v)'
      BY <2>1 DEF KindOfStep, HolderOfStep, ColumnsInv, DraftInv, Idle
    <3>3. SnapshotInv(v)' /\ LinkInv(v)'
      BY <2>1, <3>1 DEF SnapshotInv, LinkInv, Idle
    <3> QED
      BY <3>2, <3>3 DEF JobInv
  <2>2. CASE job'[v] # Idle
    <3>1. /\ v # w
          /\ job'[v].step = job[v].step /\ job'[v].kind = job[v].kind
          /\ job'[v].holds = job[v].holds /\ job'[v].columns = job[v].columns
          /\ job'[v].draft = job[v].draft /\ job'[v].key = job[v].key
          /\ job'[v].link = job[v].link /\ job'[v].relinks = job[v].relinks
          /\ ~job'[v].stale => ~job[v].stale /\ (Repeatable => job[w].columns = {})
          /\ ~job'[v].staleLink => ~job[v].staleLink /\ (Repeatable => ~job[w].relinks)
      BY <2>2, CommitJobs
    <3>2. JobInv(v)
      BY DEF IInv
    <3>3. job[v].holds => job[w].columns = {}
      BY <1>1, <3>1 DEF OneHolder, JobInv, HolderOfStep
    <3>4. job[w].columns = {} => prov'.key = prov.key /\ prov'.fetched_at = prov.fetched_at
      BY CommitRow
    <3>5. KindOfStep(v)' /\ HolderOfStep(v)'
      BY <3>1, <3>2 DEF JobInv, KindOfStep, HolderOfStep
    <3>6. ColumnsInv(v)'
      BY <3>1, <3>2, <3>3, <3>4 DEF JobInv, ColumnsInv, HolderOfStep
    <3>7. DraftInv(v)'
      BY <3>1, <3>2, <3>3, <3>4 DEF JobInv, DraftInv, HolderOfStep
    <3>8. SnapshotInv(v)'
      BY <1>1, <3>1, <3>2, <3>3, <3>4 DEF JobInv, SnapshotInv, HolderOfStep, Repeatable, Passive, Old
    <3>9. LinkInv(v)'
      BY <1>1, <3>1, <3>2 DEF JobInv, LinkInv, Repeatable
    <3> QED
      BY <3>5, <3>6, <3>7, <3>8, <3>9 DEF JobInv
  <2> QED
    BY <2>1, <2>2
<1> QED
  BY <1>2, <1>3, <1>4, <1>5 DEF IInv

-----------------------------------------------------------------------------
(***************************************************************************)
(* Theorems.                                                               *)
(***************************************************************************)
LEMMA InitIInv == Init => IInv
<1> SUFFICES ASSUME Init PROVE IInv
  OBVIOUS
<1>1. TypeOK
  BY StorefrontAssumption, IdleJob, BlankRow DEF Init, TypeOK, NoLink
<1>2. AccountFitsKey /\ OneHolder
  BY DEF Init, AccountFitsKey, OneHolder, Blank, Idle
<1>3. ASSUME NEW w \in Worker
      PROVE  JobInv(w)
  <2>1. job[w] = Idle /\ None # "checkout"
    BY StorefrontAssumption DEF Init, Kinds
  <2> QED
    BY <2>1 DEF JobInv, KindOfStep, HolderOfStep, ColumnsInv, DraftInv, SnapshotInv, LinkInv, Idle
<1> QED
  BY <1>1, <1>2, <1>3 DEF IInv

LEMMA NextIInv == IInv /\ [Next]_vars => IInv'
<1> SUFFICES ASSUME IInv, [Next]_vars PROVE IInv'
  OBVIOUS
<1>1. CASE Expire
  BY <1>1, ExpireStep
<1>2. ASSUME NEW w \in Worker,
             \/ RenderPage(w) \/ RefreshAccount(w) \/ FailedDelivery(w)
             \/ \E key \in Key : Consent(w, key)
             \/ CompleteSetup(w) \/ Disconnect(w)
      PROVE  IInv'
  BY <1>2, BeginStep
<1>3. ASSUME NEW w \in Worker, NEW c \in Customer \cup {None}, PaidDelivery(w, c)
      PROVE  IInv'
  BY <1>3, PaidDeliveryStep
<1>4. ASSUME NEW w \in Worker,
             \/ Checkout(w) \/ StampCheck(w) \/ AskAccount(w) \/ AccountRead(w)
             \/ AccountUnread(w) \/ SessionCreated(w) \/ LinkMissing(w) \/ RetryCreated(w)
      PROVE  IInv'
  BY <1>4, CheckoutStep, StampCheckStep, AskAccountStep, AccountReadStep, QuietStep, LinkMissingStep
<1>5. ASSUME NEW w \in Worker,
             \/ StampHealth(w) \/ LockProvider(w) \/ Provisioned(w) \/ SetupIncomplete(w)
             \/ StillIncomplete(w) \/ Cleared(w) \/ Commit(w) \/ Abort(w)
      PROVE  IInv'
  BY <1>5, StampHealthStep, LockProviderStep, ProvisionStep, ClearedStep, CommitStep, AbortStep
<1>6. CASE UNCHANGED vars
  <2>1. UNCHANGED <<isolation, prov, link, owner, job>>
    BY <1>6 DEF vars
  <2>2. TypeOK' /\ AccountFitsKey' /\ OneHolder'
    BY <2>1 DEF IInv, TypeOK, AccountFitsKey, OneHolder
  <2>3. ASSUME NEW v \in Worker
        PROVE  JobInv(v)'
    <3>1. JobInv(v)
      BY DEF IInv
    <3>2. KindOfStep(v)' /\ HolderOfStep(v)' /\ ColumnsInv(v)' /\ DraftInv(v)'
      BY <2>1, <3>1 DEF JobInv, KindOfStep, HolderOfStep, ColumnsInv, DraftInv
    <3>3. SnapshotInv(v)' /\ LinkInv(v)'
      BY <2>1, <3>1 DEF JobInv, SnapshotInv, LinkInv, Repeatable, Passive, Old
    <3> QED
      BY <3>2, <3>3 DEF JobInv
  <2> QED
    BY <2>2, <2>3 DEF IInv
<1> QED
  BY <1>1, <1>2, <1>3, <1>4, <1>5, <1>6 DEF Next

\* The invariant holds in every state: any number of requests, accounts and
\* customers, at either isolation.
THEOREM StorefrontInvariance == Spec => []IInv
  BY InitIInv, NextIInv, PTL DEF Spec

\* Every variable keeps its type.
THEOREM StorefrontTypeCorrect == Spec => []TypeOK
<1>1. IInv => TypeOK
  BY DEF IInv
<1> QED
  BY <1>1, StorefrontInvariance, PTL

\* The cached account is the one of the stored key, or setup is flagged.
THEOREM AccountFitsKey_Always == Spec => []AccountFitsKey
<1>1. IInv => AccountFitsKey
  BY DEF IInv
<1> QED
  BY <1>1, StorefrontInvariance, PTL

\* A commit leaves the columns its request is not about as it finds them
\* (_xpay_snapshot_update).
THEOREM NoClobber_Always == Spec => NoClobber
<1>1. IInv => [\A w \in Worker : Commit(w) =>
                  \A c \in Column \ About(job[w].kind) : prov'[c] = prov[c]]_vars
  <2> SUFFICES ASSUME IInv, NEW w \in Worker, Commit(w),
                      NEW c \in Column \ About(job[w].kind)
               PROVE  prov'[c] = prov[c]
    OBVIOUS
  <2>1. c \in Column \ job[w].columns
    BY DEF IInv, JobInv, ColumnsInv
  <2> QED
    BY <2>1, CommitRow
<1> QED
  BY <1>1, StorefrontInvariance, PTL DEF NoClobber

\* Passive refreshes do not call twice at a time nor, where a request sees one
\* state of the row, sooner than the window allows (_xpay_refresh_account).
THEOREM PassiveCallsAreRare_Always == Spec => PassiveCallsAreRare
<1>1. IInv => [\A w \in Worker : AskAccount(w) /\ Passive(w) =>
                  /\ \A v \in Worker \ {w} : job[v].step # "asked"
                  /\ Repeatable => Old(prov)]_vars
  <2> SUFFICES ASSUME IInv, NEW w \in Worker, AskAccount(w), Passive(w)
               PROVE  /\ \A v \in Worker \ {w} : job[v].step # "asked"
                      /\ Repeatable => Old(prov)
    OBVIOUS
  <2>1. job[w].step = "stamped" /\ JobInv(w)
    BY DEF AskAccount, IInv
  <2>2. \A v \in Worker \ {w} : job[v].step # "asked"
    BY <2>1 DEF IInv, OneHolder, JobInv, HolderOfStep
  <2>3. Repeatable => Old(prov)
    BY <2>1 DEF JobInv, SnapshotInv
  <2> QED
    BY <2>2, <2>3
<1> QED
  BY <1>1, StorefrontInvariance, PTL DEF PassiveCallsAreRare

\* Where a request sees one state of the partner, a shopper only loses the
\* customer that the account they check out with does not know
\* (_xpay_forget_customer).
THEOREM LiveLinkKept_Always == Spec => LiveLinkKept
<1> DEFINE Lost == Repeatable => \A p \in Plane :
                      link[p] # None /\ link'[p] = None =>
                          \E w \in Worker :
                              /\ Commit(w)
                              /\ PlaneOf(job[w].key) = p
                              /\ owner[link[p]] # job[w].key
<1>1. IInv /\ [Next]_vars => [Lost]_vars
  <2> SUFFICES ASSUME IInv, Next, Repeatable, NEW p \in Plane, link[p] # None, link'[p] = None
               PROVE  \E w \in Worker : /\ Commit(w)
                                         /\ PlaneOf(job[w].key) = p
                                         /\ owner[link[p]] # job[w].key
    OBVIOUS
  <2>1. PICK w \in Worker : Commit(w)
    BY DEF Next, Expire, RenderPage, RefreshAccount, StampCheck, AskAccount, AccountRead,
      AccountUnread, Checkout, SessionCreated, LinkMissing, RetryCreated, FailedDelivery,
      StampHealth, PaidDelivery, Consent, CompleteSetup, LockProvider, Provisioned,
      SetupIncomplete, StillIncomplete, Disconnect, Cleared, Abort, Begin, Advance, Writes
  <2>2. job[w].relinks /\ ~job[w].staleLink /\ job[w].link[p] = None
    BY <2>1 DEF Commit
  <2> QED
    BY <2>1, <2>2 DEF IInv, JobInv, LinkInv
<1> QED
  BY <1>1, StorefrontInvariance, PTL DEF LiveLinkKept, Spec
=============================================================================
