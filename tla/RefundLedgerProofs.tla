-------------------------- MODULE RefundLedgerProofs --------------------------
(***************************************************************************)
(* Proofs about the ledger of refunds: what each attempt's key and amount  *)
(* are made of, and what an answer or a report makes of the attempts that  *)
(* share them.                                                             *)
(*                                                                         *)
(* The first two parts are about the books, which is what the ledger is    *)
(* read from: whether a child is completed, refused or waited for, its     *)
(* key, and its amounts.  A child that has its refund's id has had its     *)
(* answer, so its books are closed; the others are only written under the  *)
(* source's lock.  They hold of a platform that decides refunds at once    *)
(* ("PENDING" \notin Outcomes), and OneAnswerPerKey of one that refunds    *)
(* what it is asked for; the README says what else happens.                *)
(*                                                                         *)
(* The third part is about one refund and one completed child, and holds   *)
(* of any platform as long as requests come one at a time (OneWorker):     *)
(* children are then created in order, and the latest that names a refund  *)
(* is the one a report of it finds.                                        *)
(***************************************************************************)
EXTENDS RefundProofs

-----------------------------------------------------------------------------
(* The inductive invariant.                                                *)

\* The ledger, as read from some rows.
DoneIn(R)     == {c \in Child : R[c].state = "done"}
RejectedIn(R) == {c \in Child : R[c].rejected}
AmountIn(R)   == SumFunctionOnSet([c \in Child |-> R[c].amount], DoneIn(R))
ProcIn(R)     == SumFunctionOnSet([c \in Child |-> R[c].proc], DoneIn(R))

SentIn(R, amount) ==
    IF AmountIn(R) + amount = SourceAmount THEN SourceProcessing - ProcIn(R) ELSE Convert(amount)

KeyIn(R, amount) ==
    [recorded |-> Cardinality(DoneIn(R)), rejected |-> Cardinality(RejectedIn(R)),
     amount |-> amount, proc |-> SentIn(R, amount)]

\* A child is what its key says, and has one when it waits; its answer, once
\* it has one, is final.
RowBook(r) ==
    /\ r.key # None => r.amount = r.key.amount /\ r.proc = r.key.proc
    /\ r.awaiting => r.key # None
    /\ r.state = "absent" => r.key = None
    /\ r.provider_reference # None =>
          \/ r.state = "done" \/ r.rejected
          \/ /\ refund[r.provider_reference].status = "SUCCEEDED"
             /\ refund[r.provider_reference].proc # r.proc

\* Only refunds of this module were completed or refused.
Settled(r) == r.state = "done" \/ r.rejected
Ours(R) == \A c \in Child : Settled(R[c]) => R[c].key # None

\* The attempts waited for are one request, made of the ledger as it is.
Ledger(R) ==
    /\ AmountIn(R) = SourceAmount => ProcIn(R) = SourceProcessing
    /\ \A c \in Child : R[c].awaiting => R[c].key = KeyIn(R, R[c].amount)
    /\ \A c, d \in Child : R[c].awaiting /\ R[d].awaiting => R[c].amount = R[d].amount

\* A key is waited for by all its attempts or settled by one of them.
Shared(R) ==
    /\ \A c, d \in Child : R[c].key # None /\ R[c].key = R[d].key =>
          (R[c].awaiting <=> R[d].awaiting)
    /\ \A c \in Child : R[c].key # None /\ ~R[c].awaiting =>
          \E d \in Child : R[d].key = R[c].key /\ Settled(R[d])

Books(R) ==
    /\ \A c \in Child : RowBook(R[c])
    /\ Ours(R) => Ledger(R)
    /\ ~Deviates => Shared(R)

\* The platform decides at once, and refunds what it is asked for.
Decided(key, answer) ==
    /\ answer.status # "PENDING"
    /\ ~Deviates /\ answer.status = "SUCCEEDED" => answer.proc = key.proc

DecidedInv ==
    /\ \A r \in Refund : refund[r].status # "PENDING"
    /\ \A e \in sent : \A i \in DOMAIN e.entries : e.entries[i].status # "PENDING"
    /\ \A a \in answers : Decided(a[1], a[2])

\* A request is made of the ledger it will find again.
SendingBooks(w) ==
    Sending(w) =>
        /\ job[w].key.amount = job[w].amount
        /\ Ours(child) =>
              /\ job[w].key = KeyIn(child, job[w].amount)
              /\ \A c \in Child : child[c].awaiting => child[c].amount = job[w].amount
        /\ ~Deviates => \A c \in Child : child[c].key = job[w].key => child[c].awaiting
        /\ job[w].step = "answered" => Decided(job[w].key, job[w].answer)

\* What a webhook under the source's lock has written and not committed.
HandlingBooks(w) == Handling(w) /\ lock[Source] = w => Books(View(w))

BooksInv ==
    /\ DecidedInv
    /\ Books(child)
    /\ \A w \in Worker : SendingBooks(w) /\ HandlingBooks(w)

-----------------------------------------------------------------------------
(* Rows of the same books.                                                 *)

SameBook(r, s) ==
    /\ r.state = "done" <=> s.state = "done"
    /\ r.rejected <=> s.rejected
    /\ r.awaiting <=> s.awaiting
    /\ r.key = s.key
    /\ r.state = "done" \/ r.key # None => r.amount = s.amount /\ r.proc = s.proc

SameBooks(R, S) == \A c \in Child : SameBook(R[c], S[c])

\* The sums of a ledger are numbers.
LEMMA SumTypes ==
    ASSUME NEW R \in [Child -> Row]
    PROVE  /\ AmountIn(R) \in Int /\ ProcIn(R) \in Int
           /\ IsFiniteSet(DoneIn(R))
           /\ Cardinality(DoneIn(R)) \in Nat /\ Cardinality(RejectedIn(R)) \in Nat
<1>1. DoneIn(R) \in SUBSET Child /\ RejectedIn(R) \in SUBSET Child
  BY DEF DoneIn, RejectedIn
<1>2. /\ IsFiniteSet(DoneIn(R))
      /\ Cardinality(DoneIn(R)) \in Nat /\ Cardinality(RejectedIn(R)) \in Nat
  BY <1>1, ChildFinite
<1> DEFINE f == [c \in Child |-> R[c].amount]
           g == [c \in Child |-> R[c].proc]
<1>3. \A c \in DoneIn(R) : f[c] \in Int /\ g[c] \in Int
  BY <1>1 DEF Row
<1> HIDE DEF f, g
<1>4. SumFunctionOnSet(f, DoneIn(R)) \in Int /\ SumFunctionOnSet(g, DoneIn(R)) \in Int
  BY <1>2, <1>3, SumType
<1> QED
  BY <1>2, <1>4 DEF AmountIn, ProcIn, f, g

\* Sums over the completed children depend on these alone.
LEMMA SameSums ==
    ASSUME NEW R \in [Child -> Row], NEW S \in [Child -> Row], NEW D \in SUBSET Child,
           \A c \in D : R[c].amount = S[c].amount /\ R[c].proc = S[c].proc
    PROVE  /\ SumFunctionOnSet([c \in Child |-> R[c].amount], D)
              = SumFunctionOnSet([c \in Child |-> S[c].amount], D)
           /\ SumFunctionOnSet([c \in Child |-> R[c].proc], D)
              = SumFunctionOnSet([c \in Child |-> S[c].proc], D)
<1> DEFINE f == [c \in Child |-> R[c].amount]
           g == [c \in Child |-> S[c].amount]
           h == [c \in Child |-> R[c].proc]
           k == [c \in Child |-> S[c].proc]
<1>1. IsFiniteSet(D)
  BY ChildFinite
<1>2. \A c \in D : f[c] = g[c] /\ h[c] = k[c]
  OBVIOUS
<1> HIDE DEF f, g, h, k
<1>3. SumFunctionOnSet(f, D) = SumFunctionOnSet(g, D)
  BY <1>1, <1>2, SumAgrees
<1>4. SumFunctionOnSet(h, D) = SumFunctionOnSet(k, D)
  BY <1>1, <1>2, SumAgrees
<1> QED
  BY <1>3, <1>4 DEF f, g, h, k

\* Sums and counts read the completed and refused children only.
LEMMA SameDone ==
    ASSUME NEW R \in [Child -> Row], NEW S \in [Child -> Row],
           \A c \in Child : /\ R[c].state = "done" <=> S[c].state = "done"
                            /\ R[c].state = "done" => R[c].amount = S[c].amount /\ R[c].proc = S[c].proc
    PROVE  AmountIn(R) = AmountIn(S) /\ ProcIn(R) = ProcIn(S) /\ DoneIn(R) = DoneIn(S)
<1>1. DoneIn(R) = DoneIn(S)
  BY DEF DoneIn
<1> DEFINE D == DoneIn(S)
<1>2. D \in SUBSET Child /\ \A c \in D : R[c].amount = S[c].amount /\ R[c].proc = S[c].proc
  BY DEF DoneIn
<1>3. AmountIn(R) = SumFunctionOnSet([c \in Child |-> R[c].amount], D)
  BY <1>1, Zenon DEF AmountIn
<1>4. ProcIn(R) = SumFunctionOnSet([c \in Child |-> R[c].proc], D)
  BY <1>1, Zenon DEF ProcIn
<1> HIDE DEF D
<1>5. /\ SumFunctionOnSet([c \in Child |-> R[c].amount], D)
         = SumFunctionOnSet([c \in Child |-> S[c].amount], D)
      /\ SumFunctionOnSet([c \in Child |-> R[c].proc], D)
         = SumFunctionOnSet([c \in Child |-> S[c].proc], D)
  BY <1>2, SameSums
<1> QED
  BY <1>1, <1>3, <1>4, <1>5 DEF AmountIn, ProcIn, D

LEMMA SameCounts ==
    ASSUME NEW R \in [Child -> Row], NEW S \in [Child -> Row],
           \A c \in Child : /\ R[c].state = "done" <=> S[c].state = "done"
                            /\ R[c].rejected <=> S[c].rejected
                            /\ R[c].state = "done" => R[c].amount = S[c].amount /\ R[c].proc = S[c].proc
    PROVE  /\ AmountIn(R) = AmountIn(S) /\ ProcIn(R) = ProcIn(S)
           /\ \A amount : KeyIn(R, amount) = KeyIn(S, amount)
<1>1. AmountIn(R) = AmountIn(S) /\ ProcIn(R) = ProcIn(S) /\ DoneIn(R) = DoneIn(S)
  BY SameDone
<1>2. RejectedIn(R) = RejectedIn(S)
  BY DEF RejectedIn
<1>3. /\ Cardinality(DoneIn(R)) = Cardinality(DoneIn(S))
      /\ Cardinality(RejectedIn(R)) = Cardinality(RejectedIn(S))
  BY <1>1, <1>2, Zenon
<1> QED
  BY <1>1, <1>3 DEF KeyIn, SentIn

\* One more completed child adds what it returned.
LEMMA OneMoreDone ==
    ASSUME NEW R \in [Child -> Row], NEW S \in [Child -> Row], NEW m \in Child,
           R[m].state # "done", S[m].state = "done",
           \A c \in Child \ {m} : /\ R[c].state = "done" <=> S[c].state = "done"
                                  /\ R[c].amount = S[c].amount /\ R[c].proc = S[c].proc
    PROVE  /\ AmountIn(S) = AmountIn(R) + S[m].amount
           /\ ProcIn(S) = ProcIn(R) + S[m].proc
<1> DEFINE D == DoneIn(R)
           f == [c \in Child |-> S[c].amount]
           g == [c \in Child |-> S[c].proc]
<1>1. DoneIn(S) = D \cup {m}
  BY DEF DoneIn
<1>2. D \in SUBSET Child /\ m \notin D /\ IsFiniteSet(D)
  BY ChildFinite DEF DoneIn
<1>3. \A c \in D : R[c].amount = S[c].amount /\ R[c].proc = S[c].proc
  BY DEF DoneIn
<1>4. /\ \A c \in D \cup {m} : f[c] \in Int /\ g[c] \in Int
      /\ f[m] = S[m].amount /\ g[m] = S[m].proc
  BY <1>2 DEF Row
<1>5. /\ AmountIn(S) = SumFunctionOnSet(f, D \cup {m})
      /\ ProcIn(S) = SumFunctionOnSet(g, D \cup {m})
  <2>1. AmountIn(S) = SumFunctionOnSet(f, DoneIn(S)) /\ ProcIn(S) = SumFunctionOnSet(g, DoneIn(S))
    BY DEF AmountIn, ProcIn
  <2> HIDE DEF f, g, D
  <2> QED
    BY <1>1, <2>1
<1>6. AmountIn(R) = SumFunctionOnSet(f, D) /\ ProcIn(R) = SumFunctionOnSet(g, D)
  <2>1. /\ AmountIn(R) = SumFunctionOnSet([c \in Child |-> R[c].amount], D)
        /\ ProcIn(R) = SumFunctionOnSet([c \in Child |-> R[c].proc], D)
    BY DEF AmountIn, ProcIn
  <2> HIDE DEF D
  <2>2. /\ SumFunctionOnSet([c \in Child |-> R[c].amount], D)
           = SumFunctionOnSet([c \in Child |-> S[c].amount], D)
        /\ SumFunctionOnSet([c \in Child |-> R[c].proc], D)
           = SumFunctionOnSet([c \in Child |-> S[c].proc], D)
    BY <1>2, <1>3, SameSums
  <2> QED
    BY <2>1, <2>2
<1> HIDE DEF f, g, D
<1>7. SumFunctionOnSet(f, D \cup {m}) = SumFunctionOnSet(f, D) + f[m]
  BY <1>2, <1>4, SumAdd
<1>8. SumFunctionOnSet(g, D \cup {m}) = SumFunctionOnSet(g, D) + g[m]
  BY <1>2, <1>4, SumAdd
<1> QED
  BY <1>4, <1>5, <1>6, <1>7, <1>8

\* Books that are the same are as good.
LEMMA BooksCarry ==
    ASSUME NEW R \in [Child -> Row], NEW S \in [Child -> Row], SameBooks(R, S),
           Books(R), \A c \in Child : RowBook(S[c])
    PROVE  /\ Books(S)
           /\ Ours(R) <=> Ours(S)
           /\ \A amount : KeyIn(R, amount) = KeyIn(S, amount)
<1>1. /\ AmountIn(R) = AmountIn(S) /\ ProcIn(R) = ProcIn(S)
      /\ \A amount : KeyIn(R, amount) = KeyIn(S, amount)
  BY SameCounts DEF SameBooks, SameBook
<1>2. Ours(R) <=> Ours(S)
  BY DEF Ours, Settled, SameBooks, SameBook
<1>3. \A c \in Child : R[c].awaiting => R[c].amount = S[c].amount
  BY DEF Books, RowBook, SameBooks, SameBook
<1>4. Ours(R) => Ledger(S)
  BY <1>1, <1>3 DEF Books, Ledger, SameBooks, SameBook
<1>5. ~Deviates => Shared(S)
  BY DEF Books, Shared, Settled, SameBooks, SameBook
<1> QED
  BY <1>1, <1>2, <1>4, <1>5 DEF Books

\* A child that has had its answer keeps its books.
LEMMA ClosedSame ==
    ASSUME NEW r \in Row, NEW s \in Row, r.provider_reference # None, Later(r, s),
           RowOk(r), RowOk(s), RowBook(r)
    PROVE  SameBook(r, s) /\ RowBook(s)
  BY DEF SameBook, RowBook, RowOk, Later

\* Who does not hold the source's lock sees the books that are committed.
LEMMA ViewSame ==
    ASSUME IInv, Books(child), NEW w \in Worker, Handling(w), lock[Source] # w
    PROVE  SameBooks(child, View(w)) /\ \A c \in Child : RowBook(View(w)[c])
<1> SUFFICES ASSUME NEW c \in Child
             PROVE  SameBook(child[c], View(w)[c]) /\ RowBook(View(w)[c])
  BY DEF SameBooks
<1>1. child[c] \in Row /\ View(w)[c] \in Row /\ RowOk(child[c]) /\ RowBook(child[c])
  BY ViewFacts DEF IInv, TypeOK, StoreInv, Books
<1>2. CASE View(w)[c] = child[c]
  BY <1>1, <1>2 DEF SameBook
<1>3. CASE View(w)[c] # child[c]
  <2>1. lock[Guard(c)] = w /\ Later(child[c], View(w)[c]) /\ RowOk(View(w)[c])
    BY <1>3, ViewFacts
  <2>2. child[c].provider_reference # None
    BY <2>1 DEF Guard
  <2> QED
    BY <1>1, <2>1, <2>2, ClosedSame
<1> QED
  BY <1>2, <1>3

\* What a request under the lock sees are good books, its own writes included.
LEMMA ViewBooks ==
    ASSUME IInv, BooksInv, NEW w \in Worker, Handling(w)
    PROVE  Books(View(w))
<1>1. child \in [Child -> Row] /\ View(w) \in [Child -> Row]
  BY ViewFacts DEF IInv, TypeOK
<1>2. CASE lock[Source] = w
  BY <1>2 DEF BooksInv, HandlingBooks
<1>3. CASE lock[Source] # w
  <2>1. SameBooks(child, View(w)) /\ Books(child) /\ \A c \in Child : RowBook(View(w)[c])
    BY <1>3, ViewSame DEF BooksInv
  <2> QED
    BY <1>1, <2>1, BooksCarry
<1> QED
  BY <1>2, <1>3

-----------------------------------------------------------------------------
(* An answer closes its key.                                               *)

\* m, that waits under the key or is new, gets the answer, and none of the
\* others sent under the key waits for it any more.
Closes(R, S, m, key) ==
    /\ m \in Child /\ key \in Key
    /\ ~Settled(R[m]) /\ R[m].key \in {None, key}
    /\ S[m].key = key /\ S[m].amount = key.amount /\ S[m].proc = key.proc
    /\ ~Deviates => Settled(S[m])
    /\ \A c \in Child \ {m} :
          /\ R[c].state = "done" <=> S[c].state = "done"
          /\ R[c].rejected <=> S[c].rejected
          /\ R[c].key = S[c].key /\ R[c].amount = S[c].amount /\ R[c].proc = S[c].proc
    /\ \A c \in Child : S[c].awaiting <=> R[c].awaiting /\ S[c].key # key

\* Closing a key, by completing or refusing the attempts that wait for it, leaves
\* good books: the attempts that wait are all of that request.
LEMMA CloseLedger ==
    ASSUME NEW R \in [Child -> Row], NEW S \in [Child -> Row], NEW m, NEW key,
           Closes(R, S, m, key), Books(R), Ours(S),
           Ours(R) => /\ key = KeyIn(R, key.amount)
                      /\ \A c \in Child : R[c].awaiting => R[c].key = key
    PROVE  Ledger(S)
<1>1. Ours(R)
  BY DEF Ours, Closes, Settled
<1>2. key = KeyIn(R, key.amount) /\ Ledger(R)
  BY <1>1 DEF Books
<1>3. \A c \in Child : ~S[c].awaiting
  BY <1>1 DEF Closes
<1>4. AmountIn(S) = SourceAmount => ProcIn(S) = SourceProcessing
  <2>1. CASE S[m].state = "done"
    <3>1. /\ AmountIn(S) = AmountIn(R) + key.amount
          /\ ProcIn(S) = ProcIn(R) + key.proc
      BY <2>1, OneMoreDone DEF Closes, Settled
    <3>2. key.proc = SentIn(R, key.amount)
      <4>1. key.proc = KeyIn(R, key.amount).proc
        BY <1>2
      <4> QED
        BY <4>1 DEF KeyIn
    <3>3. ProcIn(R) \in Int /\ SourceProcessing \in Int
      BY SumTypes, MoneyTypes, ConstantsAssumption DEF SourceProcessing
    <3> QED
      BY <3>1, <3>2, <3>3 DEF SentIn
  <2>2. CASE S[m].state # "done"
    <3>1. AmountIn(R) = AmountIn(S) /\ ProcIn(R) = ProcIn(S)
      BY <2>2, SameDone DEF Closes, Settled
    <3> QED
      BY <1>2, <3>1 DEF Ledger
  <2> QED
    BY <2>1, <2>2
<1> QED
  BY <1>3, <1>4 DEF Ledger

LEMMA CloseShared ==
    ASSUME NEW R \in [Child -> Row], NEW S \in [Child -> Row], NEW m, NEW key,
           Closes(R, S, m, key), Shared(R), ~Deviates
    PROVE  Shared(S)
<1>1. ASSUME NEW c \in Child, NEW d \in Child, S[c].key # None, S[c].key = S[d].key
      PROVE  S[c].awaiting <=> S[d].awaiting
  BY <1>1 DEF Closes, Shared
<1>2. ASSUME NEW c \in Child, S[c].key # None, ~S[c].awaiting
      PROVE  \E d \in Child : S[d].key = S[c].key /\ Settled(S[d])
  <2>1. CASE S[c].key = key
    BY <2>1 DEF Closes
  <2>2. CASE S[c].key # key
    <3>1. c # m /\ R[c].key = S[c].key /\ ~R[c].awaiting
      BY <1>2, <2>2 DEF Closes
    <3>2. PICK d \in Child : R[d].key = R[c].key /\ Settled(R[d])
      BY <1>2, <3>1 DEF Shared
    <3>3. d # m
      BY <3>2 DEF Closes
    <3> QED
      BY <3>1, <3>2, <3>3 DEF Closes, Settled
  <2> QED
    BY <2>1, <2>2
<1> QED
  BY <1>1, <1>2 DEF Shared

\* The two together.
LEMMA CloseBooks ==
    ASSUME NEW R \in [Child -> Row], NEW S \in [Child -> Row], NEW m, NEW key,
           Closes(R, S, m, key), Books(R), \A c \in Child : RowBook(S[c]),
           Ours(R) => /\ key = KeyIn(R, key.amount)
                      /\ \A c \in Child : R[c].awaiting => R[c].key = key
    PROVE  Books(S)
<1>1. Ours(S) => Ledger(S)
  BY CloseLedger
<1>2. ~Deviates => Shared(S)
  BY CloseShared DEF Books
<1> QED
  BY <1>1, <1>2 DEF Books

-----------------------------------------------------------------------------
(* The platform's steps.                                                   *)

LEMMA BooksGrown ==
    ASSUME Grown, NEW R \in [Child -> Row], Books(R)
    PROVE  Books(R)'
<1>1. ASSUME NEW c \in Child PROVE RowBook(R[c])'
  <2>1. R[c] \in Row /\ RowBook(R[c])
    BY DEF Books
  <2> QED
    BY <2>1 DEF RowBook, Grown, Row
<1>2. (Ours(R) => Ledger(R))' /\ (~Deviates => Shared(R))'
  BY DEF Books, Ours, Settled, Ledger, Shared
<1> QED
  BY <1>1, <1>2 DEF Books

\* What they leave: the platform decided, and answers that are so.
LEMMA PlatformBooks ==
    ASSUME IInv, BooksInv, Grown, UNCHANGED <<child, lock>>, DecidedInv',
           \A w \in Worker : job'[w] # job[w] =>
               /\ job[w].step = "posting"
               /\ \E x : job'[w] = Answered(w, x) /\ Decided(job[w].key, x)
    PROVE  BooksInv'
<1>1. child \in [Child -> Row] /\ job \in [Worker -> Job]
  BY DEF IInv, TypeOK
<1>2. Books(child)'
  BY <1>1, BooksGrown DEF BooksInv
<1>3. ASSUME NEW w \in Worker PROVE SendingBooks(w)'
  <2>1. (Ours(child)' <=> Ours(child)) /\ \A amount : KeyIn(child, amount)' = KeyIn(child, amount)
    BY DEF Ours, Settled, KeyIn, SentIn, AmountIn, ProcIn, DoneIn, RejectedIn
  <2>2. CASE job'[w] = job[w]
    BY <2>1, <2>2 DEF BooksInv, SendingBooks, Sending, Decided
  <2>3. CASE job'[w] # job[w]
    <3>1. PICK x : job'[w] = Answered(w, x) /\ Decided(job[w].key, x)
      BY <2>3
    <3>2. job[w].step = "posting"
      BY <2>3
    <3>3. /\ job'[w].key = job[w].key /\ job'[w].amount = job[w].amount
          /\ job'[w].answer = x
      BY <3>1 DEF Answered
    <3> QED
      BY <2>1, <3>1, <3>2, <3>3 DEF BooksInv, SendingBooks, Sending, Decided
  <2> QED
    BY <2>2, <2>3
<1>4. ASSUME NEW w \in Worker, Handling(w)', (lock[Source] = w)' PROVE Books(View(w))'
  <2>1. job'[w] = job[w]
    <3>1. ASSUME job'[w] # job[w] PROVE FALSE
      <4>1. PICK x : job'[w] = Answered(w, x)
        BY <3>1
      <4>2. job'[w].step = "answered"
        BY <4>1 DEF Answered
      <4> QED
        BY <1>4, <4>2 DEF Handling
    <3> QED
      BY <3>1
  <2>2. Handling(w) /\ lock[Source] = w /\ View(w)' = View(w)
    BY <1>4, <2>1 DEF Handling, View
  <2>3. View(w) \in [Child -> Row] /\ Books(View(w))
    BY <2>2, ViewFacts DEF BooksInv, HandlingBooks
  <2> QED
    BY <2>2, <2>3, BooksGrown
<1> QED
  BY <1>2, <1>3, <1>4 DEF BooksInv, HandlingBooks

\* Without new refunds only answers are new.
LEMMA QuietDecided ==
    ASSUME BooksInv, refund' = refund, sent' = sent,
           \A a \in answers' : a \in answers \/ Decided(a[1], a[2])
    PROVE  DecidedInv'
  BY DEF BooksInv, DecidedInv, Decided

\* A platform that decides at once has no pending refunds, answers or reports, so
\* it never has one to resolve.
LEMMA CreateDecided ==
    ASSUME IInv, BooksInv, "PENDING" \notin Outcomes,
           NEW r \in Refund, NEW proc \in Nat \ {0}, NEW status \in Outcomes,
           NEW details \in BOOLEAN, Create(r, proc, status, details),
           \A a \in answers' : a \in answers \/ Decided(a[1], a[2])
    PROVE  DecidedInv' /\ Grown
<1>1. PlatformStays /\ refund'[r].status = status
  BY CreateFacts
<1>2. status # "PENDING" /\ status # "none"
  BY ConstantsAssumption
<1>3. /\ \A x \in Refund \ {r} : refund'[x] = refund[x]
      /\ sent' = sent \cup Created(r, refund')
  <2>1. refund \in [Refund -> PlatformRow]
    BY DEF IInv, TypeOK
  <2> QED
    BY <2>1 DEF Create
<1>4. \A x \in Refund : refund'[x].status # "PENDING"
  BY <1>1, <1>2, <1>3 DEF BooksInv, DecidedInv
<1>5. ASSUME NEW e \in Created(r, refund'), NEW i \in DOMAIN e.entries
      PROVE  e.entries[i].status # "PENDING"
  <2>1. Reports(e, refund')
    BY <1>1, <1>2, CreatedReports DEF PlatformStays
  <2>2. PICK x \in Refund : e.entries[i] = ReportOf(x, refund')
    BY <2>1 DEF Reports
  <2> QED
    BY <1>4, <2>2 DEF ReportOf
<1>6. \A a \in answers' : Decided(a[1], a[2])
  BY DEF BooksInv, DecidedInv
<1> QED
  BY <1>1, <1>3, <1>4, <1>5, <1>6 DEF BooksInv, DecidedInv, PlatformStays, Decided

LEMMA PlatformReplayBooks ==
    ASSUME IInv, BooksInv, NEW w \in Worker, PlatformReplay(w)
    PROVE  BooksInv'
<1>1. PICK a \in answers : a[1] = job[w].key /\ job' = [job EXCEPT ![w] = Answered(w, a[2])]
  BY DEF PlatformReplay, Answered
<1>2. job[w].step = "posting" /\ UNCHANGED <<child, lock, refund, answers, sent>>
  BY DEF PlatformReplay, platform
<1>3. Grown
  BY <1>2, UnchangedPlatform DEF PlatformStays
<1>4. DecidedInv' /\ Decided(job[w].key, a[2])
  BY <1>1, <1>2 DEF BooksInv, DecidedInv, Decided
<1>5. job'[w] = Answered(w, a[2]) /\ \A v \in Worker \ {w} : job'[v] = job[v]
  BY <1>1 DEF IInv, TypeOK
<1> QED
  BY <1>2, <1>3, <1>4, <1>5, PlatformBooks

\* A new answer, of a refund or of none.
LEMMA AnswerBooks ==
    ASSUME IInv, BooksInv, NEW w \in Worker, job[w].step = "posting", NEW x,
           PlatformAnswer(w, x), Decided(job[w].key, x), Grown, DecidedInv'
    PROVE  BooksInv'
<1>1. /\ job' = [job EXCEPT ![w] = Answered(w, x)]
      /\ UNCHANGED <<child, lock>>
  BY DEF PlatformAnswer, Answered
<1>2. job'[w] = Answered(w, x) /\ \A v \in Worker \ {w} : job'[v] = job[v]
  BY <1>1 DEF IInv, TypeOK
<1> QED
  BY <1>1, <1>2, PlatformBooks

LEMMA PlatformRefuseBooks ==
    ASSUME IInv, BooksInv, NEW w \in Worker, PlatformRefuse(w)
    PROVE  BooksInv'
<1>1. /\ job[w].step = "posting" /\ PlatformAnswer(w, Refusal)
      /\ refund' = refund /\ sent' = sent
  BY DEF PlatformRefuse
<1>2. Decided(job[w].key, Refusal)
  BY DEF Decided, Refusal
<1>3. answers' = answers \cup {<<job[w].key, Refusal>>}
  BY <1>1 DEF PlatformAnswer
<1>4. DecidedInv'
  <2>1. \A a \in answers' : a \in answers \/ Decided(a[1], a[2])
    BY <1>2, <1>3
  <2> QED
    BY <1>1, <2>1, QuietDecided
<1>5. Grown
  BY <1>1, UnchangedPlatform DEF PlatformStays
<1> QED
  BY <1>1, <1>2, <1>4, <1>5, AnswerBooks

LEMMA PlatformRefundBooks ==
    ASSUME IInv, BooksInv, "PENDING" \notin Outcomes,
           NEW w \in Worker, NEW r \in Refund, NEW status \in Outcomes, PlatformRefund(w, r, status)
    PROVE  BooksInv'
<1>1. PICK proc \in 1 .. Balance :
          /\ proc = job[w].key.proc \/ Deviates
          /\ Create(r, proc, status, TRUE)
          /\ PlatformAnswer(w, [id |-> r, status |-> status, proc |-> proc])
  BY DEF PlatformRefund
<1> DEFINE x == [id |-> r, status |-> status, proc |-> proc]
<1>2. job[w].step = "posting"
  BY DEF PlatformRefund
<1>3. Decided(job[w].key, x)
  BY <1>1 DEF Decided
<1>4. \A a \in answers' : a \in answers \/ Decided(a[1], a[2])
  BY <1>1, <1>3 DEF PlatformAnswer
<1>5. proc \in Nat \ {0}
  OBVIOUS
<1>6. DecidedInv' /\ Grown
  BY <1>1, <1>4, <1>5, CreateDecided
<1> QED
  BY <1>1, <1>2, <1>3, <1>6, AnswerBooks

LEMMA PlatformLateBooks ==
    ASSUME IInv, BooksInv, "PENDING" \notin Outcomes,
           NEW c \in Child, NEW r \in Refund, NEW status \in Outcomes, PlatformLate(c, r, status)
    PROVE  BooksInv'
<1> DEFINE key == child[c].key
           x == [id |-> r, status |-> status, proc |-> key.proc]
<1>1. /\ key.proc \in 1 .. Balance
      /\ Create(r, key.proc, status, TRUE)
      /\ answers' = answers \cup {<<key, x>>}
      /\ UNCHANGED <<child, lock, job>>
  BY DEF PlatformLate, store
<1>2. key.proc \in Nat \ {0}
  BY <1>1
<1>3. \A a \in answers' : a \in answers \/ Decided(a[1], a[2])
  BY <1>1 DEF Decided
<1>4. DecidedInv' /\ Grown
  BY <1>1, <1>2, <1>3, CreateDecided
<1> QED
  BY <1>1, <1>4, PlatformBooks

LEMMA DashboardRefundBooks ==
    ASSUME IInv, BooksInv, "PENDING" \notin Outcomes,
           NEW r \in Refund, NEW proc \in 1 .. SourceProcessing, NEW details \in BOOLEAN,
           DashboardRefund(r, proc, details)
    PROVE  BooksInv'
<1>1. PICK status \in Outcomes : Create(r, proc, status, details)
  BY DEF DashboardRefund
<1>2. UNCHANGED <<child, lock, job, answers>>
  BY DEF DashboardRefund, store
<1>3. proc \in Nat \ {0}
  OBVIOUS
<1>4. DecidedInv' /\ Grown
  BY <1>1, <1>2, <1>3, CreateDecided
<1> QED
  BY <1>2, <1>4, PlatformBooks

LEMMA ResolveNever ==
    ASSUME BooksInv, NEW r \in Refund, NEW status, Resolve(r, status)
    PROVE  FALSE
  BY DEF Resolve, BooksInv, DecidedInv

-----------------------------------------------------------------------------
(* The requests' steps.                                                    *)

\* A request keeps its books when another leaves them as they are.
LEMMA OtherBooks ==
    ASSUME IInv, BooksInv, refund' = refund,
           NEW rows \in [Child -> Row], child' = rows, Books(rows), SameBooks(child, rows),
           NEW v \in Worker, job'[v] = job[v], lock'[Source] = v => lock[Source] = v
    PROVE  SendingBooks(v)' /\ HandlingBooks(v)'
<1>1. child \in [Child -> Row] /\ job \in [Worker -> Job]
  BY DEF IInv, TypeOK
<1>2. /\ Ours(child) <=> Ours(rows)
      /\ \A amount : KeyIn(child, amount) = KeyIn(rows, amount)
  BY <1>1, BooksCarry DEF BooksInv, Books
<1>3. SendingBooks(v)'
  <2>1. (Ours(child)' <=> Ours(rows)) /\ \A amount : KeyIn(child, amount)' = KeyIn(rows, amount)
    BY DEF Ours, Settled, KeyIn, SentIn, AmountIn, ProcIn, DoneIn, RejectedIn
  <2>2. \A c \in Child : /\ child'[c].awaiting => child[c].awaiting /\ child'[c].amount = child[c].amount
                         /\ child'[c].key = child[c].key /\ (child[c].awaiting => child'[c].awaiting)
    BY DEF SameBooks, SameBook, BooksInv, Books, RowBook
  <2> QED
    BY <1>2, <2>1, <2>2 DEF BooksInv, SendingBooks, Sending, Decided
<1>4. ASSUME Handling(v)', (lock[Source] = v)' PROVE Books(View(v))'
  <2> DEFINE V == View(v)
             S == [c \in Child |-> IF job[v].rows[c] # None THEN job[v].rows[c] ELSE rows[c]]
  <2>1. Handling(v) /\ lock[Source] = v
    BY <1>4 DEF Handling
  <2>2. /\ V \in [Child -> Row] /\ Books(V)
        /\ \A c \in Child : job[v].rows[c] = None => V[c] = child[c]
        /\ \A c \in Child : job[v].rows[c] # None => V[c] = job[v].rows[c]
    BY <1>1, <2>1, ViewTypes DEF BooksInv, HandlingBooks
  <2> HIDE DEF V
  <2>3. /\ S \in [Child -> Row]
        /\ \A c \in Child : S[c] = V[c] \/ (S[c] = rows[c] /\ V[c] = child[c])
    BY <2>2
  <2>4. View(v)' = S
    BY DEF View
  <2> HIDE DEF S
  <2>5. SameBooks(V, S)
    BY <2>3 DEF SameBooks, SameBook
  <2>6. \A c \in Child : RowBook(S[c])
    BY <2>2, <2>3 DEF Books
  <2>7. Books(S)
    BY <2>2, <2>3, <2>5, <2>6, BooksCarry
  <2> QED
    BY <2>4, <2>7 DEF Books, RowBook, Ours, Settled, Ledger, Shared
<1> QED
  BY <1>3, <1>4 DEF HandlingBooks

\* A request's step, all told.
LEMMA StepBooks ==
    ASSUME IInv, IInv', BooksInv, NEW w \in Worker, UNCHANGED platform,
           NEW rows \in [Child -> Row], child' = rows, Books(rows),
           \A v \in Worker \ {w} :
               /\ job'[v] = job[v]
               /\ lock'[Source] = v => lock[Source] = v /\ SameBooks(child, rows),
           SendingBooks(w)', HandlingBooks(w)'
    PROVE  BooksInv'
<1>1. refund' = refund /\ answers' = answers /\ sent' = sent
  BY DEF platform
<1>2. Books(child)'
  BY <1>1 DEF Books, RowBook, Ours, Settled, Ledger, Shared
<1>3. DecidedInv'
  BY <1>1 DEF BooksInv, DecidedInv, Decided
<1>4. ASSUME NEW v \in Worker \ {w} PROVE SendingBooks(v)' /\ HandlingBooks(v)'
  <2>1. CASE lock'[Source] = v
    BY <1>1, <2>1, OtherBooks
  <2>2. CASE lock'[Source] # v
    <3>1. SendingInv(v)'
      BY DEF IInv
    <3> QED
      BY <2>2, <3>1 DEF SendingInv, SendingBooks, HandlingBooks
  <2> QED
    BY <2>1, <2>2
<1> QED
  BY <1>2, <1>3, <1>4 DEF BooksInv

\* One that writes no row.
LEMMA NoWriteBooks ==
    ASSUME IInv, IInv', BooksInv, NEW w \in Worker, UNCHANGED <<child, platform>>,
           \A v \in Worker \ {w} : job'[v] = job[v] /\ (lock'[Source] = v => lock[Source] = v),
           SendingBooks(w)', HandlingBooks(w)'
    PROVE  BooksInv'
<1>1. child \in [Child -> Row] /\ Books(child)
  BY DEF IInv, TypeOK, BooksInv
<1>2. SameBooks(child, child)
  BY DEF SameBooks, SameBook
<1> QED
  BY <1>1, <1>2, StepBooks

LEMMA AbortBooks ==
    ASSUME IInv, IInv', BooksInv, NEW w \in Worker, Abort(w)
    PROVE  BooksInv'
<1>1. /\ lock' = [l \in DOMAIN lock |-> IF lock[l] = w THEN None ELSE lock[l]]
      /\ job' = [job EXCEPT ![w] = Idle]
      /\ UNCHANGED <<child, platform>>
  BY DEF Abort
<1>2. lock \in [Child \cup {Source} -> Worker \cup {None}] /\ job \in [Worker -> Job]
  BY DEF IInv, TypeOK
<1>3. \A v \in Worker \ {w} : job'[v] = job[v] /\ (lock'[Source] = v => lock[Source] = v)
  BY <1>1, <1>2, ConstantFacts
<1>4. job'[w] = Idle
  BY <1>1, <1>2
<1>5. SendingBooks(w)' /\ HandlingBooks(w)'
  BY <1>4 DEF SendingBooks, Sending, HandlingBooks, Handling, Idle
<1> QED
  BY <1>1, <1>3, <1>5, NoWriteBooks

LEMMA SubmitRefundBooks ==
    ASSUME IInv, IInv', BooksInv, NEW w \in Worker, NEW amount \in 1 .. SourceAmount,
           SubmitRefund(w, amount)
    PROVE  BooksInv'
<1> DEFINE key == RefundKey(amount)
           j == [step |-> "posting", child |-> Min(FreeChild), amount |-> amount, key |-> key]
<1>1. /\ lock[Source] = None
      /\ lock' = [lock EXCEPT ![Source] = w]
      /\ job' = [job EXCEPT ![w] = j]
      /\ UNCHANGED <<child, platform>>
      /\ \A c \in Child : child[c].awaiting => child[c].amount = amount
  BY DEF SubmitRefund, MayRefund
<1>2. /\ lock \in [Child \cup {Source} -> Worker \cup {None}]
      /\ job \in [Worker -> Job] /\ child \in [Child -> Row]
  BY DEF IInv, TypeOK
<1>3. key = KeyIn(child, amount)
  BY DEF RefundKey, SentAmount, Recorded, Rejected, Refunds, AmountOf, ProcOf,
         KeyIn, SentIn, AmountIn, ProcIn, DoneIn, RejectedIn
<1>4. amount \in Nat
  BY ConstantsAssumption
<1>5. key \in Key /\ key.recorded = Recorded /\ key.rejected = Rejected /\ key.amount = amount
  BY <1>2, <1>4, KeyTypes DEF RefundKey
<1> HIDE DEF key
<1>6. ASSUME ~Deviates, NEW c \in Child, child[c].key = key PROVE child[c].awaiting
  <2>1. key # None
    BY <1>5, ConstantFacts
  <2>2. SUFFICES ASSUME ~child[c].awaiting PROVE FALSE
    OBVIOUS
  <2>3. PICK d \in Child : child[d].key = key /\ Settled(child[d])
    BY <1>6, <2>1, <2>2 DEF BooksInv, Books, Shared
  <2>4. /\ child[d].state = "done" => child[d].key.recorded < Recorded
        /\ child[d].rejected => child[d].key.rejected < Rejected
    BY <2>1, <2>3 DEF IInv, KeyInv
  <2>5. key.recorded \in Nat /\ key.rejected \in Nat
    BY <1>5 DEF Key
  <2>6. ~(key.recorded < Recorded) /\ ~(key.rejected < Rejected)
    BY <1>5, <2>5
  <2> QED
    BY <2>3, <2>4, <2>6 DEF Settled
<1>7. job'[w] = j /\ lock'[Source] = w
  BY <1>1, <1>2, ConstantFacts
<1>8. SendingBooks(w)'
  <2>1. job'[w].key = key /\ job'[w].amount = amount /\ job'[w].step = "posting"
    BY <1>7
  <2>2. (Ours(child)' <=> Ours(child)) /\ KeyIn(child, amount)' = KeyIn(child, amount)
    BY <1>1 DEF Ours, Settled, KeyIn, SentIn, AmountIn, ProcIn, DoneIn, RejectedIn
  <2>3. KeyIn(child, job[w].amount)' = key
    BY <1>3, <2>1, <2>2
  <2> QED
    BY <1>1, <1>5, <1>6, <2>1, <2>3 DEF SendingBooks
<1>9. HandlingBooks(w)'
  BY <1>7 DEF HandlingBooks, Handling
<1>10. \A v \in Worker \ {w} : job'[v] = job[v] /\ (lock'[Source] = v => lock[Source] = v)
  BY <1>1, <1>2, <1>7
<1> QED
  BY <1>1, <1>8, <1>9, <1>10, NoWriteBooks

LEMMA SubmitRefusedBooks ==
    ASSUME IInv, IInv', BooksInv, NEW w \in Worker, NEW amount \in 1 .. SourceAmount,
           SubmitRefused(w, amount)
    PROVE  BooksInv'
<1> DEFINE m == Min(FreeChild)
           row == [NoRow EXCEPT !.state = SetError("draft"), !.amount = amount]
           rows == [child EXCEPT ![m] = row]
<1>1. /\ job[w] = Idle /\ FreeChild # {} /\ child' = rows
      /\ UNCHANGED <<lock, job, platform>>
  BY DEF SubmitRefused
<1>2. child \in [Child -> Row] /\ m \in Child /\ child[m].state = "absent"
  BY <1>1, FreeFacts DEF IInv, TypeOK
<1>3. rows \in [Child -> Row]
  BY <1>1 DEF IInv, TypeOK
<1>4. /\ row.state = "error" /\ ~row.rejected /\ ~row.awaiting /\ row.key = None
      /\ row.provider_reference = None
  BY DEF SetError, NoRow
<1> HIDE DEF m, row
<1>5. rows[m] = row /\ \A c \in Child \ {m} : rows[c] = child[c]
  BY <1>2
<1>6. RowOk(child[m]) /\ \A c \in Child : RowBook(child[c])
  BY <1>2 DEF IInv, StoreInv, BooksInv, Books
<1> HIDE DEF rows
<1>7. SameBooks(child, rows)
  BY <1>2, <1>4, <1>5, <1>6 DEF SameBooks, SameBook, RowOk, RowBook
<1>8. \A c \in Child : RowBook(rows[c])
  BY <1>4, <1>5, <1>6 DEF RowBook
<1>9. Books(rows)
  BY <1>2, <1>3, <1>7, <1>8, BooksCarry DEF BooksInv
<1>10. SendingBooks(w)' /\ HandlingBooks(w)'
  BY <1>1 DEF SendingBooks, Sending, HandlingBooks, Handling, Idle
<1> QED
  BY <1>1, <1>3, <1>7, <1>9, <1>10, StepBooks

LEMMA DeliverBooks ==
    ASSUME IInv, IInv', BooksInv, NEW w \in Worker, NEW e \in sent, Deliver(w, e)
    PROVE  BooksInv'
<1>1. /\ UNCHANGED <<child, lock, platform>>
      /\ job'[w].step = "found" /\ job'[w].rows = [c \in Child |-> None]
      /\ \A v \in Worker \ {w} : job'[v] = job[v]
  BY DEF Deliver, IInv, TypeOK
<1>2. SendingBooks(w)'
  BY <1>1 DEF SendingBooks, Sending
<1>3. View(w)' = child
  <2>1. child = [c \in Child |-> child[c]]
    BY DEF IInv, TypeOK
  <2> QED
    BY <1>1, <2>1 DEF View
<1>4. HandlingBooks(w)'
  <2>1. refund' = refund /\ Books(child)
    BY <1>1 DEF platform, BooksInv
  <2> QED
    BY <1>3, <2>1 DEF HandlingBooks, Books, RowBook, Ours, Settled, Ledger, Shared
<1> QED
  BY <1>1, <1>2, <1>4, NoWriteBooks

LEMMA LookUpBooks ==
    ASSUME IInv, IInv', BooksInv, NEW w \in Worker, LookUp(w)
    PROVE  BooksInv'
<1>1. /\ UNCHANGED <<child, lock, platform>> /\ job[w].step = "looking"
      /\ job' = [job EXCEPT ![w] = [job[w] EXCEPT !.step = "found",
                                                  !.target = FindChild(View(w), job[w].todo[1].id)]]
  BY DEF LookUp, IInv, TypeOK
<1>2. Handling(w) /\ job \in [Worker -> Job]
  BY <1>1 DEF Handling, IInv, TypeOK
<1>3. job[w] \in [step : {"looking", "found"}, event : Event, todo : Seq(Report),
                  target : Child \cup {None}, rows : [Child -> Row \cup {None}],
                  seen : Seq(Seen) \cup {None}, flags : SUBSET Refund]
  BY <1>2, JobTypes
<1>4. /\ job'[w].step = "found" /\ job'[w].rows = job[w].rows
      /\ \A v \in Worker \ {w} : job'[v] = job[v]
  BY <1>1, <1>2, <1>3
<1>5. SendingBooks(w)'
  BY <1>4 DEF SendingBooks, Sending
<1>6. View(w)' = View(w) /\ refund' = refund
  BY <1>1, <1>4 DEF View, platform
<1>7. HandlingBooks(w)'
  <2>1. lock[Source] = w => Books(View(w))
    BY <1>2 DEF BooksInv, HandlingBooks
  <2> QED
    BY <1>1, <1>6, <2>1 DEF HandlingBooks, Books, RowBook, Ours, Settled, Ledger, Shared
<1> QED
  BY <1>1, <1>4, <1>5, <1>7, NoWriteBooks

-----------------------------------------------------------------------------
(* What a request's answer, or the lack of one, makes of the ledger.       *)

\* The child as it was sent is what its key says.
LEMMA SentBook ==
    ASSUME IInv, BooksInv, NEW w \in Worker, Sending(w)
    PROVE  /\ SentRow(w).key = job[w].key /\ job[w].key \in Key
           /\ SentRow(w).amount = job[w].key.amount /\ SentRow(w).proc = job[w].key.proc
           /\ job[w].amount = job[w].key.amount
<1>1. SentRow(w).key = job[w].key /\ job[w].key \in Key
  BY SentFacts
<1>2. job[w].amount = job[w].key.amount
  BY DEF BooksInv, SendingBooks
<1>3. SentRow(w).amount = job[w].amount /\ SentRow(w).proc = job[w].key.proc
  BY DEF SentRow, NoRow
<1> QED
  BY <1>1, <1>2, <1>3

LEMMA SubmitLostBooks ==
    ASSUME IInv, IInv', BooksInv, NEW w \in Worker, SubmitLost(w)
    PROVE  BooksInv'
<1> DEFINE m == job[w].child
           key == job[w].key
           row == [SentRow(w) EXCEPT !.state = SetError(@)]
           rows == [child EXCEPT ![m] = row]
<1>1. /\ Sending(w) /\ child' = rows
      /\ lock' = [lock EXCEPT ![Source] = None] /\ job' = [job EXCEPT ![w] = Idle]
      /\ UNCHANGED platform
  BY DEF SubmitLost, Sending
<1>2. child \in [Child -> Row] /\ Books(child)
  BY DEF IInv, TypeOK, BooksInv
<1>3. /\ SentRow(w) \in Row
      /\ SentRow(w).state = "draft" /\ SentRow(w).provider_reference = None
      /\ SentRow(w).awaiting /\ ~SentRow(w).rejected
      /\ m \in Child /\ child[m].state = "absent" /\ key # None
  BY <1>1, SentFacts
<1>4. /\ SentRow(w).key = key /\ key \in Key
      /\ SentRow(w).amount = key.amount /\ SentRow(w).proc = key.proc
      /\ job[w].amount = key.amount
  BY <1>1, SentBook
<1>5. /\ row \in Row /\ row.state = "error" /\ row.provider_reference = None
      /\ row.awaiting /\ ~row.rejected
      /\ row.key = key /\ row.amount = key.amount /\ row.proc = key.proc
  BY <1>3, <1>4 DEF Row, SetError
<1>6. /\ Ours(child) => /\ key = KeyIn(child, key.amount)
                        /\ \A c \in Child : child[c].awaiting => child[c].amount = key.amount
      /\ ~Deviates => \A c \in Child : child[c].key = key => child[c].awaiting
  BY <1>1, <1>4 DEF BooksInv, SendingBooks
<1>7. RowOk(child[m]) /\ RowBook(child[m])
  BY <1>2, <1>3 DEF IInv, StoreInv, Books
<1>8. lock'[Source] = None /\ job'[w] = Idle /\ \A v \in Worker \ {w} : job'[v] = job[v]
  BY <1>1 DEF IInv, TypeOK
<1> HIDE DEF m, key, row
<1>9. rows \in [Child -> Row] /\ rows[m] = row /\ \A c \in Child \ {m} : rows[c] = child[c]
  BY <1>2, <1>3, <1>5
<1> HIDE DEF rows
<1>10. \A c \in Child : RowBook(rows[c])
  <2>1. RowBook(row)
    BY <1>3, <1>5 DEF RowBook
  <2>2. \A c \in Child : RowBook(child[c])
    BY <1>2 DEF Books
  <2> QED
    BY <1>9, <2>1, <2>2
<1>11. /\ AmountIn(child) = AmountIn(rows) /\ ProcIn(child) = ProcIn(rows)
       /\ \A amount : KeyIn(child, amount) = KeyIn(rows, amount)
  BY <1>2, <1>3, <1>5, <1>7, <1>9, SameCounts DEF RowOk
<1>12. ASSUME Ours(rows) PROVE Ledger(rows)
  <2>1. Ours(child)
    BY <1>3, <1>7, <1>9, <1>12 DEF Ours, Settled, RowOk
  <2>2. Ledger(child)
    BY <1>2, <2>1 DEF Books
  <2> QED
    BY <1>5, <1>6, <1>9, <1>11, <2>1, <2>2 DEF Ledger
<1>13. ASSUME ~Deviates PROVE Shared(rows)
  <2>1. Shared(child)
    BY <1>2, <1>13 DEF Books
  <2>2. ASSUME NEW c \in Child, NEW d \in Child, rows[c].key # None, rows[c].key = rows[d].key
        PROVE  rows[c].awaiting <=> rows[d].awaiting
    BY <1>5, <1>6, <1>9, <1>13, <2>1, <2>2 DEF Shared
  <2>3. ASSUME NEW c \in Child, rows[c].key # None, ~rows[c].awaiting
        PROVE  \E d \in Child : rows[d].key = rows[c].key /\ Settled(rows[d])
    <3>1. c # m /\ rows[c] = child[c]
      BY <1>5, <1>9, <2>3
    <3>2. PICK d \in Child : child[d].key = child[c].key /\ Settled(child[d])
      BY <2>1, <2>3, <3>1 DEF Shared
    <3>3. d # m
      BY <1>3, <1>7, <3>2 DEF Settled, RowOk
    <3> QED
      BY <1>9, <3>1, <3>2, <3>3
  <2> QED
    BY <2>2, <2>3 DEF Shared
<1>14. Books(rows)
  BY <1>10, <1>12, <1>13 DEF Books
<1>15. SendingBooks(w)' /\ HandlingBooks(w)'
  BY <1>8 DEF SendingBooks, Sending, HandlingBooks, Handling, Idle
<1> QED
  BY <1>1, <1>8, <1>9, <1>14, <1>15, ConstantFacts, StepBooks

\* What the answer makes of the child.
LEMMA AnswerBook ==
    ASSUME NEW r \in Row, r.state = "draft", r.provider_reference = None, ~r.rejected,
           NEW a \in Answer, TrueAnswer(a), r.key \in Key,
           r.amount = r.key.amount, r.proc = r.key.proc, Decided(r.key, a)
    PROVE  LET row == [AnswerRow(r, a) EXCEPT !.awaiting = FALSE]
           IN  /\ row.key = r.key /\ row.amount = r.amount /\ row.proc = r.proc
               /\ ~row.awaiting /\ RowBook(row)
               /\ ~Deviates => Settled(row)
<1> DEFINE row == [AnswerRow(r, a) EXCEPT !.awaiting = FALSE]
<1>1. /\ a.id \in Refund \cup {None} /\ a.status \in {"REFUSED", "SUCCEEDED", "FAILED"}
      /\ a.status = "SUCCEEDED" /\ ~Deviates => a.proc = r.proc
  BY DEF Answer, Decided
<1>2. CASE a.status = "REFUSED"
  <2>1. AnswerRow(r, a) = [r EXCEPT !.state = "error", !.rejected = TRUE]
    BY <1>2 DEF AnswerRow, SetError
  <2>2. /\ row.rejected /\ row.state = "error" /\ row.provider_reference = None
        /\ ~row.awaiting /\ row.key = r.key /\ row.amount = r.amount /\ row.proc = r.proc
    BY <2>1 DEF Row
  <2> HIDE DEF row
  <2>3. RowBook(row) /\ Settled(row)
    BY <2>2 DEF RowBook, Settled
  <2> QED
    BY <2>2, <2>3 DEF row
<1>3. CASE a.status # "REFUSED"
  <2>1. a.id \in Refund /\ Told(a)
    BY <1>1, <1>3, ConstantFacts DEF TrueAnswer, Refusal
  <2> DEFINE known == [r EXCEPT !.provider_reference = a.id]
  <2>2. /\ known \in Row /\ known.state = "draft" /\ known.provider_reference = a.id
        /\ ~known.rejected
        /\ known.key = r.key /\ known.amount = r.amount /\ known.proc = r.proc
    BY <2>1 DEF Row
  <2> HIDE DEF known
  <2>3. /\ a.status = "SUCCEEDED" =>
               AnswerRow(r, a) = [known EXCEPT !.state = IF a.proc # r.proc THEN "error" ELSE "done"]
        /\ a.status = "FAILED" => AnswerRow(r, a) = [known EXCEPT !.state = "error", !.rejected = TRUE]
    BY <2>2 DEF AnswerRow, known, SetError, SetDone
  <2>4. /\ row.key = r.key /\ row.amount = r.amount /\ row.proc = r.proc
        /\ ~row.awaiting /\ row.provider_reference = a.id /\ row.state # "absent"
        /\ a.status = "FAILED" => row.rejected
        /\ a.status = "SUCCEEDED" => row.state = IF a.proc # r.proc THEN "error" ELSE "done"
    <3>1. CASE a.status = "SUCCEEDED"
      BY <2>2, <2>3, <3>1 DEF Row
    <3>2. CASE a.status = "FAILED"
      BY <2>2, <2>3, <3>2 DEF Row
    <3> QED
      BY <1>1, <1>3, <3>1, <3>2
  <2> HIDE DEF row
  <2>5. RowBook(row)
    BY <1>1, <1>3, <2>1, <2>4 DEF RowBook, Told
  <2>6. ~Deviates => Settled(row)
    BY <1>1, <1>3, <2>4 DEF Settled
  <2> QED
    BY <2>4, <2>5, <2>6 DEF row
<1> QED
  BY <1>2, <1>3

LEMMA SubmitAnsweredBooks ==
    ASSUME IInv, IInv', BooksInv, NEW w \in Worker, SubmitAnswered(w)
    PROVE  BooksInv'
<1> DEFINE m == job[w].child
           key == job[w].key
           answered == AnswerRow(SentRow(w), job[w].answer)
           row == [answered EXCEPT !.awaiting = FALSE]
           rows == [child EXCEPT ![m] = answered]
           Freed(c) == [child[c] EXCEPT !.awaiting = FALSE]
           new == SettleAwaiting(rows, m)
<1>1. /\ Sending(w) /\ job[w].step = "answered" /\ child' = new
      /\ lock' = [lock EXCEPT ![Source] = None] /\ job' = [job EXCEPT ![w] = Idle]
      /\ UNCHANGED platform
  BY DEF SubmitAnswered, Sending
<1>2. child \in [Child -> Row] /\ job \in [Worker -> Job] /\ Books(child)
  BY DEF IInv, TypeOK, BooksInv
<1>3. /\ SentRow(w) \in Row
      /\ SentRow(w).state = "draft" /\ SentRow(w).provider_reference = None
      /\ ~SentRow(w).rejected /\ SentRow(w).processed = << >>
      /\ m \in Child /\ child[m].state = "absent" /\ key # None
  BY <1>1, SentFacts
<1>4. /\ SentRow(w).key = key /\ key \in Key
      /\ SentRow(w).amount = key.amount /\ SentRow(w).proc = key.proc
      /\ job[w].amount = key.amount
  BY <1>1, SentBook
<1>5. job[w].answer \in Answer /\ TrueAnswer(job[w].answer) /\ Decided(key, job[w].answer)
  BY <1>1, <1>2, JobTypes DEF IInv, SendingInv, BooksInv, SendingBooks
<1>6. answered.key = key
  BY <1>3, <1>4, <1>5, AnswerFacts
<1>7. /\ row.key = key /\ row.amount = key.amount /\ row.proc = key.proc
      /\ ~row.awaiting /\ RowBook(row)
      /\ ~Deviates => Settled(row)
  BY <1>3, <1>4, <1>5, AnswerBook
<1>8. /\ Ours(child) => /\ key = KeyIn(child, key.amount)
                        /\ \A c \in Child : child[c].awaiting => child[c].amount = key.amount
      /\ ~Deviates => \A c \in Child : child[c].key = key => child[c].awaiting
  BY <1>1, <1>4 DEF BooksInv, SendingBooks
<1>9. RowOk(child[m]) /\ RowBook(child[m])
  BY <1>2, <1>3 DEF IInv, StoreInv, Books
<1>10. lock'[Source] = None /\ job'[w] = Idle /\ \A v \in Worker \ {w} : job'[v] = job[v]
  BY <1>1 DEF IInv, TypeOK
<1>11. new \in [Child -> Row]
  BY <1>1 DEF IInv, TypeOK
<1> HIDE DEF m, key, answered
<1>12. rows[m] = answered /\ \A c \in Child \ {m} : rows[c] = child[c]
  BY <1>2, <1>3
<1> HIDE DEF rows
<1>13. /\ new[m] = row
       /\ \A c \in Child \ {m} : new[c] = IF child[c].key = key THEN Freed(c) ELSE child[c]
  <2>1. new = [c \in Child |-> IF c = m \/ rows[c].key = rows[m].key
                               THEN [rows[c] EXCEPT !.awaiting = FALSE] ELSE rows[c]]
    BY DEF SettleAwaiting
  <2>2. new[m] = row
    BY <1>3, <1>12, <2>1
  <2>3. ASSUME NEW c \in Child \ {m}
        PROVE  new[c] = IF child[c].key = key THEN Freed(c) ELSE child[c]
    BY <1>6, <1>12, <2>1
  <2> QED
    BY <2>2, <2>3
<1> HIDE DEF row, new
<1>14. ASSUME NEW c \in Child \ {m}
       PROVE  /\ new[c].state = child[c].state /\ new[c].rejected = child[c].rejected
              /\ new[c].key = child[c].key /\ new[c].amount = child[c].amount
              /\ new[c].proc = child[c].proc
              /\ new[c].provider_reference = child[c].provider_reference
              /\ new[c].awaiting <=> child[c].awaiting /\ child[c].key # key
  <2>1. child[c] \in Row
    BY <1>2
  <2>2. CASE child[c].key = key
    <3>1. new[c] = Freed(c)
      BY <1>13, <2>2
    <3> QED
      BY <2>1, <2>2, <3>1 DEF Row
  <2>3. CASE child[c].key # key
    BY <1>13, <2>3
  <2> QED
    BY <2>2, <2>3
<1> HIDE DEF Freed
<1>15. \A c \in Child : RowBook(new[c])
  <2>1. ASSUME NEW c \in Child \ {m} PROVE RowBook(new[c])
    BY <1>2, <1>14 DEF Books, RowBook
  <2> QED
    BY <1>7, <1>13, <2>1
<1>16. Closes(child, new, m, key)
  BY <1>3, <1>4, <1>7, <1>9, <1>13, <1>14 DEF Closes, Settled, RowOk, RowBook
<1>17. Ours(child) => /\ key = KeyIn(child, key.amount)
                      /\ \A c \in Child : child[c].awaiting => child[c].key = key
  BY <1>2, <1>8 DEF Books, Ledger
<1>18. Books(new)
  BY <1>2, <1>11, <1>15, <1>16, <1>17, CloseBooks
<1>19. SendingBooks(w)' /\ HandlingBooks(w)'
  BY <1>10 DEF SendingBooks, Sending, HandlingBooks, Handling, Idle
<1> QED
  BY <1>1, <1>10, <1>11, <1>18, <1>19, ConstantFacts, StepBooks

-----------------------------------------------------------------------------
(* What a report makes of the ledger.                                      *)

\* A webhook takes an entry: the rows it leaves are good books.
LEMMA TakeBooks ==
    ASSUME IInv, IInv', BooksInv, NEW w \in Worker, Handling(w), NEW row \in Child \cup {Source},
           NEW rows \in [Child -> Row], NEW list, NEW flags,
           Take(w, row, rows, list, flags), Books(rows),
           row = Source \/ SameBooks(View(w), rows)
    PROVE  BooksInv'
<1>1. /\ lock \in [Child \cup {Source} -> Worker \cup {None}]
      /\ job \in [Worker -> Job] /\ child \in [Child -> Row] /\ Books(child)
  BY DEF IInv, TypeOK, BooksInv
<1>2. lock[row] \in {None, w} /\ UNCHANGED platform
  BY DEF Take
<1>3. CASE Len(job[w].todo) = 1
  <2>1. /\ child' = rows
        /\ lock' = [l \in DOMAIN lock |-> IF lock[l] = w THEN None ELSE lock[l]]
        /\ job' = [job EXCEPT ![w] = Idle]
    BY <1>3 DEF Take
  <2>2. job'[w] = Idle /\ \A v \in Worker \ {w} : job'[v] = job[v]
    BY <1>1, <2>1
  <2>3. ASSUME NEW v \in Worker \ {w}, lock'[Source] = v
        PROVE  lock[Source] = v /\ SameBooks(child, rows)
    <3>1. lock[Source] = v
      BY <1>1, <2>1, <2>3, ConstantFacts
    <3>2. row # Source
      BY <1>2, <3>1, ConstantFacts
    <3>3. SameBooks(child, View(w))
      BY <1>1, <3>1, ViewSame
    <3>4. SameBooks(View(w), rows)
      BY <3>2
    <3>5. \A c \in Child : RowBook(child[c])
      BY <1>1 DEF Books
    <3> QED
      BY <3>1, <3>3, <3>4, <3>5 DEF SameBooks, SameBook
  <2>4. SendingBooks(w)' /\ HandlingBooks(w)'
    BY <2>2 DEF SendingBooks, Sending, HandlingBooks, Handling, Idle
  <2> QED
    BY <1>2, <2>1, <2>2, <2>3, <2>4, StepBooks
<1>4. CASE Len(job[w].todo) # 1
  <2> DEFINE kept == [c \in Child |-> IF rows[c] # child[c] THEN rows[c] ELSE None]
  <2>1. /\ UNCHANGED child
        /\ lock' = [lock EXCEPT ![row] = w]
        /\ job' = [job EXCEPT ![w] = [job[w] EXCEPT
                      !.step = "looking", !.todo = Tail(job[w].todo), !.rows = kept,
                      !.seen = IF row = Source THEN list ELSE job[w].seen,
                      !.flags = job[w].flags \cup flags]]
    BY <1>1, <1>4 DEF Take
  <2>2. job[w] \in [step : {"looking", "found"}, event : Event, todo : Seq(Report),
                    target : Child \cup {None}, rows : [Child -> Row \cup {None}],
                    seen : Seq(Seen) \cup {None}, flags : SUBSET Refund]
    BY <1>1, JobTypes
  <2> HIDE DEF kept
  <2>3. /\ job'[w].step = "looking" /\ job'[w].rows = kept
        /\ \A v \in Worker \ {w} : job'[v] = job[v]
    BY <1>1, <2>1, <2>2
  <2>4. \A v \in Worker \ {w} : lock'[Source] = v => lock[Source] = v
    BY <1>1, <2>1
  <2>5. SendingBooks(w)'
    BY <2>3 DEF SendingBooks, Sending
  <2>6. View(w)' = rows
    <3>1. View(w)' = [c \in Child |-> IF kept[c] # None THEN kept[c] ELSE child[c]]
      BY <2>1, <2>3 DEF View
    <3>2. \A c \in Child : (IF kept[c] # None THEN kept[c] ELSE child[c]) = rows[c]
      BY <1>1, ConstantFacts DEF kept
    <3>3. rows = [c \in Child |-> rows[c]]
      OBVIOUS
    <3> QED
      BY <3>1, <3>2, <3>3
  <2>7. refund' = refund
    BY <1>2 DEF platform
  <2>8. HandlingBooks(w)'
    BY <2>6, <2>7 DEF HandlingBooks, Books, RowBook, Ours, Settled, Ledger, Shared
  <2> QED
    BY <1>2, <2>1, <2>3, <2>4, <2>5, <2>8, NoWriteBooks
<1> QED
  BY <1>3, <1>4

\* A child that has its refund's id has its answer: a report of it changes no
\* books.
LEMMA ApplyRefundUpdateBooks ==
    ASSUME IInv, IInv', BooksInv, NEW w \in Worker, ApplyRefundUpdate(w)
    PROVE  BooksInv'
<1> DEFINE c == job[w].target
           p == job[w].todo[1]
           e == job[w].event
           seeing == View(w)
           rows == ApplyToChild(seeing, c, e, p)
<1> HIDE DEF c, p, e, seeing, rows
<1>1. /\ job[w].step = "found" /\ c # None
      /\ \E list, flags : Take(w, c, rows, list, flags)
  BY DEF ApplyRefundUpdate, c, p, e, seeing, rows
<1>2. Handling(w)
  BY <1>1 DEF Handling
<1>3. p \in Report /\ p.id \in Refund /\ p.id # None /\ Told(p) /\ e \in Event
  BY <1>2, HeadFacts DEF p, e
<1>4. c \in Child /\ seeing[c].provider_reference = p.id
  <2>1. job \in [Worker -> Job] /\ HandlingInv(w)
    BY DEF IInv, TypeOK
  <2> QED
    BY <1>1, <1>2, <2>1, JobTypes DEF HandlingInv, c, p, seeing
<1>5. /\ seeing \in [Child -> Row] /\ Books(seeing)
      /\ RowOk(seeing[c]) /\ RowBook(seeing[c])
  BY <1>2, <1>4, ViewFacts, ViewBooks DEF seeing, Books
<1> DEFINE r == RefundUpdate(seeing[c], p)
           new == [r EXCEPT !.processed = RememberEvent(seeing[c].processed, e, ProcessedCap)]
<1>6. ASSUME ~IsReplay(seeing[c].processed, e)
      PROVE  new \in Row /\ SameBook(seeing[c], new) /\ RowBook(new)
  <2>1. seeing[c] \in Row /\ seeing[c].state # "absent" /\ ~seeing[c].awaiting
    BY <1>3, <1>4, <1>5 DEF RowOk
  <2>2. r \in Row /\ RowOk(r) /\ Later(seeing[c], r)
    BY <1>3, <1>4, <1>5, <2>1, UpdateFacts
  <2> HIDE DEF r
  <2>3. RememberEvent(seeing[c].processed, e, ProcessedCap) \in Seq(Event)
    BY <1>3, <1>6, <2>1, ConstantFacts, RememberFacts DEF Row
  <2>4. /\ new \in Row /\ new.state = r.state /\ new.amount = r.amount /\ new.proc = r.proc
        /\ new.provider_reference = r.provider_reference /\ new.awaiting = r.awaiting
        /\ new.rejected = r.rejected /\ new.key = r.key
    BY <2>2, <2>3 DEF Row
  <2> HIDE DEF new
  <2>5. SameBook(seeing[c], r) /\ RowBook(r)
    BY <1>3, <1>4, <1>5, <2>1, <2>2, ClosedSame
  <2> QED
    BY <2>4, <2>5 DEF SameBook, RowBook
<1>7. /\ rows \in [Child -> Row]
      /\ \A d \in Child : \/ rows[d] = seeing[d]
                          \/ SameBook(seeing[d], rows[d]) /\ RowBook(rows[d])
  <2>1. CASE IsReplay(seeing[c].processed, e)
    <3>1. rows = seeing
      BY <2>1 DEF rows, ApplyToChild
    <3> QED
      BY <1>5, <3>1
  <2>2. CASE ~IsReplay(seeing[c].processed, e)
    <3>1. rows = [seeing EXCEPT ![c] = new]
      BY <2>2 DEF rows, ApplyToChild
    <3>2. new \in Row /\ SameBook(seeing[c], new) /\ RowBook(new)
      BY <1>6, <2>2
    <3> HIDE DEF new
    <3>3. /\ rows \in [Child -> Row] /\ rows[c] = new
          /\ \A d \in Child \ {c} : rows[d] = seeing[d]
      BY <1>4, <1>5, <3>1, <3>2
    <3> QED
      BY <3>2, <3>3
  <2> QED
    BY <2>1, <2>2
<1>8. SameBooks(seeing, rows) /\ \A d \in Child : RowBook(rows[d])
  BY <1>5, <1>7 DEF SameBooks, SameBook, Books
<1>9. Books(rows)
  BY <1>5, <1>7, <1>8, BooksCarry
<1> QED
  BY <1>1, <1>2, <1>4, <1>7, <1>8, <1>9, TakeBooks DEF seeing

\* A webhook's report is decided, and its figure is positive.
LEMMA HeadDecided ==
    ASSUME IInv, BooksInv, NEW w \in Worker, Handling(w)
    PROVE  job[w].todo[1].status \in {"SUCCEEDED", "FAILED"}
<1>1. /\ job[w].todo[1] \in Report /\ job[w].event \in sent
      /\ \E i \in DOMAIN job[w].event.entries : job[w].event.entries[i] = job[w].todo[1]
  BY HeadFacts
<1>2. job[w].todo[1].status # "PENDING"
  BY <1>1 DEF BooksInv, DecidedInv
<1> QED
  BY <1>1, <1>2 DEF Report

\* What a report makes of a child that is not the refund's yet.
LEMMA FirstReport ==
    ASSUME NEW r \in Row, r.state \in {"draft", "pending", "error"}, ~r.awaiting,
           NEW p \in Report, p.status \in {"SUCCEEDED", "FAILED"}, Told(p), r.proc = p.proc
    PROVE  /\ Settled(RefundUpdate(r, p))
           /\ RefundUpdate(r, p).key = r.key /\ RefundUpdate(r, p).amount = r.amount
           /\ RefundUpdate(r, p).proc = r.proc /\ ~RefundUpdate(r, p).awaiting
           /\ RefundUpdate(r, p).state # "absent"
<1>1. p.proc > 0 /\ p.proc \in Nat /\ p.id \in Refund
  BY DEF Told, Report
<1>2. ~Disagrees(r, p)
  <2>1. r.proc # 0
    BY <1>1
  <2> QED
    BY <2>1 DEF Disagrees
<1> DEFINE known == [r EXCEPT !.provider_reference = p.id]
<1>3. /\ known \in Row /\ known.state = r.state /\ known.key = r.key
      /\ known.amount = r.amount /\ known.proc = r.proc /\ ~known.awaiting
  BY <1>1 DEF Row
<1> HIDE DEF known
<1>4. CASE p.status = "SUCCEEDED"
  <2>1. RefundUpdate(r, p) = [known EXCEPT !.state = "done"]
    BY <1>2, <1>3, <1>4 DEF RefundUpdate, SetDone, known
  <2> QED
    BY <1>3, <2>1 DEF Row, Settled
<1>5. CASE p.status = "FAILED"
  <2>1. RefundUpdate(r, p) = [known EXCEPT !.state = SetError(known.state), !.rejected = TRUE]
    BY <1>5 DEF RefundUpdate, known
  <2>2. SetError(known.state) = "error"
    BY <1>3 DEF SetError
  <2> QED
    BY <1>3, <2>1, <2>2 DEF Row, Settled
<1> QED
  BY <1>4, <1>5

\* A refund made elsewhere is settled on a child with no key.
LEMMA MirroredBooks ==
    ASSUME IInv, BooksInv, NEW w \in Worker, Handling(w), FreeChild # {}
    PROVE  LET rows == [View(w) EXCEPT ![Min(FreeChild)] = Mirrored(job[w].todo[1])]
           IN  rows \in [Child -> Row] /\ Books(rows)
<1> DEFINE R == View(w)
           p == job[w].todo[1]
           m == Min(FreeChild)
           amount == IF p.details THEN Present(p.proc) ELSE p.proc
           draft == [NoRow EXCEPT !.state = "draft", !.proc = p.proc, !.amount = amount]
           row == Mirrored(p)
           S == [R EXCEPT ![m] = row]
<1> HIDE DEF R, p, m, amount, draft, row, S
<1>1. /\ p \in Report /\ p.id \in Refund /\ p.id # None /\ Told(p)
      /\ p.status \in {"SUCCEEDED", "FAILED"}
  BY HeadFacts, HeadDecided DEF p
<1>2. R \in [Child -> Row] /\ Books(R)
  BY ViewFacts, ViewBooks DEF R
<1>3. m \in Child /\ child[m].state = "absent" /\ R[m] = child[m]
  <2>1. m \in Child /\ child[m].state = "absent" /\ Clear(w, m)
    BY FreeFacts DEF m
  <2>2. child \in [Child -> Row] /\ job \in [Worker -> Job]
    BY DEF IInv, TypeOK
  <2> QED
    BY <2>1, <2>2, ViewTypes DEF Clear, R
<1>4. R[m].key = None /\ ~Settled(R[m]) /\ ~R[m].awaiting
  <2>1. RowOk(R[m]) /\ RowBook(R[m])
    BY <1>2, <1>3, ViewFacts DEF R, Books
  <2> QED
    BY <1>3, <2>1 DEF RowOk, RowBook, Settled
<1>5. p.proc \in Nat /\ p.proc \in Int /\ p.proc > 0
  BY <1>1 DEF Told, Report
<1>6. /\ draft \in Row /\ draft.state = "draft" /\ ~draft.awaiting /\ draft.key = None
      /\ draft.proc = p.proc /\ draft.provider_reference = None /\ ~draft.rejected
      /\ draft.processed = << >>
  <2>1. amount \in Nat
    BY <1>5, MoneyTypes DEF amount
  <2>2. draft = [NoRow EXCEPT !.state = "draft", !.proc = p.proc, !.amount = amount]
    BY DEF draft
  <2> QED
    BY <1>5, <2>1, <2>2, NoRowFacts DEF Row
<1>7. RowOk(draft)
  BY <1>6 DEF RowOk
<1>8. row = RefundUpdate(draft, p)
  BY DEF row, Mirrored, draft, amount
<1>9. row \in Row
  BY <1>1, <1>6, <1>7, <1>8, UpdateFacts
<1>10. /\ Settled(row) /\ row.key = None /\ ~row.awaiting /\ row.state # "absent"
  BY <1>1, <1>6, <1>8, FirstReport
<1>11. RowBook(row)
  BY <1>10 DEF RowBook, Settled
<1>12. S \in [Child -> Row] /\ S[m] = row /\ \A c \in Child \ {m} : S[c] = R[c]
  BY <1>2, <1>3, <1>9 DEF S
<1>13. \A c \in Child : RowBook(S[c])
  BY <1>2, <1>11, <1>12 DEF Books
<1>14. ~Ours(S)
  BY <1>3, <1>10, <1>12 DEF Ours
<1>15. ASSUME ~Deviates PROVE Shared(S)
  <2>1. Shared(R)
    BY <1>2, <1>15 DEF Books
  <2>2. \A c \in Child : S[c].key # None => c # m /\ S[c] = R[c]
    BY <1>10, <1>12
  <2>3. ASSUME NEW c \in Child, S[c].key # None, ~S[c].awaiting
        PROVE  \E d \in Child : S[d].key = S[c].key /\ Settled(S[d])
    <3>1. S[c] = R[c]
      BY <2>2, <2>3
    <3>2. PICK d \in Child : R[d].key = R[c].key /\ Settled(R[d])
      BY <2>1, <2>3, <3>1 DEF Shared
    <3>3. d # m
      BY <1>4, <3>2
    <3> QED
      BY <1>12, <3>1, <3>2, <3>3
  <2>4. ASSUME NEW c \in Child, NEW d \in Child, S[c].key # None, S[c].key = S[d].key
        PROVE  S[c].awaiting <=> S[d].awaiting
    BY <2>1, <2>2, <2>4 DEF Shared
  <2> QED
    BY <2>3, <2>4 DEF Shared
<1>16. Books(S)
  BY <1>13, <1>14, <1>15 DEF Books
<1> QED
  BY <1>12, <1>16 DEF S, R, m, row, p

\* A report that can be the answer of the attempts sent under one key is: the
\* earliest takes it, the others share it.
LEMMA AdoptBooks ==
    ASSUME IInv, BooksInv, NEW w \in Worker, Handling(w),
           Unresolved(View(w), job[w].todo[1]) # {},
           ~Ambiguous(Unresolved(View(w), job[w].todo[1]), View(w))
    PROVE  LET rows == Adopt(View(w), Unresolved(View(w), job[w].todo[1]), job[w].todo[1])
           IN  rows \in [Child -> Row] /\ Books(rows)
<1> DEFINE R == View(w)
           p == job[w].todo[1]
           C == Unresolved(R, p)
           m == Min(C)
           key == R[m].key
           Freed(c) == [R[c] EXCEPT !.awaiting = FALSE]
           first == RefundUpdate(Freed(m), p)
           S == Adopt(R, C, p)
<1> HIDE DEF R, p, m, key, Freed, first, S
<1>1. /\ p \in Report /\ p.id \in Refund /\ p.id # None /\ Told(p)
      /\ p.status \in {"SUCCEEDED", "FAILED"}
  BY HeadFacts, HeadDecided DEF p
<1>2. R \in [Child -> Row] /\ Books(R) /\ \A c \in Child : RowOk(R[c]) /\ RowBook(R[c])
  BY ViewFacts, ViewBooks DEF R, Books
<1>3. \A c \in Child : c \in C <=> /\ R[c].awaiting
                                   /\ R[c].provider_reference = None /\ R[c].proc = p.proc
  BY DEF Unresolved
<1>4. C \in SUBSET Child /\ C # {}
  BY DEF Unresolved, R, p
<1>5. \A c, d \in C : R[c].key = R[d].key
  BY DEF Ambiguous, R, p
<1> HIDE DEF C
<1>6. m \in C /\ m \in Child
  <2>1. C \in SUBSET Nat
    BY <1>4 DEF Child
  <2> QED
    BY <1>4, <2>1, MinFacts DEF m
<1>7. ASSUME NEW c \in C
      PROVE  /\ c \in Child /\ R[c].awaiting /\ R[c].proc = p.proc
             /\ Freed(c) \in Row /\ RowOk(Freed(c)) /\ ~Freed(c).awaiting /\ ~Freed(c).rejected
             /\ Freed(c).state = R[c].state /\ Freed(c).state \in {"draft", "pending", "error"}
             /\ Freed(c).key = R[c].key /\ R[c].key # None /\ ~R[c].rejected
             /\ Freed(c).proc = R[c].proc /\ Freed(c).amount = R[c].amount
             /\ Freed(c).provider_reference = None
             /\ [R[c] EXCEPT !.awaiting = FALSE, !.proc = p.proc] = Freed(c)
  <2>1. c \in Child /\ R[c].awaiting /\ R[c].provider_reference = None /\ R[c].proc = p.proc
    BY <1>3, <1>4
  <2>2. R[c] \in Row /\ RowOk(R[c]) /\ RowBook(R[c])
    BY <1>2, <2>1
  <2>3. /\ Freed(c) \in Row /\ RowOk(Freed(c)) /\ ~Freed(c).awaiting /\ ~Freed(c).rejected
        /\ Freed(c).state # "absent"
        /\ Freed(c).provider_reference = None
        /\ Freed(c).key = R[c].key /\ Freed(c).proc = R[c].proc
        /\ [R[c] EXCEPT !.awaiting = FALSE, !.proc = p.proc] = Freed(c)
    BY <2>1, <2>2, FreedFacts DEF Freed
  <2>4. Freed(c).state = R[c].state /\ Freed(c).amount = R[c].amount
    BY <2>2 DEF Freed, Row
  <2>5. Freed(c).state \in {"draft", "pending", "error"} /\ ~R[c].rejected /\ R[c].key # None
    BY <2>1, <2>2, <2>3, <2>4 DEF Row, RowOk, RowBook
  <2> QED
    BY <2>1, <2>3, <2>4, <2>5
<1>8. /\ Settled(first) /\ first.key = key /\ first.amount = R[m].amount
      /\ first.proc = R[m].proc /\ ~first.awaiting /\ first.state # "absent"
  <2>1. /\ Freed(m) \in Row /\ Freed(m).state \in {"draft", "pending", "error"}
        /\ ~Freed(m).awaiting /\ Freed(m).proc = p.proc
        /\ Freed(m).key = key /\ Freed(m).amount = R[m].amount /\ R[m].proc = p.proc
    BY <1>6, <1>7 DEF key
  <2> QED
    BY <1>1, <2>1, FirstReport DEF first
<1>9. first \in Row
  BY <1>1, <1>6, <1>7, UpdateFacts DEF first
<1>10. /\ S[m] = first
       /\ \A c \in C \ {m} : S[c] = Freed(c)
       /\ \A c \in Child \ C : S[c] = R[c]
       /\ S = [c \in Child |-> S[c]]
  <2>1. S = [c \in Child |-> IF c = m
                             THEN RefundUpdate([R[c] EXCEPT !.awaiting = FALSE, !.proc = p.proc], p)
                             ELSE IF c \in C THEN [R[c] EXCEPT !.awaiting = FALSE]
                             ELSE R[c]]
    BY DEF S, Adopt, m
  <2>2. [R[m] EXCEPT !.awaiting = FALSE, !.proc = p.proc] = Freed(m)
    BY <1>6, <1>7
  <2>3. S[m] = first
    BY <1>6, <2>1, <2>2 DEF first
  <2>4. \A c \in C \ {m} : S[c] = Freed(c)
    BY <1>4, <2>1 DEF Freed
  <2>5. \A c \in Child \ C : S[c] = R[c]
    BY <1>6, <2>1
  <2>6. S = [c \in Child |-> S[c]]
    BY <2>1
  <2> QED
    BY <2>3, <2>4, <2>5, <2>6
<1>11. S \in [Child -> Row]
  <2>1. ASSUME NEW c \in Child PROVE S[c] \in Row
    <3>1. CASE c \in C
      BY <1>7, <1>9, <1>10, <3>1
    <3>2. CASE c \notin C
      BY <1>2, <1>10, <3>2
    <3> QED
      BY <3>1, <3>2
  <2> QED
    BY <1>10, <2>1
<1>12. key \in Key /\ R[m].amount = key.amount /\ R[m].proc = key.proc
  BY <1>2, <1>6, <1>7 DEF key, Row, RowBook
<1>13. \A c \in C : R[c].key = key
  BY <1>5, <1>6 DEF key
<1>14. \A c \in Child : R[c].awaiting /\ R[c].key = key => c \in C
  <2> SUFFICES ASSUME NEW c \in Child, R[c].awaiting, R[c].key = key PROVE c \in C
    OBVIOUS
  <2>1. R[c].provider_reference = None
    BY <1>2 DEF RowOk
  <2>2. key # None
    BY <1>12, ConstantFacts
  <2>3. R[c].proc = key.proc
    BY <1>2, <2>2 DEF RowBook
  <2>4. key.proc = p.proc
    BY <1>6, <1>7, <1>12
  <2> QED
    BY <1>3, <2>1, <2>3, <2>4
<1>15. ASSUME NEW c \in Child \ {m}
       PROVE  /\ S[c].state = R[c].state /\ (S[c].rejected <=> R[c].rejected)
              /\ S[c].key = R[c].key /\ S[c].amount = R[c].amount /\ S[c].proc = R[c].proc
              /\ S[c].awaiting <=> R[c].awaiting /\ S[c].key # key
              /\ RowBook(S[c])
  <2>1. CASE c \in C
    <3>1. S[c] = Freed(c)
      BY <1>10, <2>1
    <3>2. RowBook(R[c])
      BY <1>2
    <3> QED
      BY <1>7, <1>13, <2>1, <3>1, <3>2 DEF RowBook
  <2>2. CASE c \notin C
    BY <1>2, <1>10, <1>14, <2>2
  <2> QED
    BY <2>1, <2>2
<1>16. RowBook(first)
  BY <1>8, <1>12 DEF RowBook, Settled
<1>17. \A c \in Child : RowBook(S[c])
  BY <1>10, <1>15, <1>16
<1>18. Closes(R, S, m, key)
  <2>1. ~Settled(R[m])
    BY <1>6, <1>7 DEF Settled
  <2>2. R[m].key = key
    BY DEF key
  <2> QED
    BY <1>6, <1>8, <1>10, <1>12, <1>15, <2>1, <2>2 DEF Closes
<1>19. ASSUME Ours(R)
       PROVE  key = KeyIn(R, key.amount) /\ \A c \in Child : R[c].awaiting => R[c].key = key
  <2>1. Ledger(R)
    BY <1>2, <1>19 DEF Books
  <2>2. R[m].awaiting
    BY <1>6, <1>7
  <2> QED
    BY <1>6, <1>12, <2>1, <2>2 DEF Ledger, key
<1>20. Books(S)
  BY <1>2, <1>11, <1>17, <1>18, <1>19, CloseBooks
<1> QED
  BY <1>11, <1>20 DEF S, R, C, p

LEMMA MirrorExternalRefundBooks ==
    ASSUME IInv, IInv', BooksInv, NEW w \in Worker, MirrorExternalRefund(w)
    PROVE  BooksInv'
<1> DEFINE R == View(w)
           p == job[w].todo[1]
           C == Unresolved(R, p)
           S == Mirror(R, p)
<1>1. Handling(w)
  BY DEF MirrorExternalRefund, Handling
<1>2. R \in [Child -> Row] /\ Books(R)
  BY <1>1, ViewFacts, ViewBooks
<1>3. Source \in Child \cup {Source}
  BY ConstantFacts
<1>4. \/ \E list, flags : Take(w, Source, R, list, flags)
      \/ /\ C = {} => FreeChild # {}
         /\ \E list, flags : Take(w, Source, S, list, flags)
  BY DEF MirrorExternalRefund
<1>5. CASE \E list, flags : Take(w, Source, R, list, flags)
  BY <1>1, <1>2, <1>3, <1>5, TakeBooks
<1>6. ASSUME C = {} => FreeChild # {}, \E list, flags : Take(w, Source, S, list, flags)
      PROVE  BooksInv'
  <2>1. S \in [Child -> Row] /\ Books(S)
    <3>1. CASE C # {} /\ ~Ambiguous(C, R)
      <4>1. S = Adopt(R, C, p)
        BY <3>1 DEF Mirror
      <4> QED
        BY <1>1, <3>1, <4>1, AdoptBooks
    <3>2. CASE C = {} /\ ~Unmirrorable(p)
      <4>1. S = [R EXCEPT ![Min(FreeChild)] = Mirrored(p)]
        BY <3>2 DEF Mirror
      <4> QED
        BY <1>1, <1>6, <3>2, <4>1, MirroredBooks
    <3>3. CASE (C # {} /\ Ambiguous(C, R)) \/ (C = {} /\ Unmirrorable(p))
      <4>1. S = R
        BY <3>3 DEF Mirror
      <4> QED
        BY <1>2, <4>1
    <3> QED
      BY <3>1, <3>2, <3>3
  <2> QED
    BY <1>1, <1>3, <1>6, <2>1, TakeBooks
<1> QED
  BY <1>4, <1>5, <1>6

-----------------------------------------------------------------------------
(* The theorems.                                                           *)

LEMMA InitBooks ==
    ASSUME Init
    PROVE  BooksInv
<1>1. /\ child = [c \in Child |-> NoRow] /\ job = [w \in Worker |-> Idle]
      /\ refund = [r \in Refund |-> NoRefund] /\ answers = {} /\ sent = {}
  BY DEF Init
<1>2. DecidedInv
  BY <1>1 DEF DecidedInv, NoRefund
<1>3. \A c \in Child : /\ child[c].state = "absent" /\ ~child[c].rejected /\ ~child[c].awaiting
                       /\ child[c].key = None /\ child[c].provider_reference = None
  BY <1>1, NoRowFacts DEF NoRow
<1>4. AmountIn(child) = 0
  <2>1. DoneIn(child) = {}
    BY <1>3 DEF DoneIn
  <2> DEFINE f == [c \in Child |-> child[c].amount]
  <2>2. AmountIn(child) = SumFunctionOnSet(f, DoneIn(child))
    BY DEF AmountIn
  <2> HIDE DEF f
  <2>3. SumFunctionOnSet(f, DoneIn(child)) = SumFunctionOnSet(f, {})
    BY <2>1, Zenon
  <2> QED
    BY <2>2, <2>3, SumEmpty
<1>5. Ledger(child)
  BY <1>3, <1>4, ConstantsAssumption DEF Ledger
<1>6. Books(child)
  BY <1>3, <1>5 DEF Books, RowBook, Shared
<1>7. \A w \in Worker : SendingBooks(w) /\ HandlingBooks(w)
  BY <1>1 DEF SendingBooks, Sending, HandlingBooks, Handling, Idle
<1> QED
  BY <1>2, <1>6, <1>7 DEF BooksInv

LEMMA StutterBooks ==
    ASSUME BooksInv, UNCHANGED vars
    PROVE  BooksInv'
<1>1. UNCHANGED <<child, lock, job, refund, answers, sent>>
  BY DEF vars
<1>2. DecidedInv'
  BY <1>1 DEF BooksInv, DecidedInv, Decided
<1>3. Books(child)'
  BY <1>1 DEF BooksInv, Books, RowBook, Ours, Settled, Ledger, Shared
<1>4. ASSUME NEW w \in Worker PROVE SendingBooks(w)' /\ HandlingBooks(w)'
  <2>1. SendingBooks(w)'
    <3>1. (Ours(child)' <=> Ours(child)) /\ \A amount : KeyIn(child, amount)' = KeyIn(child, amount)
      BY <1>1 DEF Ours, Settled, KeyIn, SentIn, AmountIn, ProcIn, DoneIn, RejectedIn
    <3> QED
      BY <1>1, <3>1 DEF BooksInv, SendingBooks, Sending, Decided
  <2>2. HandlingBooks(w)'
    <3>1. View(w)' = View(w)
      BY <1>1 DEF View
    <3>2. Handling(w) /\ lock[Source] = w => Books(View(w))
      BY DEF BooksInv, HandlingBooks
    <3> QED
      BY <1>1, <3>1, <3>2
         DEF HandlingBooks, Handling, Books, RowBook, Ours, Settled, Ledger, Shared
  <2> QED
    BY <2>1, <2>2
<1> QED
  BY <1>2, <1>3, <1>4 DEF BooksInv

\* Every step keeps the books.
LEMMA NextBooks ==
    ASSUME "PENDING" \notin Outcomes, IInv, BooksInv, [Next]_vars
    PROVE  BooksInv'
<1>0. IInv'
  BY NextPreserves
<1>1. ASSUME NEW w \in Worker, RequestStep(w) PROVE BooksInv'
  <2>1. CASE \E amount \in 1 .. SourceAmount : SubmitRefund(w, amount) \/ SubmitRefused(w, amount)
    BY <1>0, <2>1, SubmitRefundBooks, SubmitRefusedBooks
  <2>2. CASE SubmitAnswered(w)
    BY <1>0, <2>2, SubmitAnsweredBooks
  <2>3. CASE SubmitLost(w)
    BY <1>0, <2>3, SubmitLostBooks
  <2>4. CASE \E e \in sent : Deliver(w, e)
    BY <1>0, <2>4, DeliverBooks
  <2>5. CASE LookUp(w)
    BY <1>0, <2>5, LookUpBooks
  <2>6. CASE ApplyRefundUpdate(w)
    BY <1>0, <2>6, ApplyRefundUpdateBooks
  <2>7. CASE MirrorExternalRefund(w)
    BY <1>0, <2>7, MirrorExternalRefundBooks
  <2>8. CASE LockBusy(w)
    BY <1>0, <2>8, AbortBooks DEF LockBusy
  <2>9. CASE Abort(w)
    BY <1>0, <2>9, AbortBooks
  <2> QED
    BY <1>1, <2>1, <2>2, <2>3, <2>4, <2>5, <2>6, <2>7, <2>8, <2>9 DEF RequestStep
<1>2. CASE PlatformStep
  <2>1. ASSUME NEW w \in Worker, PlatformReplay(w) \/ PlatformRefuse(w) PROVE BooksInv'
    BY <2>1, PlatformReplayBooks, PlatformRefuseBooks
  <2>2. ASSUME NEW w \in Worker, NEW r \in Refund, NEW status \in Outcomes,
               PlatformRefund(w, r, status)
        PROVE  BooksInv'
    BY <2>2, PlatformRefundBooks
  <2>3. ASSUME NEW c \in Child, NEW r \in Refund, NEW status \in Outcomes,
               PlatformLate(c, r, status)
        PROVE  BooksInv'
    BY <2>3, PlatformLateBooks
  <2>4. ASSUME NEW r \in Refund, NEW proc \in 1 .. SourceProcessing, NEW details \in BOOLEAN,
               DashboardRefund(r, proc, details)
        PROVE  BooksInv'
    BY <2>4, DashboardRefundBooks
  <2>5. ASSUME NEW r \in Refund, NEW status \in {"SUCCEEDED", "FAILED"}, Resolve(r, status)
        PROVE  FALSE
    BY <2>5, ResolveNever
  <2> QED
    BY <1>2, <2>1, <2>2, <2>3, <2>4, <2>5 DEF PlatformStep
<1>3. CASE UNCHANGED vars
  BY <1>3, StutterBooks
<1> QED
  BY <1>1, <1>2, <1>3 DEF Next

\* The ledger of a platform that decides at once: whatever is waited for is
\* one request made of the ledger as it is, and what completes the payment
\* returned all of it.
THEOREM BooksInvariance ==
    ASSUME "PENDING" \notin Outcomes
    PROVE  Spec => [](IInv /\ BooksInv)
<1>1. Init => IInv /\ BooksInv
  BY InitIInv, InitBooks
<1>2. IInv /\ BooksInv /\ [Next]_vars => (IInv /\ BooksInv)'
  BY NextPreserves, NextBooks
<1> QED
  BY <1>1, <1>2, PTL DEF Spec

\* Once refunds this module asked for add up to the payment, the amounts the
\* platform moved add up to all of it, whatever the rate, the number of parts
\* and what their conversions cut off, and however late an answer comes.
THEOREM FullRefundReturnsAllHolds ==
    ASSUME "PENDING" \notin Outcomes
    PROVE  Spec => []FullRefundReturnsAll
<1>1. IInv /\ BooksInv => FullRefundReturnsAll
  <2> SUFFICES ASSUME BooksInv,
                      \A c \in Child : child[c].state = "done" \/ child[c].rejected => child[c].key # None,
                      AmountOf(Refunds("done")) = SourceAmount
               PROVE  ProcOf(Refunds("done")) = SourceProcessing
    BY DEF FullRefundReturnsAll
  <2>1. Ours(child)
    BY DEF Ours, Settled
  <2>2. AmountOf(Refunds("done")) = AmountIn(child) /\ ProcOf(Refunds("done")) = ProcIn(child)
    BY DEF AmountOf, ProcOf, Refunds, AmountIn, ProcIn, DoneIn
  <2> QED
    BY <2>1, <2>2 DEF BooksInv, Books, Ledger
<1> QED
  BY <1>1, BooksInvariance, PTL

\* The attempts sent under one key wait for its answer together, and stop
\* waiting together, when the platform refunds what it is asked for.
THEOREM OneAnswerPerKeyHolds ==
    ASSUME "PENDING" \notin Outcomes, ~Deviates
    PROVE  Spec => []OneAnswerPerKey
<1>1. IInv /\ BooksInv => OneAnswerPerKey
  <2> SUFFICES ASSUME IInv, BooksInv, NEW c \in Child, NEW d \in Child,
                      child[c].key # None, child[c].key = child[d].key
               PROVE  child[c].awaiting = child[d].awaiting
    BY DEF OneAnswerPerKey
  <2>1. child[c].awaiting <=> child[d].awaiting
    BY DEF BooksInv, Books, Shared
  <2>2. child[c].awaiting \in BOOLEAN /\ child[d].awaiting \in BOOLEAN
    BY DEF IInv, TypeOK, Row
  <2> QED
    BY <2>1, <2>2
<1> QED
  BY <1>1, BooksInvariance, PTL

-----------------------------------------------------------------------------
(* One completed child per refund, when requests are served one at a time. *)

OneWorker == \A v, w \in Worker : v = w

\* Children are created in the order of their ids, and of those that name a
\* refund only the latest, the one a report finds, is completed.
InOrder(R) == \A c, d \in Child : c < d /\ R[d].state # "absent" => R[c].state # "absent"

LatestDone(R) ==
    \A c, d \in Child :
        R[c].state = "done" /\ R[d].provider_reference = R[c].provider_reference => d <= c

OneEach(R) == InOrder(R) /\ LatestDone(R)

\* A refund that a completed child names was answered under a key of before
\* that child's completion.
AnsweredBefore(a) ==
    /\ a[1].recorded <= Recorded
    /\ \A c \in Child : child[c].state = "done" /\ child[c].provider_reference = a[2].id =>
          a[1].recorded < Recorded

\* A merchant's request is made of the ledger as it is, for the next child.
SendingOne(w) ==
    Sending(w) =>
        /\ job[w].key.recorded = Recorded
        /\ \A c \in Child : c < job[w].child => child[c].state # "absent"
        /\ job[w].step = "answered" => <<job[w].key, job[w].answer>> \in answers

\* The child a webhook was told of is the one it would still find.
HandlingOne(w) ==
    Handling(w) =>
        /\ OneEach(View(w))
        /\ job[w].step = "found" => job[w].target = FindChild(View(w), job[w].todo[1].id)

OneInv ==
    /\ OneEach(child)
    /\ \A a \in answers : AnsweredBefore(a)
    /\ \A w \in Worker : SendingOne(w) /\ HandlingOne(w)

\* A slot is a number.
LEMMA ChildNumbers == \A c \in Child : c \in Nat
  BY DEF Child

\* The child found for a refund is the latest of those that name it.
LEMMA FindLatest ==
    ASSUME NEW rows, NEW r
    PROVE  /\ FindChild(rows, r) = None => \A c \in Child : rows[c].provider_reference # r
           /\ FindChild(rows, r) # None =>
                 \A c \in Child : rows[c].provider_reference = r => c <= FindChild(rows, r)
<1> DEFINE named == {c \in Child : rows[c].provider_reference = r}
<1>1. CASE named = {}
  BY <1>1 DEF FindChild
<1>2. CASE named # {}
  <2>1. MaxChild \in Nat /\ named \in SUBSET (1 .. MaxChild) /\ None \notin Child
    BY ConstantFacts DEF Child
  <2>2. Max(named) \in named /\ \A c \in named : c <= Max(named)
    BY <1>2, <2>1, MaxFacts
  <2>3. FindChild(rows, r) = Max(named)
    BY <1>2 DEF FindChild
  <2> QED
    BY <2>1, <2>2, <2>3
<1> QED
  BY <1>1, <1>2

\* With one request, the slots before the first free one are all taken.
LEMMA FreeIsFirst ==
    ASSUME OneWorker, IInv, NEW w \in Worker, FreeChild # {}
    PROVE  /\ job[w] = Idle => \A c \in Child : c < Min(FreeChild) => child[c].state # "absent"
           /\ Handling(w) => \A c \in Child : c < Min(FreeChild) => View(w)[c].state # "absent"
<1>1. FreeChild \in SUBSET Nat
  BY DEF FreeChild, Child
<1>2. Min(FreeChild) \in FreeChild /\ \A c \in FreeChild : Min(FreeChild) <= c
  BY <1>1, MinFacts
<1>3. Min(FreeChild) \in Nat
  BY <1>1, <1>2
<1> DEFINE m == Min(FreeChild)
<1> HIDE DEF m
<1>4. ASSUME NEW c \in Child, c < m PROVE child[c].state # "absent" \/ Reserved(c)
  <2>1. c \in Nat /\ c \notin FreeChild
    BY <1>2, <1>3, <1>4, ChildNumbers DEF m
  <2> QED
    BY <2>1 DEF FreeChild
<1>5. /\ child \in [Child -> Row] /\ job \in [Worker -> Job] /\ HandlingInv(w)
  BY DEF IInv, TypeOK
<1>6. ASSUME job[w] = Idle, NEW c \in Child, c < m PROVE child[c].state # "absent"
  <2>1. ~Reserved(c)
    BY <1>6 DEF Reserved, OneWorker, Idle
  <2> QED
    BY <1>4, <1>6, <2>1
<1>7. ASSUME Handling(w), NEW c \in Child, c < m PROVE View(w)[c].state # "absent"
  <2>1. /\ job[w].rows[c] = None => View(w)[c] = child[c]
        /\ job[w].rows[c] # None => View(w)[c] = job[w].rows[c]
    BY <1>5, <1>7, ViewTypes
  <2>2. job[w].rows[c] # None => job[w].rows[c].state # "absent"
    BY <1>5, <1>7 DEF HandlingInv, OverlayInv, Later
  <2>3. Reserved(c) => job[w].rows[c] # None
    BY <1>7 DEF Reserved, OneWorker, Handling
  <2> QED
    BY <1>4, <1>7, <2>1, <2>2, <2>3
<1> QED
  BY <1>6, <1>7 DEF m

\* Answers stay older than the completed children that name their refunds.
LEMMA AnswersStayBefore ==
    ASSUME IInv, child' \in [Child -> Row], Onward(child, child'),
           NEW a \in answers, AnsweredBefore(a)
    PROVE  AnsweredBefore(a)'
<1>1. child \in [Child -> Row] /\ a[1] \in Key
  BY DEF IInv, TypeOK
<1>2. a[1].recorded \in Nat
  BY <1>1 DEF Key
<1>3. /\ Recorded \in Nat /\ Recorded' \in Nat /\ Recorded <= Recorded'
      /\ \A c \in Child : child'[c].state = "done" /\ child[c].state # "done" =>
            Recorded < Recorded'
  BY <1>1, CountsGrow
<1>4. ASSUME NEW c \in Child, child'[c].state = "done", child'[c].provider_reference = a[2].id
      PROVE  a[1].recorded < Recorded'
  <2>1. CASE child[c].state # "done"
    BY <1>2, <1>3, <1>4, <2>1 DEF AnsweredBefore
  <2>2. CASE child[c].state = "done"
    <3>1. RowOk(child[c])
      BY DEF IInv, StoreInv
    <3>2. child'[c].provider_reference = child[c].provider_reference
      BY <2>2, <3>1 DEF RowOk, Onward, Later
    <3> QED
      BY <1>2, <1>3, <1>4, <2>2, <3>2 DEF AnsweredBefore
  <2> QED
    BY <2>1, <2>2
<1> QED
  BY <1>2, <1>3, <1>4 DEF AnsweredBefore

\* No child names a refund before it is made.
LEMMA AnsweredNow ==
    ASSUME IInv, NEW key, Counted(key), NEW answer,
           answer.id # None => answer.id \in Refund /\ refund[answer.id].status = "none"
    PROVE  AnsweredBefore(<<key, answer>>)
<1>1. \A c \in Child : RowOk(child[c])
  BY DEF IInv, StoreInv
<1>2. \A c \in Child : child[c].state = "done" => child[c].provider_reference # answer.id
  BY <1>1 DEF RowOk
<1> QED
  BY <1>2 DEF AnsweredBefore, Counted

-----------------------------------------------------------------------------
(* The platform's steps.                                                   *)

\* What the platform does leaves the children as they are, and gives a request
\* an answer it keeps.
LEMMA PlatformOne ==
    ASSUME IInv, OneInv, UNCHANGED child, answers \subseteq answers',
           \A a \in answers' : a \in answers \/ AnsweredBefore(a),
           \A w \in Worker : job'[w] # job[w] =>
               /\ job[w].step = "posting" /\ job'[w].step = "answered"
               /\ job'[w].child = job[w].child /\ job'[w].key = job[w].key
               /\ <<job[w].key, job'[w].answer>> \in answers'
    PROVE  OneInv'
<1>1. Recorded' = Recorded
  BY DEF Recorded, Refunds
<1>2. OneEach(child)'
  BY DEF OneInv, OneEach, InOrder, LatestDone
<1>3. \A a \in answers' : AnsweredBefore(a)'
  BY <1>1 DEF OneInv, AnsweredBefore
<1>4. ASSUME NEW w \in Worker PROVE SendingOne(w)' /\ HandlingOne(w)'
  <2>1. CASE job'[w] = job[w]
    <3>1. View(w)' = View(w)
      BY <2>1 DEF View
    <3>2. SendingOne(w)'
      BY <1>1, <2>1 DEF OneInv, SendingOne, Sending
    <3>3. HandlingOne(w)'
      BY <2>1, <3>1 DEF OneInv, HandlingOne, Handling, OneEach, InOrder, LatestDone, FindChild
    <3> QED
      BY <3>2, <3>3
  <2>2. CASE job'[w] # job[w]
    <3>1. ~Handling(w)'
      BY <2>2 DEF Handling
    <3>2. SendingOne(w)'
      BY <1>1, <2>2 DEF OneInv, SendingOne, Sending
    <3> QED
      BY <3>1, <3>2 DEF HandlingOne
  <2> QED
    BY <2>1, <2>2
<1> QED
  BY <1>2, <1>3, <1>4 DEF OneInv

\* An answer that no completed child can be about yet.
LEMMA AnswerOne ==
    ASSUME IInv, OneInv, NEW w \in Worker, job[w].step = "posting", NEW answer \in Answer,
           answer.id # None => refund[answer.id].status = "none", PlatformAnswer(w, answer)
    PROVE  OneInv'
<1>1. /\ job' = [job EXCEPT ![w] = Answered(w, answer)]
      /\ answers' = answers \cup {<<job[w].key, answer>>}
      /\ UNCHANGED child
  BY DEF PlatformAnswer, Answered
<1>2. job \in [Worker -> Job] /\ Counted(job[w].key)
  BY DEF IInv, TypeOK, KeyInv, Sending
<1>3. AnsweredBefore(<<job[w].key, answer>>)
  BY <1>2, AnsweredNow DEF Answer
<1>4. job'[w] = Answered(w, answer) /\ \A v \in Worker \ {w} : job'[v] = job[v]
  BY <1>1, <1>2
<1> QED
  BY <1>1, <1>3, <1>4, PlatformOne DEF Answered

\* A step of the platform writes no child.
LEMMA PlatformStepOne ==
    ASSUME IInv, OneInv, PlatformStep
    PROVE  OneInv'
<1>1. ASSUME NEW w \in Worker, PlatformReplay(w) PROVE OneInv'
  <2>1. PICK a \in answers :
            /\ a[1] = job[w].key
            /\ job' = [job EXCEPT ![w] = Answered(w, a[2])]
    BY <1>1 DEF PlatformReplay, Answered
  <2>2. job[w].step = "posting" /\ UNCHANGED <<child, answers>>
    BY <1>1 DEF PlatformReplay, platform
  <2>3. job \in [Worker -> Job] /\ a = <<a[1], a[2]>>
    BY DEF IInv, TypeOK
  <2>4. job'[w] = Answered(w, a[2]) /\ \A v \in Worker \ {w} : job'[v] = job[v]
    BY <2>1, <2>3
  <2> QED
    BY <2>1, <2>2, <2>3, <2>4, PlatformOne DEF Answered
<1>2. ASSUME NEW w \in Worker, PlatformRefuse(w) PROVE OneInv'
  <2>1. Refusal \in Answer /\ Refusal.id = None
    BY DEF Refusal, Answer
  <2> QED
    BY <1>2, <2>1, AnswerOne DEF PlatformRefuse
<1>3. ASSUME NEW w \in Worker, NEW r \in Refund, NEW status \in Outcomes,
             PlatformRefund(w, r, status)
      PROVE  OneInv'
  <2>1. PICK proc \in 1 .. Balance :
            /\ Create(r, proc, status, TRUE)
            /\ PlatformAnswer(w, [id |-> r, status |-> status, proc |-> proc])
    BY <1>3 DEF PlatformRefund
  <2>2. status \in {"PENDING", "SUCCEEDED", "FAILED"} /\ proc \in Nat
    BY ConstantsAssumption
  <2>3. [id |-> r, status |-> status, proc |-> proc] \in Answer
    BY <2>2 DEF Answer
  <2>4. refund[r].status = "none" /\ job[w].step = "posting"
    BY <1>3, <2>1 DEF Create, PlatformRefund
  <2> QED
    BY <2>1, <2>3, <2>4, AnswerOne
<1>4. ASSUME NEW c \in Child, NEW r \in Refund, NEW status \in Outcomes,
             PlatformLate(c, r, status)
      PROVE  OneInv'
  <2> DEFINE answer == [id |-> r, status |-> status, proc |-> child[c].key.proc]
  <2>1. /\ child[c].key # None /\ refund[r].status = "none"
        /\ answers' = answers \cup {<<child[c].key, answer>>}
        /\ UNCHANGED <<child, job>>
    BY <1>4 DEF PlatformLate, Create, store
  <2>2. Counted(child[c].key)
    BY <2>1 DEF IInv, KeyInv
  <2>3. AnsweredBefore(<<child[c].key, answer>>)
    BY <2>1, <2>2, AnsweredNow
  <2> QED
    BY <2>1, <2>3, PlatformOne
<1>5. ASSUME UNCHANGED <<child, job, answers>> PROVE OneInv'
  BY <1>5, PlatformOne
<1>6. ASSUME NEW r \in Refund, NEW proc, NEW details, DashboardRefund(r, proc, details)
      PROVE  OneInv'
  BY <1>5, <1>6 DEF DashboardRefund, store
<1>7. ASSUME NEW r \in Refund, NEW status, Resolve(r, status) PROVE OneInv'
  BY <1>5, <1>7 DEF Resolve, store
<1> QED
  BY <1>1, <1>2, <1>3, <1>4, <1>6, <1>7 DEF PlatformStep

-----------------------------------------------------------------------------
(* The request's steps.                                                    *)

\* Each child of an order is later than the last one completed.
LEMMA OneEachIsOne ==
    ASSUME OneEach(child)
    PROVE  OneDonePerRefund
<1> SUFFICES ASSUME NEW c \in Child, NEW d \in Child,
                    child[c].state = "done", child[d].state = "done",
                    child[c].provider_reference = child[d].provider_reference
             PROVE  c = d
  BY DEF OneDonePerRefund
<1>1. c <= d /\ d <= c
  BY DEF OneEach, LatestDone
<1> QED
  BY <1>1, ChildNumbers

\* The request's step, all told.
LEMMA StepOne ==
    ASSUME OneWorker, IInv, OneInv, NEW w \in Worker, UNCHANGED platform,
           NEW rows \in [Child -> Row], child' = rows, Onward(child, rows), OneEach(rows),
           SendingOne(w)', HandlingOne(w)'
    PROVE  OneInv'
<1>1. \A a \in answers' : AnsweredBefore(a)'
  BY AnswersStayBefore DEF OneInv, platform
<1>2. OneEach(child)'
  BY DEF OneEach, InOrder, LatestDone
<1>3. \A v \in Worker : SendingOne(v)' /\ HandlingOne(v)'
  BY DEF OneWorker
<1> QED
  BY <1>1, <1>2, <1>3 DEF OneInv

\* One that ends, or leaves, the request with nothing to do.
LEMMA IdleOne ==
    ASSUME OneWorker, IInv, OneInv, NEW w \in Worker, UNCHANGED platform, job'[w] = Idle,
           NEW rows \in [Child -> Row], child' = rows, Onward(child, rows), OneEach(rows)
    PROVE  OneInv'
<1>1. SendingOne(w)' /\ HandlingOne(w)'
  BY DEF SendingOne, HandlingOne, Sending, Handling, Idle
<1> QED
  BY <1>1, StepOne

LEMMA AbortOne ==
    ASSUME OneWorker, IInv, OneInv, NEW w \in Worker, Abort(w)
    PROVE  OneInv'
<1>1. /\ child \in [Child -> Row] /\ child' = child /\ job' = [job EXCEPT ![w] = Idle]
      /\ job \in [Worker -> Job] /\ UNCHANGED platform
  BY DEF Abort, IInv, TypeOK
<1>2. Onward(child, child) /\ OneEach(child) /\ job'[w] = Idle
  BY <1>1 DEF Onward, OneInv
<1> QED
  BY <1>1, <1>2, IdleOne

LEMMA SubmitRefundOne ==
    ASSUME OneWorker, IInv, OneInv, NEW w \in Worker, NEW amount \in 1 .. SourceAmount,
           SubmitRefund(w, amount)
    PROVE  OneInv'
<1> DEFINE m == Min(FreeChild)
           key == RefundKey(amount)
           j == [step |-> "posting", child |-> m, amount |-> amount, key |-> key]
<1>1. /\ job[w] = Idle /\ FreeChild # {}
      /\ job' = [job EXCEPT ![w] = j]
      /\ UNCHANGED <<child, platform>>
  BY DEF SubmitRefund
<1>2. child \in [Child -> Row] /\ job \in [Worker -> Job]
  BY DEF IInv, TypeOK
<1>3. \A c \in Child : c < m => child[c].state # "absent"
  BY <1>1, FreeIsFirst
<1>4. key.recorded = Recorded
  BY DEF RefundKey
<1> HIDE DEF m, key
<1>5. job'[w] = j
  BY <1>1, <1>2
<1>6. Recorded' = Recorded
  BY <1>1 DEF Recorded, Refunds
<1>7. SendingOne(w)'
  BY <1>1, <1>3, <1>4, <1>5, <1>6 DEF SendingOne
<1>8. HandlingOne(w)'
  BY <1>5 DEF HandlingOne, Handling
<1>9. Onward(child, child) /\ OneEach(child)
  BY DEF Onward, OneInv
<1> QED
  BY <1>1, <1>2, <1>7, <1>8, <1>9, StepOne

\* A new child in the first free slot, and the others no further than before.
LEMMA InOrderStays ==
    ASSUME NEW rows, NEW new, InOrder(rows), NEW m \in Child,
           \A c \in Child : c < m => rows[c].state # "absent",
           new[m].state # "absent",
           \A c \in Child \ {m} : new[c].state = "absent" <=> rows[c].state = "absent"
    PROVE  InOrder(new)
<1> SUFFICES ASSUME NEW c \in Child, NEW d \in Child, c < d, new[d].state # "absent"
             PROVE  new[c].state # "absent"
  BY DEF InOrder
<1>1. CASE d = m
  BY <1>1, ChildNumbers
<1>2. CASE d # m
  BY <1>2 DEF InOrder
<1> QED
  BY <1>1, <1>2

LEMMA SubmitRefusedOne ==
    ASSUME OneWorker, IInv, IInv', OneInv, NEW w \in Worker, NEW amount \in 1 .. SourceAmount,
           SubmitRefused(w, amount)
    PROVE  OneInv'
<1> DEFINE m == Min(FreeChild)
           row == [NoRow EXCEPT !.state = SetError("draft"), !.amount = amount]
<1>1. /\ job[w] = Idle /\ FreeChild # {} /\ child' = [child EXCEPT ![m] = row]
      /\ UNCHANGED <<job, platform>>
  BY DEF SubmitRefused
<1>2. child \in [Child -> Row] /\ child' \in [Child -> Row] /\ \A c \in Child : RowOk(child[c])
  BY DEF IInv, TypeOK, StoreInv
<1>3. m \in Child /\ child[m].state = "absent" /\ \A c \in Child : c < m => child[c].state # "absent"
  BY <1>1, FreeFacts, FreeIsFirst
<1>4. row.state = "error" /\ row.provider_reference = None
  BY DEF NoRow, SetError
<1> HIDE DEF m, row
<1>5. child'[m] = row /\ \A c \in Child \ {m} : child'[c] = child[c]
  BY <1>1, <1>2, <1>3
<1>6. InOrder(child')
  BY <1>3, <1>4, <1>5, InOrderStays DEF OneInv, OneEach
<1>7. LatestDone(child')
  BY <1>2, <1>4, <1>5 DEF OneInv, OneEach, LatestDone, RowOk
<1>8. Onward(child, child')
  BY <1>2, <1>3, <1>4, <1>5 DEF Onward, Later, RowOk
<1> QED
  BY <1>1, <1>2, <1>6, <1>7, <1>8, IdleOne DEF OneEach

LEMMA DeliverOne ==
    ASSUME OneWorker, IInv, OneInv, NEW w \in Worker, NEW e \in sent, Deliver(w, e)
    PROVE  OneInv'
<1> DEFINE target == FindChild(child, e.entries[1].id)
           rows == [c \in Child |-> None]
           j == [step |-> "found", event |-> e, todo |-> e.entries, target |-> target,
                 rows |-> rows, seen |-> None, flags |-> {}]
<1>1. job' = [job EXCEPT ![w] = j] /\ UNCHANGED <<child, platform>>
  BY DEF Deliver
<1>2. child \in [Child -> Row] /\ job \in [Worker -> Job]
  BY DEF IInv, TypeOK
<1> HIDE DEF target
<1>3. job'[w] = j
  BY <1>1, <1>2
<1>4. View(w)' = child
  BY <1>1, <1>2, <1>3 DEF View
<1>5. /\ job'[w].step = "found" /\ job'[w].target = target /\ job'[w].todo = e.entries
  BY <1>3
<1> HIDE DEF j
<1>6. SendingOne(w)'
  BY <1>5 DEF SendingOne, Sending
<1>7. HandlingOne(w)'
  BY <1>4, <1>5 DEF HandlingOne, OneInv, OneEach, InOrder, LatestDone, FindChild, target
<1>8. Onward(child, child) /\ OneEach(child)
  BY DEF Onward, OneInv
<1> QED
  BY <1>1, <1>2, <1>6, <1>7, <1>8, StepOne

LEMMA LookUpOne ==
    ASSUME OneWorker, IInv, OneInv, NEW w \in Worker, LookUp(w)
    PROVE  OneInv'
<1> DEFINE target == FindChild(View(w), job[w].todo[1].id)
           j == [job[w] EXCEPT !.step = "found", !.target = target]
<1>1. /\ job' = [job EXCEPT ![w] = j]
      /\ job[w].step = "looking"
      /\ UNCHANGED <<child, platform>>
  BY DEF LookUp, IInv, TypeOK
<1>2. child \in [Child -> Row] /\ job \in [Worker -> Job]
  BY DEF IInv, TypeOK
<1>3. /\ Handling(w)
      /\ job[w] \in [step : {"looking", "found"}, event : Event, todo : Seq(Report),
                     target : Child \cup {None}, rows : [Child -> Row \cup {None}],
                     seen : Seq(Seen) \cup {None}, flags : SUBSET Refund]
  BY <1>1, <1>2, JobTypes DEF Handling
<1> HIDE DEF target
<1>4. j.step = "found" /\ j.target = target /\ j.todo = job[w].todo /\ j.rows = job[w].rows
  BY <1>3
<1> HIDE DEF j
<1>5. job'[w] = j
  BY <1>1, <1>2
<1>6. View(w)' = View(w)
  BY <1>1, <1>4, <1>5 DEF View
<1>7. SendingOne(w)'
  BY <1>4, <1>5 DEF SendingOne, Sending
<1>8. HandlingOne(w)'
  BY <1>3, <1>4, <1>5, <1>6
     DEF OneInv, HandlingOne, OneEach, InOrder, LatestDone, FindChild, target
<1>9. Onward(child, child) /\ OneEach(child)
  BY DEF Onward, OneInv
<1> QED
  BY <1>1, <1>2, <1>7, <1>8, <1>9, StepOne

LEMMA SubmitLostOne ==
    ASSUME OneWorker, IInv, IInv', OneInv, NEW w \in Worker, SubmitLost(w)
    PROVE  OneInv'
<1> DEFINE m == job[w].child
           row == [SentRow(w) EXCEPT !.state = SetError(@)]
<1>1. /\ Sending(w) /\ child' = [child EXCEPT ![m] = row]
      /\ job' = [job EXCEPT ![w] = Idle] /\ UNCHANGED platform
  BY DEF SubmitLost, Sending
<1>2. /\ child \in [Child -> Row] /\ child' \in [Child -> Row] /\ job \in [Worker -> Job]
      /\ \A c \in Child : RowOk(child[c])
  BY DEF IInv, TypeOK, StoreInv
<1>3. /\ m \in Child /\ child[m].state = "absent"
      /\ SentRow(w) \in Row /\ SentRow(w).provider_reference = None /\ SentRow(w).state = "draft"
  BY <1>1, SentFacts
<1>4. \A c \in Child : c < m => child[c].state # "absent"
  BY <1>1 DEF OneInv, SendingOne
<1>5. row.state = "error" /\ row.provider_reference = None
  BY <1>3 DEF Row, SetError
<1> HIDE DEF m, row
<1>6. /\ child'[m] = row /\ \A c \in Child \ {m} : child'[c] = child[c]
      /\ job'[w] = Idle
  BY <1>1, <1>2, <1>3
<1>7. InOrder(child')
  BY <1>3, <1>4, <1>5, <1>6, InOrderStays DEF OneInv, OneEach
<1>8. LatestDone(child')
  BY <1>2, <1>5, <1>6 DEF OneInv, OneEach, LatestDone, RowOk
<1>9. Onward(child, child')
  BY <1>2, <1>3, <1>5, <1>6 DEF Onward, Later, RowOk
<1> QED
  BY <1>1, <1>2, <1>6, <1>7, <1>8, <1>9, IdleOne DEF OneEach

\* The state and the reference an answer gives the child.
LEMMA AnswerNames ==
    ASSUME NEW r \in Row, r.state = "draft", r.provider_reference = None, NEW a \in Answer
    PROVE  /\ AnswerRow(r, a).state # "absent"
           /\ AnswerRow(r, a).provider_reference \in {None, a.id}
           /\ AnswerRow(r, a).state = "done" => AnswerRow(r, a).provider_reference = a.id
<1> DEFINE known == [r EXCEPT !.provider_reference = a.id]
<1>1. a.id \in Refund \cup {None} /\ a.status \in {"REFUSED", "PENDING", "SUCCEEDED", "FAILED"}
  BY DEF Answer
<1>2. known \in Row /\ known.state = "draft" /\ known.provider_reference = a.id
  BY <1>1 DEF Row
<1> HIDE DEF known
<1>3. /\ a.status = "REFUSED" => AnswerRow(r, a) = [r EXCEPT !.state = "error", !.rejected = TRUE]
      /\ a.status = "SUCCEEDED" =>
             AnswerRow(r, a) = [known EXCEPT !.state = IF a.proc # r.proc THEN "error" ELSE "done"]
      /\ a.status = "PENDING" => AnswerRow(r, a) = [known EXCEPT !.state = "pending"]
      /\ a.status = "FAILED" => AnswerRow(r, a) = [known EXCEPT !.state = "error", !.rejected = TRUE]
  BY <1>2 DEF AnswerRow, known, SetError, SetDone, SetPending
<1>4. CASE a.status = "REFUSED"
  BY <1>3, <1>4 DEF Row
<1>5. CASE a.status = "SUCCEEDED"
  BY <1>2, <1>3, <1>5 DEF Row
<1>6. CASE a.status = "PENDING"
  BY <1>2, <1>3, <1>6 DEF Row
<1>7. CASE a.status = "FAILED"
  BY <1>2, <1>3, <1>7 DEF Row
<1> QED
  BY <1>1, <1>4, <1>5, <1>6, <1>7

\* No completed child names the refund of the answer a request has in hand:
\* its key counts them all.
LEMMA AnswerUnnamed ==
    ASSUME IInv, OneInv, NEW w \in Worker, job[w].step = "answered",
           NEW c \in Child, child[c].state = "done"
    PROVE  child[c].provider_reference # job[w].answer.id
<1>1. Sending(w) /\ job \in [Worker -> Job] /\ child \in [Child -> Row]
  BY DEF Sending, IInv, TypeOK
<1>2. job[w].key.recorded = Recorded /\ <<job[w].key, job[w].answer>> \in answers
  BY <1>1 DEF OneInv, SendingOne
<1>3. AnsweredBefore(<<job[w].key, job[w].answer>>)
  BY <1>2 DEF OneInv
<1>4. Recorded \in Nat
  BY ChildFinite DEF Recorded, Refunds
<1> QED
  BY <1>2, <1>3, <1>4 DEF AnsweredBefore

LEMMA SubmitAnsweredOne ==
    ASSUME OneWorker, IInv, IInv', OneInv, NEW w \in Worker, SubmitAnswered(w)
    PROVE  OneInv'
<1> DEFINE m == job[w].child
           key == job[w].key
           a == job[w].answer
           answered == AnswerRow(SentRow(w), a)
           rows == [child EXCEPT ![m] = answered]
           new == SettleAwaiting(rows, m)
<1>1. /\ Sending(w) /\ job[w].step = "answered" /\ child' = new
      /\ job' = [job EXCEPT ![w] = Idle] /\ UNCHANGED platform
  BY DEF SubmitAnswered, Sending
<1>2. /\ child \in [Child -> Row] /\ child' \in [Child -> Row] /\ job \in [Worker -> Job]
      /\ \A c \in Child : RowOk(child[c])
  BY DEF IInv, TypeOK, StoreInv
<1>3. /\ m \in Child /\ child[m].state = "absent"
      /\ SentRow(w) \in Row /\ SentRow(w).provider_reference = None /\ SentRow(w).state = "draft"
      /\ SentRow(w).key = key /\ key # None
      /\ ~SentRow(w).rejected /\ SentRow(w).processed = << >>
  BY <1>1, SentFacts
<1>4. a \in Answer /\ TrueAnswer(a)
  BY <1>1, <1>2, JobTypes DEF IInv, SendingInv
<1>5. /\ answered \in Row /\ answered.state # "absent"
      /\ answered.provider_reference \in {None, a.id}
      /\ answered.state = "done" => answered.provider_reference = a.id
  BY <1>3, <1>4, AnswerNames, AnswerFacts
<1>6. \A c \in Child : c < m => child[c].state # "absent"
  BY <1>1 DEF OneInv, SendingOne
<1>7. \A c \in Child : child[c].state = "done" => child[c].provider_reference # a.id
  BY <1>1, AnswerUnnamed
<1> HIDE DEF m, key, a, answered
<1>8. rows[m] = answered /\ \A c \in Child \ {m} : rows[c] = child[c]
  BY <1>2, <1>3
<1>9. rows \in [Child -> Row]
  BY <1>2, <1>3, <1>5
<1> HIDE DEF rows
<1>10. ASSUME NEW c \in Child
       PROVE  /\ new[c].state = rows[c].state
              /\ new[c].provider_reference = rows[c].provider_reference
              /\ new[c].key = rows[c].key /\ new[c].amount = rows[c].amount
              /\ new[c].proc = rows[c].proc /\ new[c].rejected = rows[c].rejected
  <2>1. new[c] = IF c = m \/ rows[c].key = rows[m].key
                 THEN [rows[c] EXCEPT !.awaiting = FALSE] ELSE rows[c]
    BY DEF SettleAwaiting
  <2>2. rows[c] \in Row
    BY <1>9
  <2> HIDE DEF new
  <2>3. CASE new[c] = rows[c]
    BY <2>3
  <2>4. CASE new[c] = [rows[c] EXCEPT !.awaiting = FALSE]
    BY <2>2, <2>4 DEF Row
  <2> QED
    BY <2>1, <2>3, <2>4
<1> HIDE DEF new
<1>11. InOrder(new)
  BY <1>3, <1>5, <1>6, <1>8, <1>10, InOrderStays DEF OneInv, OneEach
<1>12. \A d \in Child : child[d].state # "absent" => d <= m
  <2> SUFFICES ASSUME NEW d \in Child, child[d].state # "absent", ~(d <= m) PROVE FALSE
    OBVIOUS
  <2>1. m < d
    BY <1>3, ChildNumbers
  <2> QED
    BY <1>3, <2>1 DEF OneInv, OneEach, InOrder
<1>13. LatestDone(new)
  <2> SUFFICES ASSUME NEW c \in Child, NEW d \in Child, new[c].state = "done",
                      new[d].provider_reference = new[c].provider_reference
               PROVE  d <= c
    BY DEF LatestDone
  <2>1. CASE c = m
    <3>1. new[m].provider_reference = a.id
      BY <1>3, <1>5, <1>8, <1>10, <2>1
    <3>2. a.id # None
      <4>1. \A x \in Child : RowOk(child[x])'
        BY DEF IInv, StoreInv
      <4> QED
        BY <1>1, <1>3, <2>1, <3>1, <4>1 DEF RowOk
    <3>3. CASE d = m
      BY <2>1, <3>3, ChildNumbers
    <3>4. CASE d # m
      <4>1. child[d].provider_reference # None
        BY <1>8, <1>10, <2>1, <3>1, <3>2, <3>4
      <4>2. child[d].state # "absent"
        BY <1>2, <4>1 DEF RowOk
      <4> QED
        BY <1>12, <2>1, <4>2
    <3> QED
      BY <3>3, <3>4
  <2>2. CASE c # m
    <3>1. child[c].state = "done" /\ new[c].provider_reference = child[c].provider_reference
      BY <1>8, <1>10, <2>2
    <3>2. child[c].provider_reference # None /\ child[c].provider_reference # a.id
      BY <1>2, <1>7, <3>1 DEF RowOk
    <3>3. d # m
      BY <1>5, <1>8, <1>10, <3>1, <3>2
    <3> QED
      BY <1>8, <1>10, <3>1, <3>3 DEF OneInv, OneEach, LatestDone
  <2> QED
    BY <2>1, <2>2
<1>14. Onward(child, new)
  <2> SUFFICES ASSUME NEW c \in Child PROVE Later(child[c], new[c]) \/ new[c] = child[c]
    BY DEF Onward
  <2>1. CASE c = m
    BY <1>2, <1>3, <1>5, <1>8, <1>10, <2>1 DEF Later, RowOk
  <2>2. CASE c # m /\ child[c].state # "absent"
    BY <1>8, <1>10, <2>2 DEF Later
  <2>3. CASE c # m /\ child[c].state = "absent"
    <3>1. child[c] \in Row /\ ~child[c].awaiting /\ new[c] \in Row
      BY <1>1, <1>2, <2>3 DEF RowOk
    <3>2. new[c] = child[c] \/ new[c] = [child[c] EXCEPT !.awaiting = FALSE]
      BY <1>8, <2>3 DEF new, SettleAwaiting
    <3>3. child[c].awaiting = FALSE
      BY <3>1 DEF Row
    <3>4. [child[c] EXCEPT !.awaiting = FALSE] = child[c]
      BY <3>1, <3>3 DEF Row
    <3> QED
      BY <3>2, <3>4
  <2> QED
    BY <2>1, <2>2, <2>3
<1>15. job'[w] = Idle
  BY <1>1, <1>2
<1> QED
  BY <1>1, <1>2, <1>11, <1>13, <1>14, <1>15, IdleOne DEF OneEach

-----------------------------------------------------------------------------
(* The webhook's steps.                                                    *)

\* A webhook takes an entry: the rows it leaves are in order.
LEMMA TakeOne ==
    ASSUME OneWorker, IInv, OneInv, NEW w \in Worker, Handling(w), NEW row,
           NEW rows \in [Child -> Row], NEW list, NEW flags,
           Take(w, row, rows, list, flags), Onward(View(w), rows), OneEach(rows)
    PROVE  OneInv'
<1>1. child \in [Child -> Row] /\ job \in [Worker -> Job] /\ UNCHANGED platform
  BY DEF IInv, TypeOK, Take
<1>2. CASE Len(job[w].todo) = 1
  <2>1. child' = rows /\ job' = [job EXCEPT ![w] = Idle]
    BY <1>2 DEF Take
  <2>2. Onward(child, rows)
    <3>1. /\ View(w) \in [Child -> Row]
          /\ \A c \in Child : View(w)[c] = child[c] \/ Later(child[c], View(w)[c])
      BY ViewFacts
    <3> DEFINE V == View(w)
    <3> HIDE DEF V
    <3>2. ASSUME NEW c \in Child PROVE rows[c] = child[c] \/ Later(child[c], rows[c])
      <4>1. child[c] \in Row /\ V[c] \in Row /\ rows[c] \in Row
        BY <1>1, <3>1 DEF V
      <4>2. V[c] = child[c] \/ Later(child[c], V[c])
        BY <3>1 DEF V
      <4>3. rows[c] = V[c] \/ Later(V[c], rows[c])
        BY DEF Onward, V
      <4> QED
        BY <4>1, <4>2, <4>3, LaterTransitive
    <3> QED
      BY <3>2 DEF Onward
  <2>3. job'[w] = Idle
    BY <1>1, <2>1
  <2> QED
    BY <1>1, <2>1, <2>2, <2>3, IdleOne
<1>3. CASE Len(job[w].todo) # 1
  <2> DEFINE kept == [c \in Child |-> IF rows[c] # child[c] THEN rows[c] ELSE None]
  <2>1. /\ UNCHANGED child
        /\ job' = [job EXCEPT ![w] = [job[w] EXCEPT
                      !.step = "looking", !.todo = Tail(job[w].todo), !.rows = kept,
                      !.seen = IF row = Source THEN list ELSE job[w].seen,
                      !.flags = job[w].flags \cup flags]]
    BY <1>1, <1>3 DEF Take
  <2>2. job[w] \in [step : {"looking", "found"}, event : Event, todo : Seq(Report),
                    target : Child \cup {None}, rows : [Child -> Row \cup {None}],
                    seen : Seq(Seen) \cup {None}, flags : SUBSET Refund]
    BY <1>1, JobTypes
  <2> HIDE DEF kept
  <2>3. job'[w].step = "looking" /\ job'[w].rows = kept
    BY <1>1, <2>1, <2>2
  <2>4. View(w)' = rows
    <3>1. View(w)' = [c \in Child |-> IF kept[c] # None THEN kept[c] ELSE child[c]]
      BY <2>1, <2>3 DEF View
    <3>2. \A c \in Child : (IF kept[c] # None THEN kept[c] ELSE child[c]) = rows[c]
      BY <1>1, ConstantFacts DEF kept
    <3>3. rows = [c \in Child |-> rows[c]]
      OBVIOUS
    <3> QED
      BY <3>1, <3>2, <3>3
  <2>5. SendingOne(w)'
    BY <2>3 DEF SendingOne, Sending
  <2>6. HandlingOne(w)'
    BY <2>3, <2>4 DEF HandlingOne, OneEach, InOrder, LatestDone
  <2>7. Onward(child, child) /\ OneEach(child)
    BY DEF Onward, OneInv
  <2> QED
    BY <1>1, <2>1, <2>5, <2>6, <2>7, StepOne
<1> QED
  BY <1>2, <1>3

\* The child the request was told of is the latest that names the refund.
LEMMA TargetFacts ==
    ASSUME OneInv, NEW w \in Worker, Handling(w), job[w].step = "found"
    PROVE  /\ OneEach(View(w))
           /\ job[w].target = None =>
                 \A c \in Child : View(w)[c].provider_reference # job[w].todo[1].id
           /\ job[w].target # None =>
                 \A c \in Child : View(w)[c].provider_reference = job[w].todo[1].id =>
                     c <= job[w].target
<1>1. OneEach(View(w)) /\ job[w].target = FindChild(View(w), job[w].todo[1].id)
  BY DEF OneInv, HandlingOne
<1> QED
  BY <1>1, FindLatest

LEMMA ApplyRefundUpdateOne ==
    ASSUME OneWorker, IInv, OneInv, NEW w \in Worker, ApplyRefundUpdate(w)
    PROVE  OneInv'
<1> DEFINE c == job[w].target
           p == job[w].todo[1]
           e == job[w].event
           seeing == View(w)
           rows == ApplyToChild(seeing, c, e, p)
<1> HIDE DEF c, p, e, seeing, rows
<1>1. /\ job[w].step = "found" /\ c # None
      /\ \E list, flags : Take(w, c, rows, list, flags)
  BY DEF ApplyRefundUpdate, c, p, e, seeing, rows
<1>2. Handling(w)
  BY <1>1 DEF Handling
<1>3. p \in Report /\ p.id \in Refund /\ p.id # None /\ Told(p) /\ e \in Event
  BY <1>2, HeadFacts DEF p, e
<1>4. c \in Child /\ seeing[c].provider_reference = p.id
  <2>1. job \in [Worker -> Job] /\ HandlingInv(w)
    BY DEF IInv, TypeOK
  <2> QED
    BY <1>1, <1>2, <2>1, JobTypes DEF HandlingInv, c, p, seeing
<1>5. seeing \in [Child -> Row] /\ RowOk(seeing[c])
  BY <1>2, <1>4, ViewFacts DEF seeing
<1>6. /\ OneEach(seeing)
      /\ \A d \in Child : seeing[d].provider_reference = p.id => d <= c
  BY <1>1, <1>2, TargetFacts DEF c, p, seeing
<1>7. CASE IsReplay(seeing[c].processed, e)
  <2>1. rows = seeing
    BY <1>7 DEF rows, ApplyToChild
  <2>2. Onward(seeing, seeing)
    BY DEF Onward
  <2> QED
    BY <1>1, <1>2, <1>5, <1>6, <2>1, <2>2, TakeOne DEF seeing
<1>8. CASE ~IsReplay(seeing[c].processed, e)
  <2> DEFINE r == RefundUpdate(seeing[c], p)
             new == [r EXCEPT !.processed = RememberEvent(seeing[c].processed, e, ProcessedCap)]
  <2>1. seeing[c] \in Row /\ seeing[c].state # "absent" /\ ~seeing[c].awaiting
    BY <1>3, <1>4, <1>5 DEF RowOk
  <2>2. /\ r \in Row /\ Later(seeing[c], r) /\ r.provider_reference = p.id
        /\ r.state # "absent"
    BY <1>3, <1>4, <1>5, <2>1, UpdateFacts
  <2> HIDE DEF r
  <2>3. RememberEvent(seeing[c].processed, e, ProcessedCap) \in Seq(Event)
    BY <1>3, <1>8, <2>1, ConstantFacts, RememberFacts DEF Row
  <2>4. /\ new \in Row /\ new.state = r.state /\ new.amount = r.amount /\ new.proc = r.proc
        /\ new.provider_reference = r.provider_reference
        /\ new.rejected = r.rejected /\ new.key = r.key
    BY <2>2, <2>3 DEF Row
  <2>5. rows = [seeing EXCEPT ![c] = new]
    BY <1>8 DEF rows, ApplyToChild, r
  <2> HIDE DEF new
  <2>6. rows \in [Child -> Row] /\ rows[c] = new /\ \A d \in Child \ {c} : rows[d] = seeing[d]
    BY <1>4, <1>5, <2>4, <2>5
  <2>7. Onward(seeing, rows)
    BY <2>2, <2>4, <2>6 DEF Onward, Later
  <2>8. InOrder(rows)
    BY <1>6, <2>1, <2>2, <2>4, <2>6 DEF OneEach, InOrder
  <2>9. LatestDone(rows)
    <3> SUFFICES ASSUME NEW x \in Child, NEW y \in Child, rows[x].state = "done",
                        rows[y].provider_reference = rows[x].provider_reference
                 PROVE  y <= x
      BY DEF LatestDone
    <3>1. \A d \in Child : rows[d].provider_reference = seeing[d].provider_reference
      BY <1>4, <2>2, <2>4, <2>6
    <3>2. CASE x = c
      BY <1>4, <1>6, <3>1, <3>2
    <3>3. CASE x # c
      BY <1>6, <2>6, <3>1, <3>3 DEF OneEach, LatestDone
    <3> QED
      BY <3>2, <3>3
  <2> QED
    BY <1>1, <1>2, <2>6, <2>7, <2>8, <2>9, TakeOne DEF seeing, OneEach
<1> QED
  BY <1>7, <1>8

\* One child takes the refund nobody names, and the others stay as they are.
Names(rows, new, m, id) ==
    /\ new[m].state # "absent" /\ new[m].provider_reference = id
    /\ \A c \in Child \ {m} : /\ new[c].state = rows[c].state
                              /\ new[c].provider_reference = rows[c].provider_reference

\* Naming a refund in the latest done child leaves one child for each refund.
LEMMA NamesOne ==
    ASSUME NEW rows, NEW new, NEW m \in Child, NEW id, OneEach(rows), Names(rows, new, m, id),
           \A c \in Child : rows[c].provider_reference # id,
           \A c \in Child : c < m => rows[c].state # "absent"
    PROVE  OneEach(new)
<1>1. InOrder(new)
  BY InOrderStays DEF Names, OneEach
<1>2. LatestDone(new)
  <2> SUFFICES ASSUME NEW x \in Child, NEW y \in Child, new[x].state = "done",
                      new[y].provider_reference = new[x].provider_reference
               PROVE  y <= x
    BY DEF LatestDone
  <2>1. CASE x = m
    <3>1. y = m
      BY <2>1 DEF Names
    <3> QED
      BY <2>1, <3>1, ChildNumbers
  <2>2. CASE x # m
    <3>1. y # m
      BY <2>2 DEF Names
    <3> QED
      BY <2>2, <3>1 DEF Names, OneEach, LatestDone
  <2> QED
    BY <2>1, <2>2
<1> QED
  BY <1>1, <1>2 DEF OneEach

\* The earliest attempt that waits for the report is the one that takes it.
LEMMA AdoptNames ==
    ASSUME NEW rows \in [Child -> Row], \A c \in Child : RowOk(rows[c]),
           NEW p \in Report, p.id # None, Told(p), Unresolved(rows, p) # {}
    PROVE  LET m == Min(Unresolved(rows, p))
           IN  /\ m \in Child /\ rows[m].state # "absent"
               /\ Names(rows, Adopt(rows, Unresolved(rows, p), p), m, p.id)
<1> DEFINE C == Unresolved(rows, p)
           m == Min(C)
           Freed(c) == [rows[c] EXCEPT !.awaiting = FALSE]
           first == RefundUpdate(Freed(m), p)
           new == Adopt(rows, C, p)
<1> HIDE DEF m, Freed, first, new
<1>1. \A c \in C : /\ c \in Child /\ rows[c].awaiting
                   /\ rows[c].provider_reference = None /\ rows[c].proc = p.proc
  BY DEF Unresolved
<1>2. C \in SUBSET Nat /\ C # {}
  BY DEF Unresolved, Child
<1> HIDE DEF C
<1>3. m \in C /\ m \in Child
  BY <1>1, <1>2, MinFacts DEF m
<1>4. ASSUME NEW c \in C
      PROVE  /\ Freed(c) \in Row /\ RowOk(Freed(c)) /\ ~Freed(c).awaiting /\ ~Freed(c).rejected
             /\ Freed(c).state # "absent" /\ Freed(c).state = rows[c].state
             /\ Freed(c).provider_reference = None
             /\ [rows[c] EXCEPT !.awaiting = FALSE, !.proc = p.proc] = Freed(c)
  <2>1. /\ rows[c] \in Row /\ RowOk(rows[c]) /\ rows[c].awaiting
        /\ rows[c].provider_reference = None /\ rows[c].proc = p.proc
    BY <1>1
  <2>2. Freed(c).state = rows[c].state
    BY <2>1 DEF Freed, Row
  <2> QED
    BY <2>1, <2>2, FreedFacts DEF Freed
<1>5. first.state # "absent" /\ first.provider_reference = p.id
  BY <1>3, <1>4, UpdateFacts DEF first
<1>6. new = [c \in Child |-> IF c = m
                THEN RefundUpdate([rows[c] EXCEPT !.awaiting = FALSE, !.proc = p.proc], p)
                ELSE IF c \in C THEN [rows[c] EXCEPT !.awaiting = FALSE] ELSE rows[c]]
  BY DEF new, Adopt, m
<1>7. new[m] = first
  <2>1. [rows[m] EXCEPT !.awaiting = FALSE, !.proc = p.proc] = Freed(m)
    BY <1>3, <1>4
  <2> QED
    BY <1>3, <1>6, <2>1 DEF first
<1>8. ASSUME NEW c \in Child \ {m}
      PROVE  /\ new[c].state = rows[c].state
             /\ new[c].provider_reference = rows[c].provider_reference
  <2>1. CASE c \in C
    <3>1. new[c] = Freed(c)
      BY <1>6, <2>1 DEF Freed
    <3> QED
      BY <1>1, <1>4, <2>1, <3>1
  <2>2. CASE c \notin C
    BY <1>6, <2>2
  <2> QED
    BY <2>1, <2>2
<1>9. rows[m].state # "absent" /\ Names(rows, new, m, p.id)
  BY <1>3, <1>4, <1>5, <1>7, <1>8 DEF Names
<1> QED
  BY <1>3, <1>9 DEF new, m, C

\* The child made for a refund that came from elsewhere.
LEMMA MirroredNames ==
    ASSUME NEW rows \in [Child -> Row], NEW p \in Report, p.id # None, Told(p), NEW m \in Child
    PROVE  Names(rows, [rows EXCEPT ![m] = Mirrored(p)], m, p.id)
<1> DEFINE amount == IF p.details THEN Present(p.proc) ELSE p.proc
           draft == [NoRow EXCEPT !.state = "draft", !.proc = p.proc, !.amount = amount]
           row == Mirrored(p)
<1> HIDE DEF amount, draft, row
<1>1. p.proc \in Nat /\ p.proc > 0
  BY DEF Told, Report
<1>2. amount \in Nat
  BY <1>1, MoneyTypes DEF amount
<1>3. /\ draft \in Row /\ draft.state = "draft"
      /\ draft.provider_reference = None /\ ~draft.awaiting /\ ~draft.rejected
      /\ draft.processed = << >>
  <2>1. draft = [NoRow EXCEPT !.state = "draft", !.proc = p.proc, !.amount = amount]
    BY DEF draft
  <2>2. p.proc \in Int
    BY <1>1
  <2> QED
    BY <1>2, <2>1, <2>2, NoRowFacts DEF Row
<1>4. RowOk(draft)
  BY <1>3 DEF RowOk
<1>5. row = RefundUpdate(draft, p)
  BY DEF row, Mirrored, draft, amount
<1>6. row.state # "absent" /\ row.provider_reference = p.id
  BY <1>3, <1>4, <1>5, UpdateFacts
<1> QED
  BY <1>6 DEF Names, row

LEMMA MirrorExternalRefundOne ==
    ASSUME OneWorker, IInv, OneInv, NEW w \in Worker, MirrorExternalRefund(w)
    PROVE  OneInv'
<1> DEFINE rows == View(w)
           p == job[w].todo[1]
           C == Unresolved(rows, p)
           new == Mirror(rows, p)
<1> HIDE DEF rows, p, C, new
<1>1. /\ job[w].step = "found" /\ job[w].target = None
      /\ \/ \E list : Take(w, Source, rows, list, {})
         \/ /\ C = {} => FreeChild # {}
            /\ \E list, flags : Take(w, Source, new, list, flags)
  BY DEF MirrorExternalRefund, rows, p, C, new
<1>2. Handling(w)
  BY <1>1 DEF Handling
<1>3. p \in Report /\ p.id \in Refund /\ p.id # None /\ Told(p)
  BY <1>2, HeadFacts DEF p
<1>4. rows \in [Child -> Row] /\ \A c \in Child : RowOk(rows[c])
  BY <1>2, ViewFacts DEF rows
<1>5. OneEach(rows) /\ \A c \in Child : rows[c].provider_reference # p.id
  BY <1>1, <1>2, TargetFacts DEF rows, p
<1>6. Onward(rows, rows)
  BY DEF Onward
<1>7. ASSUME C = {} => FreeChild # {}
      PROVE  new \in [Child -> Row] /\ Onward(rows, new) /\ OneEach(new)
  <2>1. MirrorOk(rows, new, p, IF Escalates(rows, p) THEN {p.id} ELSE {})
    BY <1>2, <1>3, <1>7, MirrorFacts DEF rows, new, C
  <2>2. new \in [Child -> Row] /\ Onward(rows, new)
    BY <2>1 DEF MirrorOk, Onward
  <2>3. CASE C # {} /\ ~Ambiguous(C, rows)
    <3>1. new = Adopt(rows, C, p)
      BY <2>3 DEF new, Mirror, C
    <3> DEFINE m == Min(C)
    <3>2. m \in Child /\ rows[m].state # "absent" /\ Names(rows, new, m, p.id)
      BY <1>3, <1>4, <2>3, <3>1, AdoptNames DEF C
    <3> HIDE DEF m
    <3>3. \A c \in Child : c < m => rows[c].state # "absent"
      BY <1>5, <3>2 DEF OneEach, InOrder
    <3> QED
      BY <1>5, <2>2, <3>2, <3>3, NamesOne
  <2>4. CASE C = {} /\ ~Unmirrorable(p)
    <3> DEFINE m == Min(FreeChild)
    <3>1. new = [rows EXCEPT ![m] = Mirrored(p)]
      BY <2>4 DEF new, Mirror, C
    <3>2. m \in Child
      BY <1>7, <2>4, FreeFacts
    <3>3. \A c \in Child : c < m => rows[c].state # "absent"
      BY <1>2, <1>7, <2>4, FreeIsFirst DEF rows
    <3> HIDE DEF m
    <3>4. Names(rows, new, m, p.id)
      BY <1>3, <1>4, <3>1, <3>2, MirroredNames
    <3> QED
      BY <1>5, <2>2, <3>2, <3>3, <3>4, NamesOne
  <2>5. CASE (C # {} /\ Ambiguous(C, rows)) \/ (C = {} /\ Unmirrorable(p))
    <3>1. new = rows
      BY <2>5 DEF new, Mirror, C
    <3> QED
      BY <1>5, <2>2, <3>1
  <2> QED
    BY <2>3, <2>4, <2>5
<1>8. CASE \E list : Take(w, Source, rows, list, {})
  BY <1>2, <1>4, <1>5, <1>6, <1>8, TakeOne DEF rows
<1>9. CASE /\ C = {} => FreeChild # {}
           /\ \E list, flags : Take(w, Source, new, list, flags)
  BY <1>2, <1>7, <1>9, TakeOne DEF rows
<1> QED
  BY <1>1, <1>8, <1>9

-----------------------------------------------------------------------------
(* The theorem.                                                            *)

LEMMA InitOne ==
    ASSUME Init
    PROVE  OneInv
<1>1. \A c \in Child : child[c].state = "absent"
  BY DEF Init, NoRow
<1>2. OneEach(child)
  BY <1>1 DEF OneEach, InOrder, LatestDone
<1>3. answers = {} /\ \A w \in Worker : job[w].step = "idle"
  BY DEF Init, Idle
<1> QED
  BY <1>2, <1>3 DEF OneInv, SendingOne, HandlingOne, Sending, Handling

LEMMA NextOne ==
    ASSUME OneWorker, IInv, IInv', OneInv, [Next]_vars
    PROVE  OneInv'
<1>1. ASSUME NEW w \in Worker, RequestStep(w) PROVE OneInv'
  <2>1. CASE \E amount \in 1 .. SourceAmount : SubmitRefund(w, amount) \/ SubmitRefused(w, amount)
    BY <2>1, SubmitRefundOne, SubmitRefusedOne
  <2>2. CASE SubmitAnswered(w) \/ SubmitLost(w)
    BY <2>2, SubmitAnsweredOne, SubmitLostOne
  <2>3. CASE \E e \in sent : Deliver(w, e)
    BY <2>3, DeliverOne
  <2>4. CASE LookUp(w)
    BY <2>4, LookUpOne
  <2>5. CASE ApplyRefundUpdate(w) \/ MirrorExternalRefund(w)
    BY <2>5, ApplyRefundUpdateOne, MirrorExternalRefundOne
  <2>6. CASE LockBusy(w) \/ Abort(w)
    BY <2>6, AbortOne DEF LockBusy
  <2> QED
    BY <1>1, <2>1, <2>2, <2>3, <2>4, <2>5, <2>6 DEF RequestStep
<1>2. CASE PlatformStep
  BY <1>2, PlatformStepOne
<1>3. CASE UNCHANGED vars
  <2>1. UNCHANGED <<child, job, answers>>
    BY <1>3 DEF vars
  <2> QED
    BY <2>1, PlatformOne
<1> QED
  BY <1>1, <1>2, <1>3 DEF Next

\* "One child transaction per real refund" (_adopt_unresolved_sibling): when
\* requests are served one at a time, no refund of the platform is counted
\* twice, whatever it answers, loses, answers late or refunds by itself, and
\* whenever a request dies.  With two requests it can be.
THEOREM OneDonePerRefundHolds ==
    ASSUME OneWorker
    PROVE  Spec => []OneDonePerRefund
<1>1. Init => IInv /\ OneInv
  BY InitIInv, InitOne
<1>2. IInv /\ OneInv /\ [Next]_vars => (IInv /\ OneInv)'
  BY NextPreserves, NextOne
<1>3. IInv /\ OneInv => OneDonePerRefund
  BY OneEachIsOne DEF OneInv
<1> QED
  BY <1>1, <1>2, <1>3, PTL DEF Spec

=============================================================================
