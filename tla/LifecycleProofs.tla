-------------------------- MODULE LifecycleProofs ---------------------------
(***************************************************************************)
(* Facts about the bounded list of processed event ids of Lifecycle, which *)
(* the proofs about payments and about refunds share.                      *)
(***************************************************************************)
EXTENDS Lifecycle, SequenceTheorems, TLAPS

\* Newest keeps a suffix, the last element included.
LEMMA NewestFacts ==
    ASSUME NEW S, NEW seq \in Seq(S), NEW cap \in Nat \ {0}
    PROVE  /\ Newest(seq, cap) \in Seq(S)
           /\ Len(Newest(seq, cap)) <= cap
           /\ \A x : InSeq(x, Newest(seq, cap)) => InSeq(x, seq)
           /\ Len(seq) > 0 => InSeq(seq[Len(seq)], Newest(seq, cap))
<1>0. Len(seq) \in Nat
  BY LenProperties
<1>1. CASE Len(seq) <= cap
  BY <1>0, <1>1 DEF Newest, InSeq
<1>2. CASE Len(seq) > cap
  <2> DEFINE m == Len(seq) - cap + 1
             sub == SubSeq(seq, m, Len(seq))
  <2>1. Newest(seq, cap) = sub
    BY <1>0, <1>2 DEF Newest
  <2>2. m \in 1..Len(seq)
    BY <1>0, <1>2
  <2>3. /\ sub \in Seq(S)
        /\ Len(sub) = cap
        /\ \A i \in 1..cap : sub[i] = seq[m + i - 1]
    BY <1>0, <2>2, SubSeqProperties
  <2>4. \A i \in 1..cap : m + i - 1 \in 1..Len(seq)
    BY <1>0, <1>2
  <2>5. cap \in 1..cap /\ m + cap - 1 = Len(seq)
    BY <1>0, <1>2
  <2>6. sub[cap] = seq[Len(seq)]
    BY <2>3, <2>5
  <2> HIDE DEF m, sub
  <2>7. \A x : InSeq(x, sub) => InSeq(x, seq)
    BY <1>0, <2>2, <2>3, <2>4 DEF InSeq
  <2>8. InSeq(seq[Len(seq)], sub)
    BY <2>3, <2>5, <2>6 DEF InSeq
  <2> QED
    BY <2>1, <2>3, <2>7, <2>8
<1> QED
  BY <1>0, <1>1, <1>2

\* Append adds one element, at the end.
LEMMA AppendFacts ==
    ASSUME NEW S, NEW seq \in Seq(S), NEW y \in S
    PROVE  /\ Append(seq, y) \in Seq(S)
           /\ Len(Append(seq, y)) > 0
           /\ Append(seq, y)[Len(Append(seq, y))] = y
           /\ \A x : InSeq(x, Append(seq, y)) => InSeq(x, seq) \/ x = y
<1>1. Len(seq) \in Nat
  BY LenProperties
<1>2. /\ Append(seq, y) \in Seq(S)
      /\ Len(Append(seq, y)) = Len(seq) + 1
      /\ \A i \in 1..Len(seq) : Append(seq, y)[i] = seq[i]
      /\ Append(seq, y)[Len(seq) + 1] = y
  BY AppendProperties
<1> QED
  BY <1>1, <1>2 DEF InSeq

\* remember_event adds the id and nothing else, and keeps the list at its cap.
LEMMA RememberFacts ==
    ASSUME NEW S, NEW processed \in Seq(S), NEW e \in S, NEW cap \in Nat \ {0},
           ~IsReplay(processed, e)
    PROVE  /\ RememberEvent(processed, e, cap) \in Seq(S)
           /\ Len(RememberEvent(processed, e, cap)) <= cap
           /\ \A x : InSeq(x, RememberEvent(processed, e, cap)) => InSeq(x, processed) \/ x = e
<1>1. RememberEvent(processed, e, cap) = Newest(Append(processed, e), cap)
  BY DEF RememberEvent
<1>2. /\ Append(processed, e) \in Seq(S)
      /\ \A x : InSeq(x, Append(processed, e)) => InSeq(x, processed) \/ x = e
  BY AppendFacts
<1> HIDE DEF RememberEvent
<1>3. /\ Newest(Append(processed, e), cap) \in Seq(S)
      /\ Len(Newest(Append(processed, e), cap)) <= cap
      /\ \A x : InSeq(x, Newest(Append(processed, e), cap)) => InSeq(x, Append(processed, e))
  BY <1>2, NewestFacts
<1> QED
  BY <1>1, <1>2, <1>3
=============================================================================
