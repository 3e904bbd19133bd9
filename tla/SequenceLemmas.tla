---------------------------- MODULE SequenceLemmas ----------------------------
(***************************************************************************)
(* Facts about concatenation, first and last elements of sequences, for    *)
(* proofs about the frame lists of MppEncoder, and about the order of the  *)
(* members of a set of positions, for the entries RgaBackend keeps and the *)
(* frames MppDecoder keeps.                                                *)
(***************************************************************************)
EXTENDS Integers, SequenceTheorems, FiniteSetTheorems, TLAPS

\* A suffix of a sequence is a sequence over the same set.
LEMMA SuffixType ==
  ASSUME NEW S, NEW s \in Seq(S), NEW n \in 0..Len(s)
  PROVE  /\ SubSeq(s, n + 1, Len(s)) \in Seq(S)
         /\ Len(SubSeq(s, n + 1, Len(s))) = Len(s) - n
         /\ \A i \in 1..(Len(s) - n) : SubSeq(s, n + 1, Len(s))[i] = s[n + i]
<1> DEFINE m == n + 1
           t == SubSeq(s, m, Len(s))
<1>1. Len(s) \in Nat /\ n \in Nat /\ n <= Len(s)
  BY LenProperties
<1>2. m \in Int /\ Len(s) \in Int
  BY <1>1
<1>3. \A i \in m..Len(s) : s[i] \in S
  BY <1>1, ElementOfSeq
<1> HIDE DEF m
<1>4. /\ t \in Seq(S)
      /\ Len(t) = IF m <= Len(s) THEN Len(s) - m + 1 ELSE 0
      /\ \A i \in 1..(Len(s) - m + 1) : t[i] = s[m + i - 1]
  BY <1>2, <1>3, SubSeqProperties
<1> HIDE DEF t
<1>5. Len(t) = Len(s) - n
  BY <1>1, <1>4 DEF m
<1>6. \A i \in 1..(Len(s) - n) : t[i] = s[n + i]
  <2> SUFFICES ASSUME NEW i \in 1..(Len(s) - n)
               PROVE  t[i] = s[n + i]
    OBVIOUS
  <2>1. i \in 1..(Len(s) - m + 1) /\ m + i - 1 = n + i
    BY <1>1 DEF m
  <2> QED BY <2>1, <1>4
<1> QED BY <1>4, <1>5, <1>6 DEF t, m

\* Removing the last element leaves a sequence.
LEMMA FrontType ==
  ASSUME NEW S, NEW s \in Seq(S), s # <<>>
  PROVE  /\ SubSeq(s, 1, Len(s) - 1) \in Seq(S)
         /\ Len(SubSeq(s, 1, Len(s) - 1)) = Len(s) - 1
         /\ \A i \in 1..(Len(s) - 1) : SubSeq(s, 1, Len(s) - 1)[i] = s[i]
<1> DEFINE m == Len(s) - 1
           t == SubSeq(s, 1, m)
<1>1. Len(s) \in Nat \ {0}
  BY EmptySeq
<1>2. m \in Nat /\ 1 \in Int /\ m \in Int
  BY <1>1
<1>3. \A i \in 1..m : s[i] \in S
  BY <1>1, ElementOfSeq
<1> HIDE DEF m
<1>4. /\ t \in Seq(S)
      /\ Len(t) = IF 1 <= m THEN m - 1 + 1 ELSE 0
      /\ \A i \in 1..(m - 1 + 1) : t[i] = s[1 + i - 1]
  BY <1>2, <1>3, SubSeqProperties
<1> HIDE DEF t
<1>5. Len(t) = m /\ \A i \in 1..m : t[i] = s[i]
  BY <1>2, <1>4
<1> QED BY <1>4, <1>5 DEF t, m

\* Head and Tail of a concatenation are those of its first part.
LEMMA ConcatHeadTail ==
  ASSUME NEW S, NEW m \in Seq(S), NEW q \in Seq(S), m # <<>>
  PROVE  /\ m \o q # <<>>
         /\ Head(m \o q) = Head(m)
         /\ Tail(m \o q) = Tail(m) \o q
<1>1. /\ Len(m) \in Nat \ {0} /\ Len(q) \in Nat
      /\ m \o q \in Seq(S) /\ Len(m \o q) = Len(m) + Len(q)
      /\ \A i \in 1..(Len(m) + Len(q)) :
           (m \o q)[i] = IF i <= Len(m) THEN m[i] ELSE q[i - Len(m)]
  BY EmptySeq, LenProperties, ConcatProperties
<1>2. m \o q # <<>>
  BY <1>1, EmptySeq
<1>3. /\ Tail(m) \in Seq(S) /\ Len(Tail(m)) = Len(m) - 1
      /\ \A i \in 1..Len(Tail(m)) : Tail(m)[i] = m[i + 1]
  BY HeadTailProperties
<1>4. /\ Tail(m \o q) \in Seq(S) /\ Len(Tail(m \o q)) = Len(m) + Len(q) - 1
      /\ \A i \in 1..Len(Tail(m \o q)) : Tail(m \o q)[i] = (m \o q)[i + 1]
  BY <1>1, <1>2, HeadTailProperties
<1>5. /\ Tail(m) \o q \in Seq(S)
      /\ Len(Tail(m) \o q) = Len(m) - 1 + Len(q)
      /\ \A i \in 1..(Len(m) - 1 + Len(q)) :
           (Tail(m) \o q)[i] = IF i <= Len(m) - 1 THEN Tail(m)[i]
                               ELSE q[i - (Len(m) - 1)]
  BY <1>3, ConcatProperties
<1>6. \A i \in 1..Len(Tail(m \o q)) : Tail(m \o q)[i] = (Tail(m) \o q)[i]
  <2> SUFFICES ASSUME NEW i \in 1..Len(Tail(m \o q))
               PROVE  Tail(m \o q)[i] = (Tail(m) \o q)[i]
    OBVIOUS
  <2>1. /\ i \in 1..(Len(m) - 1 + Len(q)) /\ i + 1 \in 1..(Len(m) + Len(q))
        /\ i + 1 - Len(m) = i - (Len(m) - 1)
    BY <1>1, <1>4
  <2>2. CASE i <= Len(m) - 1
    <3>1. i \in 1..Len(Tail(m)) /\ i + 1 <= Len(m)
      BY <1>1, <1>3, <2>2
    <3> QED BY <1>1, <1>3, <1>4, <1>5, <2>1, <2>2, <3>1
  <2>3. CASE ~(i <= Len(m) - 1)
    <3>1. ~(i + 1 <= Len(m))
      BY <1>1, <2>3
    <3> QED BY <1>1, <1>4, <1>5, <2>1, <2>3, <3>1
  <2> QED BY <2>2, <2>3
<1>7. Len(Tail(m \o q)) = Len(Tail(m) \o q)
  BY <1>1, <1>4, <1>5
<1>8. Tail(m \o q) = Tail(m) \o q
  BY <1>4, <1>5, <1>6, <1>7, SeqEqual
<1>9. Head(m \o q) = Head(m)
  <2>1. Head(m) = m[1] /\ Head(m \o q) = (m \o q)[1]
    OBVIOUS
  <2>2. 1 \in 1..(Len(m) + Len(q)) /\ 1 <= Len(m)
    BY <1>1
  <2> QED BY <1>1, <2>1, <2>2
<1> QED BY <1>2, <1>8, <1>9

\* Moving the head of one sequence to the end of the one before it.
LEMMA MoveHead ==
  ASSUME NEW S, NEW m \in Seq(S), NEW q \in Seq(S), q # <<>>
  PROVE  Append(m, Head(q)) \o Tail(q) = m \o q
<1>1. Head(q) \in S /\ Tail(q) \in Seq(S) /\ <<Head(q)>> \in Seq(S)
  BY HeadTailProperties
<1>2. Append(m, Head(q)) = m \o <<Head(q)>>
  BY <1>1, AppendIsConcat
<1>3. (m \o <<Head(q)>>) \o Tail(q) = m \o (<<Head(q)>> \o Tail(q))
  BY <1>1, ConcatAssociative
<1>4. <<Head(q)>> \o Tail(q) = q
  <2>1. Len(q) \in Nat \ {0} /\ Head(q) = q[1]
    BY EmptySeq
  <2>2. 1 \in 1..Len(q) /\ Len(q) \in 1..Len(q)
    BY <2>1
  <2>3. SubSeq(q, 1, Len(q)) = <<q[1]>> \o SubSeq(q, 1 + 1, Len(q))
    BY <2>2, SubSeqRecursiveFirst
  <2>4. Tail(q) = SubSeq(q, 2, Len(q)) /\ SubSeq(q, 1, Len(q)) = q
    BY TailIsSubSeq, SubSeqFull
  <2> QED BY <2>1, <2>3, <2>4
<1> QED BY <1>2, <1>3, <1>4

\* What follows the first part of a concatenation is the second part.
LEMMA ConcatSuffix ==
  ASSUME NEW S, NEW m \in Seq(S), NEW q \in Seq(S)
  PROVE  SubSeq(m \o q, Len(m) + 1, Len(m \o q)) = q
<1> DEFINE c == m \o q
           t == SubSeq(c, Len(m) + 1, Len(c))
<1>1. /\ Len(m) \in Nat /\ Len(q) \in Nat
      /\ c \in Seq(S) /\ Len(c) = Len(m) + Len(q)
      /\ \A i \in 1..(Len(m) + Len(q)) :
           c[i] = IF i <= Len(m) THEN m[i] ELSE q[i - Len(m)]
  BY LenProperties, ConcatProperties
<1>2. Len(m) \in 0..Len(c)
  BY <1>1
<1> HIDE DEF c
<1>3. /\ t \in Seq(S) /\ Len(t) = Len(q)
      /\ \A i \in 1..Len(q) : t[i] = c[Len(m) + i]
  <2>1. /\ t \in Seq(S) /\ Len(t) = Len(c) - Len(m)
        /\ \A i \in 1..(Len(c) - Len(m)) : t[i] = c[Len(m) + i]
    BY <1>1, <1>2, SuffixType
  <2>2. Len(c) - Len(m) = Len(q)
    BY <1>1
  <2> QED BY <2>1, <2>2
<1> HIDE DEF t
<1>4. \A i \in 1..Len(t) : t[i] = q[i]
  <2> SUFFICES ASSUME NEW i \in 1..Len(q) PROVE t[i] = q[i]
    BY <1>3
  <2>1. /\ Len(m) + i \in 1..(Len(m) + Len(q)) /\ ~(Len(m) + i <= Len(m))
        /\ Len(m) + i - Len(m) = i
    BY <1>1
  <2> QED BY <1>1, <1>3, <2>1
<1>5. t = q
  BY <1>3, <1>4, SeqEqual
<1> QED BY <1>5 DEF t, c

\* Removing the last element undoes an appended one.
LEMMA AppendedFront ==
  ASSUME NEW S, NEW m \in Seq(S), NEW e \in S
  PROVE  /\ m \o <<e>> # <<>>
         /\ (m \o <<e>>)[Len(m \o <<e>>)] = e
         /\ SubSeq(m \o <<e>>, 1, Len(m \o <<e>>) - 1) = m
<1> DEFINE c == m \o <<e>>
           t == SubSeq(c, 1, Len(c) - 1)
<1>1. /\ Len(m) \in Nat /\ c = Append(m, e) /\ c \in Seq(S) /\ c # <<>>
      /\ Len(c) = Len(m) + 1 /\ c[Len(m) + 1] = e
      /\ \A i \in 1..Len(m) : c[i] = m[i]
  BY LenProperties, AppendIsConcat, AppendProperties
<1> HIDE DEF c
<1>2. /\ t \in Seq(S) /\ Len(t) = Len(c) - 1
      /\ \A i \in 1..(Len(c) - 1) : t[i] = c[i]
  BY <1>1, FrontType
<1> HIDE DEF t
<1>3. Len(t) = Len(m) /\ \A i \in 1..Len(t) : t[i] = m[i]
  BY <1>1, <1>2
<1>4. t = m
  BY <1>2, <1>3, SeqEqual
<1> QED BY <1>1, <1>4 DEF t, c

\* Appending to the second part of a concatenation appends to the whole.
LEMMA ConcatAppend ==
  ASSUME NEW S, NEW m \in Seq(S), NEW q \in Seq(S), NEW e \in S
  PROVE  m \o Append(q, e) = Append(m \o q, e)
<1>1. <<e>> \in Seq(S) /\ m \o q \in Seq(S)
  BY ConcatProperties
<1>2. Append(q, e) = q \o <<e>> /\ Append(m \o q, e) = (m \o q) \o <<e>>
  BY <1>1, AppendIsConcat
<1>3. (m \o q) \o <<e>> = m \o (q \o <<e>>)
  BY <1>1, ConcatAssociative
<1> QED BY <1>2, <1>3
-----------------------------------------------------------------------------
(* Sets of positions *)

\* How many members come before i.
Rank(B, i) == Cardinality({j \in B : j < i})

LEMMA RankType ==
  ASSUME NEW B \in SUBSET Nat, IsFiniteSet(B), NEW i \in B
  PROVE  Rank(B, i) \in 0..(Cardinality(B) - 1) /\ Cardinality(B) \in Nat
<1> DEFINE L == {j \in B : j < i}
<1>1. L \in SUBSET (B \ {i}) /\ IsFiniteSet(B \ {i}) /\ Cardinality(B \ {i}) = Cardinality(B) - 1
  BY FS_RemoveElement
<1>2. IsFiniteSet(L) /\ Cardinality(L) <= Cardinality(B) - 1
  BY <1>1, FS_Subset
<1>3. Cardinality(L) \in Nat /\ Cardinality(B) \in Nat
  BY <1>2, FS_CardinalityType
<1> QED
  BY <1>2, <1>3 DEF Rank

LEMMA RankGrows ==
  ASSUME NEW B \in SUBSET Nat, IsFiniteSet(B), NEW i \in B, NEW k \in B, i < k
  PROVE  Rank(B, i) < Rank(B, k)
<1> DEFINE L == {j \in B : j < i}
           H == {j \in B : j < k}
<1>1. L \in SUBSET B /\ H \in SUBSET B /\ i \notin L /\ L \cup {i} \in SUBSET H
  <2>1. ASSUME NEW j \in L PROVE j \in H
    <3>1. j \in Nat /\ i \in Nat /\ k \in Nat /\ j < i
      OBVIOUS
    <3> QED
      BY <3>1
  <2>2. i \in H /\ i \notin L /\ L \subseteq B /\ H \subseteq B
    <3>1. i \in Nat
      OBVIOUS
    <3> QED
      BY <3>1
  <2> HIDE DEF L, H
  <2> QED
    BY <2>1, <2>2
<1>2. IsFiniteSet(L) /\ IsFiniteSet(H)
  BY <1>1, FS_Subset
<1> HIDE DEF L, H
<1>3. Cardinality(L \cup {i}) = Cardinality(L) + 1
  BY <1>1, <1>2, FS_AddElement
<1>4. Cardinality(L \cup {i}) <= Cardinality(H)
  BY <1>1, <1>2, FS_Subset
<1>5. Cardinality(L) \in Nat /\ Cardinality(H) \in Nat
  BY <1>2, FS_CardinalityType
<1>6. Cardinality(L) < Cardinality(H)
  BY <1>3, <1>4, <1>5
<1> QED
  BY <1>6 DEF L, H, Rank

LEMMA RankOnce ==
  ASSUME NEW B \in SUBSET Nat, IsFiniteSet(B), NEW i \in B, NEW k \in B, Rank(B, i) = Rank(B, k)
  PROVE  i = k
<1>1. i \in Nat /\ k \in Nat /\ Rank(B, i) \in Nat /\ Rank(B, k) \in Nat
  BY RankType
<1>2. ~(i < k)
  BY <1>1, RankGrows
<1>3. ~(k < i)
  BY <1>1, RankGrows
<1> QED
  BY <1>1, <1>2, <1>3

LEMMA RankOnto ==
  ASSUME NEW B \in SUBSET Nat, IsFiniteSet(B), NEW n \in 1..Cardinality(B)
  PROVE  \E i \in B : Rank(B, i) = n - 1
<1> DEFINE m == Cardinality(B)
           r == [i \in B |-> Rank(B, i) + 1]
<1>1. m \in Nat
  BY FS_CardinalityType
<1>2. IsFiniteSet(1..m) /\ Cardinality(1..m) = m
  BY <1>1, FS_Interval
<1>3. \A i \in B : Rank(B, i) \in 0..(m - 1)
  BY RankType
<1>4. r \in [B -> 1..m]
  BY <1>1, <1>3
<1>5. \A i, k \in B : r[i] = r[k] => i = k
  <2> TAKE i \in B, k \in B
  <2> HAVE r[i] = r[k]
  <2>1. Rank(B, i) = Rank(B, k)
    BY <1>1, <1>3
  <2> QED
    BY <2>1, RankOnce
<1> HIDE DEF m
<1>6. r \in Injection(B, 1..m)
  <2> HIDE DEF r
  <2> QED
    BY <1>4, <1>5 DEF Injection, IsInjective
<1>7. r \in Surjection(B, 1..m)
  <2> HIDE DEF r
  <2>1. Cardinality(B) = Cardinality(1..m)
    BY <1>2 DEF m
  <2> QED
    BY <1>2, <1>6, <2>1, FS_Injection
<1>8. n \in 1..m
  BY DEF m
<1>9. \E i \in B : r[i] = n
  BY <1>7, <1>8 DEF Surjection
<1>10. PICK i \in B : r[i] = n
  BY <1>9
<1>11. Rank(B, i) + 1 = n /\ Rank(B, i) \in Int
  BY <1>1, <1>3, <1>10
<1> QED
  BY <1>11

\* A set of positions has a least and a last member.
LEMMA LeastAndLast ==
  ASSUME NEW B \in SUBSET Nat, IsFiniteSet(B), B # {}
  PROVE  /\ \E i \in B : \A j \in B : i <= j
         /\ \E i \in B : \A j \in B : j <= i
<1> DEFINE m == Cardinality(B)
<1>1. m \in Nat /\ m # 0
  BY FS_CardinalityType, FS_EmptySet
<1>2. \A i \in B : i \in Nat /\ Rank(B, i) \in 0..(m - 1)
  BY RankType
<1>3. \A i, j \in B : i < j => Rank(B, i) < Rank(B, j)
  BY RankGrows
<1>4. \E i \in B : Rank(B, i) = 0
  <2>1. 1 \in 1..m /\ 1 - 1 = 0
    BY <1>1
  <2>2. \E i \in B : Rank(B, i) = 1 - 1
    BY <2>1, RankOnto
  <2> QED
    BY <2>1, <2>2
<1>5. \E i \in B : Rank(B, i) = m - 1
  <2>1. m \in 1..m
    BY <1>1
  <2> QED
    BY <2>1, RankOnto
<1> HIDE DEF m
<1>6. \E i \in B : \A j \in B : i <= j
  BY <1>1, <1>2, <1>3, <1>4
<1>7. \E i \in B : \A j \in B : j <= i
  BY <1>1, <1>2, <1>3, <1>5
<1> QED
  BY <1>6, <1>7
=============================================================================
