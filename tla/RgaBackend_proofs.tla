-------------------------- MODULE RgaBackend_proofs --------------------------
(***************************************************************************)
(* Proofs about RgaBackend, for any set of users, tuples, descriptors,     *)
(* buffers and frames, any cache size, threshold and interval.             *)
(*                                                                         *)
(* First the handle caches: what each operation of a cache does to the     *)
(* users of an identifier and to the buffer it stands for, then the        *)
(* invariant that the users of every entry are the leases on it.  Then the *)
(* tuple table: how often submissions that overlap can have a tuple        *)
(* refused in a row.                                                       *)
(***************************************************************************)
EXTENDS RgaBackend, Integers, FiniteSetTheorems, SequenceLemmas, TLAPS

-----------------------------------------------------------------------------
(* What an invariant says of one cache *)

Ids == 0..CacheMax

Entry == [id : 1..CacheMax, fd : Fds, ident : Idents, users : Nat, retired : BOOLEAN]

OneEach(q) == \A i, j \in DOMAIN q : q[i].id = q[j].id => i = j

OneLive(q) == \A i, j \in DOMAIN q : q[i].fd = q[j].fd /\ i # j => q[i].retired \/ q[j].retired

Sound(q) == q \in Seq(Entry) /\ Len(q) <= CacheMax /\ OneEach(q) /\ OneLive(q)

Has(q, id) == \E i \in DOMAIN q : q[i].id = id

\* The users of an identifier: none when no entry has it.
UsersOf(q, id) == IF Has(q, id) THEN q[CHOOSE i \in DOMAIN q : q[i].id = id].users ELSE 0

\* The identifier is an import of the buffer b says is behind the number.
Carries(q, id, fd, b) ==
  \E i \in DOMAIN q : q[i].id = id /\ q[i].fd = fd /\ q[i].ident = b[fd]

Live(q, fd) == \E i \in DOMAIN q : q[i].fd = fd /\ ~q[i].retired

LEMMA UsersAt ==
  ASSUME NEW q, OneEach(q), NEW i \in DOMAIN q
  PROVE  UsersOf(q, q[i].id) = q[i].users
<1>1. Has(q, q[i].id)
  BY DEF Has
<1> DEFINE c == CHOOSE k \in DOMAIN q : q[k].id = q[i].id
<1>2. c \in DOMAIN q /\ q[c].id = q[i].id
  OBVIOUS
<1>3. c = i
  BY <1>2 DEF OneEach
<1> QED
  BY <1>1, <1>3 DEF UsersOf

LEMMA UsersNat ==
  ASSUME NEW q \in Seq(Entry), NEW id
  PROVE  UsersOf(q, id) \in Nat
<1>1. CASE Has(q, id)
  <2> DEFINE c == CHOOSE k \in DOMAIN q : q[k].id = id
  <2>1. c \in DOMAIN q
    BY <1>1 DEF Has
  <2>2. q[c] \in Entry
    BY <2>1
  <2> QED
    BY <1>1, <2>2 DEF UsersOf, Entry
<1>2. CASE ~Has(q, id)
  BY <1>2 DEF UsersOf
<1> QED
  BY <1>1, <1>2

LEMMA UsersNone ==
  ASSUME NEW q, NEW id, ~Has(q, id)
  PROVE  UsersOf(q, id) = 0
BY DEF UsersOf

-----------------------------------------------------------------------------
(* Sequences *)

LEMMA Concatenated ==
  ASSUME NEW S, NEW s \in Seq(S), NEW t \in Seq(S)
  PROVE  s \o t \in Seq(S) /\ Len(s \o t) = Len(s) + Len(t)
OBVIOUS

LEMMA RemoveAtDoes ==
  ASSUME NEW S, NEW s \in Seq(S), NEW i \in 1..Len(s)
  PROVE  /\ RemoveAt(s, i) \in Seq(S)
         /\ Len(RemoveAt(s, i)) = Len(s) - 1
         /\ \A j \in 1..(Len(s) - 1) : RemoveAt(s, i)[j] = IF j < i THEN s[j] ELSE s[j + 1]
<1> DEFINE a == SubSeq(s, 1, i - 1)
           b == SubSeq(s, i + 1, Len(s))
<1>1. a \in Seq(S) /\ Len(a) = i - 1 /\ \A j \in 1..(i - 1) : a[j] = s[j]
  OBVIOUS
<1>2. b \in Seq(S) /\ Len(b) = Len(s) - i /\ \A j \in 1..(Len(s) - i) : b[j] = s[i + j]
  OBVIOUS
<1>3. RemoveAt(s, i) = a \o b
  BY DEF RemoveAt
<1> HIDE DEF a, b
<1>4. a \o b \in Seq(S) /\ Len(a \o b) = Len(s) - 1
  <2>1. a \o b \in Seq(S) /\ Len(a \o b) = Len(a) + Len(b)
    BY <1>1, <1>2, Concatenated
  <2>2. Len(s) \in Nat /\ i \in Nat
    OBVIOUS
  <2> QED
    BY <1>1, <1>2, <2>1, <2>2
<1>5. ASSUME NEW j \in 1..(Len(s) - 1)
      PROVE  (a \o b)[j] = IF j < i THEN s[j] ELSE s[j + 1]
  <2>1. (a \o b)[j] = IF j <= Len(a) THEN a[j] ELSE b[j - Len(a)]
    BY <1>1, <1>2
  <2>2. CASE j < i
    BY <2>1, <2>2, <1>1
  <2>3. CASE j >= i
    <3>1. j - (i - 1) \in 1..(Len(s) - i) /\ i + (j - (i - 1)) = j + 1
      BY <2>3
    <3>2. b[j - (i - 1)] = s[j + 1]
      BY <3>1, <1>2
    <3>3. Len(a) = i - 1 /\ ~(j <= i - 1) /\ ~(j < i)
      BY <2>3, <1>1
    <3> QED
      BY <2>1, <3>2, <3>3
  <2>4. j \in Nat /\ i \in Nat
    OBVIOUS
  <2>5. j < i \/ j >= i
    BY <2>4
  <2> QED
    BY <2>2, <2>3, <2>5
<1> QED
  BY <1>3, <1>4, <1>5

-----------------------------------------------------------------------------
(* What the operations on a cache do *)

\* Retiring a number changes no entry's users, and leaves none live for it.
LEMMA RetireDoes ==
  ASSUME NEW q, Sound(q), NEW fd \in Fds
  PROVE  /\ Sound(RetireFd(q, fd))
         /\ Len(RetireFd(q, fd)) = Len(q)
         /\ ~Live(RetireFd(q, fd), fd)
         /\ \A id : UsersOf(RetireFd(q, fd), id) = UsersOf(q, id)
         /\ \A id, f, b : Carries(q, id, f, b) => Carries(RetireFd(q, fd), id, f, b)
<1> DEFINE r == RetireFd(q, fd)
<1>1. DOMAIN r = DOMAIN q /\ \A i \in DOMAIN q : /\ r[i].id = q[i].id /\ r[i].fd = q[i].fd
                                                 /\ r[i].ident = q[i].ident
                                                 /\ r[i].users = q[i].users
                                                 /\ r[i].retired = (q[i].retired \/ q[i].fd = fd)
                                                 /\ r[i] \in Entry
  <2>1. \A i \in DOMAIN q : q[i] \in Entry
    BY DEF Sound
  <2> QED
    BY <2>1 DEF RetireFd, Entry
<1>2. r \in Seq(Entry) /\ Len(r) = Len(q)
  <2>1. DOMAIN q = 1..Len(q) /\ Len(q) \in Nat
    BY DEF Sound
  <2>2. r = [i \in 1..Len(q) |-> r[i]]
    BY <2>1 DEF RetireFd
  <2> QED
    BY <2>1, <2>2, <1>1
<1> HIDE DEF r
<1>3. OneEach(r)
  BY <1>1 DEF OneEach, Sound
<1>4. OneLive(r)
  BY <1>1 DEF OneLive, Sound
<1>5. Sound(r)
  BY <1>2, <1>3, <1>4 DEF Sound
<1>6. ~Live(r, fd)
  BY <1>1 DEF Live
<1>7. ASSUME NEW id PROVE UsersOf(r, id) = UsersOf(q, id)
  <2>1. CASE Has(q, id)
    <3>1. PICK i \in DOMAIN q : q[i].id = id
      BY <2>1 DEF Has
    <3>2. UsersOf(q, id) = q[i].users
      BY <3>1, UsersAt DEF Sound
    <3>3. i \in DOMAIN r /\ r[i].id = id /\ r[i].users = q[i].users
      BY <3>1, <1>1
    <3>4. UsersOf(r, id) = r[i].users
      BY <3>3, <1>3, UsersAt
    <3> QED
      BY <3>2, <3>3, <3>4
  <2>2. CASE ~Has(q, id)
    <3>1. ~Has(r, id)
      BY <2>2, <1>1 DEF Has
    <3> QED
      BY <2>2, <3>1, UsersNone
  <2> QED
    BY <2>1, <2>2
<1>8. ASSUME NEW id, NEW f, NEW b, Carries(q, id, f, b) PROVE Carries(r, id, f, b)
  BY <1>8, <1>1 DEF Carries
<1> QED
  BY <1>2, <1>5, <1>6, <1>7, <1>8 DEF r

\* Taking an entry out takes its users, and nothing of the others.
LEMMA RemoveDoes ==
  ASSUME NEW q, Sound(q), NEW i \in DOMAIN q
  PROVE  /\ Sound(RemoveAt(q, i))
         /\ Len(RemoveAt(q, i)) = Len(q) - 1
         /\ ~Has(RemoveAt(q, i), q[i].id)
         /\ \A fd : Live(RemoveAt(q, i), fd) => \E k \in DOMAIN q : k # i /\ q[k].fd = fd /\ ~q[k].retired
         /\ \A id : id # q[i].id => UsersOf(RemoveAt(q, i), id) = UsersOf(q, id)
         /\ \A id, f, b : id # q[i].id /\ Carries(q, id, f, b) => Carries(RemoveAt(q, i), id, f, b)
<1> DEFINE r == RemoveAt(q, i)
           From(j) == IF j < i THEN j ELSE j + 1
<1>1. q \in Seq(Entry) /\ Len(q) \in Nat /\ DOMAIN q = 1..Len(q) /\ Len(q) <= CacheMax
      /\ OneEach(q) /\ OneLive(q)
  BY DEF Sound
<1>2. r \in Seq(Entry) /\ Len(r) = Len(q) - 1
      /\ \A j \in 1..(Len(q) - 1) : r[j] = IF j < i THEN q[j] ELSE q[j + 1]
  BY <1>1, RemoveAtDoes
<1>3. DOMAIN r = 1..(Len(q) - 1)
  BY <1>1, <1>2
<1> HIDE DEF r
<1>4. \A j \in DOMAIN r : From(j) \in DOMAIN q /\ From(j) # i /\ r[j] = q[From(j)]
  BY <1>1, <1>2, <1>3
<1>5. \A j, k \in DOMAIN r : From(j) = From(k) => j = k
  BY <1>1, <1>3
<1>6. \A k \in DOMAIN q : k # i => \E j \in DOMAIN r : From(j) = k
  <2> TAKE k \in DOMAIN q
  <2> HAVE k # i
  <2>1. CASE k < i
    <3>1. k \in DOMAIN r /\ From(k) = k
      BY <1>1, <1>3, <2>1
    <3> QED
      BY <3>1
  <2>2. CASE k > i
    <3>1. k - 1 \in DOMAIN r /\ From(k - 1) = k
      BY <1>1, <1>3, <2>2
    <3> QED
      BY <3>1
  <2> QED
    BY <1>1, <2>1, <2>2
<1> HIDE DEF From
<1>7. OneEach(r)
  BY <1>1, <1>4, <1>5 DEF OneEach
<1>8. OneLive(r)
  BY <1>1, <1>4, <1>5 DEF OneLive
<1>9. Sound(r)
  BY <1>1, <1>2, <1>7, <1>8, CacheAssumption DEF Sound
<1>10. ~Has(r, q[i].id)
  BY <1>1, <1>4 DEF Has, OneEach
<1>11. ASSUME NEW fd, Live(r, fd) PROVE \E k \in DOMAIN q : k # i /\ q[k].fd = fd /\ ~q[k].retired
  BY <1>11, <1>4 DEF Live
<1>12. ASSUME NEW id, id # q[i].id PROVE UsersOf(r, id) = UsersOf(q, id)
  <2>1. CASE Has(q, id)
    <3>1. PICK k \in DOMAIN q : q[k].id = id
      BY <2>1 DEF Has
    <3>2. UsersOf(q, id) = q[k].users
      BY <3>1, <1>1, UsersAt
    <3>3. PICK j \in DOMAIN r : From(j) = k
      BY <3>1, <1>6, <1>12
    <3>4. r[j] = q[k]
      BY <3>3, <1>4
    <3>5. UsersOf(r, r[j].id) = r[j].users
      BY <1>7, UsersAt
    <3> QED
      BY <3>1, <3>2, <3>4, <3>5
  <2>2. CASE ~Has(q, id)
    <3>1. ~Has(r, id)
      BY <2>2, <1>4 DEF Has
    <3> QED
      BY <2>2, <3>1, UsersNone
  <2> QED
    BY <2>1, <2>2
<1>13. ASSUME NEW id, NEW f, NEW b, id # q[i].id, Carries(q, id, f, b) PROVE Carries(r, id, f, b)
  <2>1. PICK k \in DOMAIN q : q[k].id = id /\ q[k].fd = f /\ q[k].ident = b[f]
    BY <1>13 DEF Carries
  <2>2. PICK j \in DOMAIN r : From(j) = k
    BY <2>1, <1>6, <1>13
  <2> QED
    BY <2>1, <2>2, <1>4 DEF Carries
<1> QED
  BY <1>2, <1>9, <1>10, <1>11, <1>12, <1>13 DEF r

\* A new entry brings its users; the others keep theirs.
LEMMA AppendDoes ==
  ASSUME NEW q, Sound(q), NEW e \in Entry, Len(q) < CacheMax, ~Has(q, e.id), ~Live(q, e.fd)
  PROVE  /\ Sound(Append(q, e))
         /\ \A id : UsersOf(Append(q, e), id) = IF id = e.id THEN e.users ELSE UsersOf(q, id)
         /\ \A id, f, b : Carries(q, id, f, b) => Carries(Append(q, e), id, f, b)
         /\ \A b : e.ident = b[e.fd] => Carries(Append(q, e), e.id, e.fd, b)
<1> DEFINE r == Append(q, e)
           n == Len(q) + 1
<1>1. q \in Seq(Entry) /\ Len(q) \in Nat /\ DOMAIN q = 1..Len(q) /\ OneEach(q) /\ OneLive(q)
  BY DEF Sound
<1>2. r \in Seq(Entry) /\ Len(r) = n /\ DOMAIN r = 1..n /\ r[n] = e
      /\ \A i \in DOMAIN q : r[i] = q[i]
  BY <1>1
<1>3. n \in DOMAIN r /\ n \notin DOMAIN q /\ DOMAIN q \subseteq DOMAIN r
      /\ \A i \in DOMAIN r : i \in DOMAIN q \/ i = n
  BY <1>1, <1>2
<1>4. n <= CacheMax
  BY <1>1, CacheAssumption
<1> HIDE DEF r, n
<1>5. OneEach(r)
  BY <1>1, <1>2, <1>3 DEF OneEach, Has
<1>6. OneLive(r)
  BY <1>1, <1>2, <1>3 DEF OneLive, Live
<1>7. Sound(r)
  BY <1>2, <1>4, <1>5, <1>6 DEF Sound
<1>8. ASSUME NEW id PROVE UsersOf(r, id) = IF id = e.id THEN e.users ELSE UsersOf(q, id)
  <2>1. CASE id = e.id
    <3>1. UsersOf(r, r[n].id) = r[n].users
      BY <1>3, <1>5, UsersAt
    <3> QED
      BY <3>1, <1>2, <2>1
  <2>2. CASE id # e.id /\ Has(q, id)
    <3>1. PICK k \in DOMAIN q : q[k].id = id
      BY <2>2 DEF Has
    <3>2. UsersOf(q, q[k].id) = q[k].users
      BY <1>1, UsersAt
    <3>3. k \in DOMAIN r /\ r[k] = q[k]
      BY <1>2, <1>3
    <3>4. UsersOf(r, r[k].id) = r[k].users
      BY <3>3, <1>5, UsersAt
    <3> QED
      BY <3>1, <3>2, <3>3, <3>4, <2>2
  <2>3. CASE id # e.id /\ ~Has(q, id)
    <3>1. ~Has(r, id)
      BY <2>3, <1>2, <1>3 DEF Has
    <3> QED
      BY <2>3, <3>1, UsersNone
  <2> QED
    BY <2>1, <2>2, <2>3
<1>9. ASSUME NEW id, NEW f, NEW b, Carries(q, id, f, b) PROVE Carries(r, id, f, b)
  BY <1>9, <1>2, <1>3 DEF Carries
<1>10. ASSUME NEW b, e.ident = b[e.fd] PROVE Carries(r, e.id, e.fd, b)
  BY <1>10, <1>2, <1>3 DEF Carries
<1> QED
  BY <1>7, <1>8, <1>9, <1>10 DEF r

-----------------------------------------------------------------------------
(* Counting: a set of numbers is enumerated by the ranks of its members *)

LEMMA UpTo ==
  ASSUME NEW n \in Nat
  PROVE  IsFiniteSet(1..n) /\ Cardinality(1..n) = n
BY FS_Interval

-----------------------------------------------------------------------------
(* Leases *)

Pairs == {<<>>} \cup {<<a, b>> : a \in Ids, b \in Ids}

LEMMA CountNone ==
  ASSUME NEW id
  PROVE  Count(<<>>, id) = 0
<1>1. {j \in DOMAIN <<>> : (<<>>)[j] = id} = {}
  OBVIOUS
<1> QED
  BY <1>1, FS_EmptySet DEF Count

LEMMA CountPair ==
  ASSUME NEW a, NEW b, NEW id
  PROVE  Count(<<a, b>>, id) = (IF a = id THEN 1 ELSE 0) + (IF b = id THEN 1 ELSE 0)
<1> DEFINE C == {j \in DOMAIN <<a, b>> : <<a, b>>[j] = id}
<1>1. C = (IF a = id THEN {1} ELSE {}) \cup (IF b = id THEN {2} ELSE {})
  OBVIOUS
<1>2. Cardinality({}) = 0 /\ Cardinality({1}) = 1 /\ Cardinality({2}) = 1
      /\ Cardinality({1} \cup {2}) = 2
  <2>1. IsFiniteSet({1}) /\ Cardinality({1}) = 1 /\ Cardinality({2}) = 1
    BY FS_Singleton
  <2>2. Cardinality({1} \cup {2}) = Cardinality({1}) + 1
    BY <2>1, FS_AddElement
  <2> QED
    BY <2>1, <2>2, FS_EmptySet
<1>3. Cardinality(C) = (IF a = id THEN 1 ELSE 0) + (IF b = id THEN 1 ELSE 0)
  <2> HIDE DEF C
  <2>1. CASE a = id /\ b = id
    BY <1>1, <1>2, <2>1
  <2>2. CASE a = id /\ b # id
    <3>1. C = {1}
      BY <1>1, <2>2
    <3> QED
      BY <3>1, <1>2, <2>2
  <2>3. CASE a # id /\ b = id
    <3>1. C = {2}
      BY <1>1, <2>3
    <3> QED
      BY <3>1, <1>2, <2>3
  <2>4. CASE a # id /\ b # id
    <3>1. C = {}
      BY <1>1, <2>4
    <3> QED
      BY <3>1, <1>2, <2>4
  <2> QED
    BY <2>1, <2>2, <2>3, <2>4
<1> QED
  BY <1>3 DEF Count

LEMMA CountType ==
  ASSUME NEW ls \in Pairs, NEW id
  PROVE  Count(ls, id) \in 0..2
<1>1. CASE ls = <<>>
  BY <1>1, CountNone
<1>2. CASE ls # <<>>
  <2>1. PICK a \in Ids, b \in Ids : ls = <<a, b>>
    BY <1>2 DEF Pairs
  <2> QED
    BY <2>1, CountPair
<1> QED
  BY <1>1, <1>2

\* Giving leases back takes them from the users and leaves the rest.
LEMMA PutDoes ==
  ASSUME NEW q, Sound(q), NEW ls \in Pairs,
         \A id \in 1..CacheMax : Count(ls, id) <= UsersOf(q, id)
  PROVE  /\ Sound(Put(q, ls))
         /\ \A id \in 1..CacheMax : UsersOf(Put(q, ls), id) = UsersOf(q, id) - Count(ls, id)
         /\ \A id, f, b : Carries(q, id, f, b) => Carries(Put(q, ls), id, f, b)
<1> DEFINE r == Put(q, ls)
<1>1. q \in Seq(Entry) /\ Len(q) \in Nat /\ DOMAIN q = 1..Len(q) /\ Len(q) <= CacheMax
      /\ OneEach(q) /\ OneLive(q)
  BY DEF Sound
<1>2. ASSUME NEW i \in DOMAIN q
      PROVE  /\ q[i] \in Entry /\ q[i].id \in 1..CacheMax
             /\ q[i].users - Count(ls, q[i].id) \in Nat
  <2>1. q[i] \in Entry
    BY <1>1
  <2>2. q[i].id \in 1..CacheMax /\ q[i].users \in Nat
    BY <2>1 DEF Entry
  <2>3. UsersOf(q, q[i].id) = q[i].users
    BY <1>1, UsersAt
  <2>4. Count(ls, q[i].id) \in 0..2 /\ Count(ls, q[i].id) <= q[i].users
    BY <2>2, <2>3, CountType
  <2> QED
    BY <2>1, <2>2, <2>4
<1>3. DOMAIN r = DOMAIN q /\ \A i \in DOMAIN q : /\ r[i].id = q[i].id /\ r[i].fd = q[i].fd
                                                 /\ r[i].ident = q[i].ident
                                                 /\ r[i].users = q[i].users - Count(ls, q[i].id)
                                                 /\ r[i].retired = q[i].retired
                                                 /\ r[i] \in Entry
  <2>1. DOMAIN r = DOMAIN q
    BY DEF Put
  <2>2. ASSUME NEW i \in DOMAIN q
        PROVE  /\ r[i].id = q[i].id /\ r[i].fd = q[i].fd
               /\ r[i].ident = q[i].ident
               /\ r[i].users = q[i].users - Count(ls, q[i].id)
               /\ r[i].retired = q[i].retired
               /\ r[i] \in Entry
    <3> DEFINE n == q[i].users - Count(ls, q[i].id)
    <3>1. n \in Nat /\ q[i] \in Entry
      BY <1>2
    <3>2. r[i] = [q[i] EXCEPT !.users = n]
      BY DEF Put
    <3> HIDE DEF n, r
    <3>3. r[i].id = q[i].id /\ r[i].fd = q[i].fd /\ r[i].ident = q[i].ident
          /\ r[i].users = n /\ r[i].retired = q[i].retired /\ r[i] \in Entry
      BY <3>1, <3>2 DEF Entry
    <3> QED
      BY <3>3 DEF n
  <2> HIDE DEF r
  <2> QED
    BY <2>1, <2>2
<1>4. r \in Seq(Entry) /\ Len(r) = Len(q)
  <2>2. r = [i \in 1..Len(q) |-> r[i]]
    BY <1>1 DEF Put
  <2> HIDE DEF r
  <2> QED
    BY <1>1, <2>2, <1>3
<1> HIDE DEF r
<1>5. OneEach(r)
  BY <1>1, <1>3 DEF OneEach
<1>6. OneLive(r)
  BY <1>1, <1>3 DEF OneLive
<1>7. Sound(r)
  BY <1>1, <1>4, <1>5, <1>6 DEF Sound
<1>8. ASSUME NEW id \in 1..CacheMax PROVE UsersOf(r, id) = UsersOf(q, id) - Count(ls, id)
  <2>1. CASE Has(q, id)
    <3>1. PICK i \in DOMAIN q : q[i].id = id
      BY <2>1 DEF Has
    <3>2. UsersOf(q, id) = q[i].users
      BY <3>1, <1>1, UsersAt
    <3>3. i \in DOMAIN r /\ r[i].id = id /\ r[i].users = q[i].users - Count(ls, id)
      BY <3>1, <1>3
    <3>4. UsersOf(r, r[i].id) = r[i].users
      BY <3>3, <1>5, UsersAt
    <3> QED
      BY <3>2, <3>3, <3>4
  <2>2. CASE ~Has(q, id)
    <3>1. ~Has(r, id)
      BY <2>2, <1>3 DEF Has
    <3>2. UsersOf(q, id) = 0 /\ UsersOf(r, id) = 0
      BY <2>2, <3>1, UsersNone
    <3>3. Count(ls, id) \in 0..2 /\ Count(ls, id) <= 0
      BY <3>2, CountType
    <3> QED
      BY <3>2, <3>3
  <2> QED
    BY <2>1, <2>2
<1>9. ASSUME NEW id, NEW f, NEW b, Carries(q, id, f, b) PROVE Carries(r, id, f, b)
  BY <1>9, <1>3 DEF Carries
<1> QED
  BY <1>7, <1>8, <1>9 DEF r

\* Clearing keeps what is in use.
LEMMA ClearedDoes ==
  ASSUME NEW q, Sound(q)
  PROVE  Sound(Cleared(q)) /\ \A id : UsersOf(Cleared(q), id) = UsersOf(q, id)
<1> DEFINE r == Cleared(q)
           B == Busy(q)
           m == Cardinality(B)
<1>1. q \in Seq(Entry) /\ Len(q) \in Nat /\ DOMAIN q = 1..Len(q) /\ Len(q) <= CacheMax
      /\ OneEach(q) /\ OneLive(q)
  BY DEF Sound
<1>2. B \in SUBSET (1..Len(q)) /\ B \in SUBSET Nat
  BY <1>1 DEF Busy
<1>3. IsFiniteSet(B) /\ m \in Nat /\ m <= Len(q)
  <2>1. IsFiniteSet(1..Len(q)) /\ Cardinality(1..Len(q)) = Len(q)
    BY <1>1, FS_Interval
  <2>2. IsFiniteSet(B) /\ Cardinality(B) <= Cardinality(1..Len(q))
    BY <1>2, <2>1, FS_Subset
  <2> QED
    BY <2>1, <2>2, FS_CardinalityType
<1>4. ASSUME NEW n \in 1..m
      PROVE  NthBusy(q, n) \in B /\ Rank(B, NthBusy(q, n)) = n - 1
  <2>1. \E i \in B : Rank(B, i) = n - 1
    BY <1>2, <1>3, RankOnto
  <2>2. NthBusy(q, n) = CHOOSE i \in B : Rank(B, i) = n - 1
    BY DEF NthBusy, Rank
  <2> HIDE DEF B, m
  <2> QED
    BY <2>1, <2>2
<1>5. ASSUME NEW n \in 1..m, NEW k \in 1..m, NthBusy(q, n) = NthBusy(q, k) PROVE n = k
  <2>1. Rank(B, NthBusy(q, n)) = n - 1 /\ Rank(B, NthBusy(q, k)) = k - 1
    BY <1>4
  <2> HIDE DEF B, m
  <2>2. n - 1 = k - 1 /\ n \in Int /\ k \in Int
    BY <2>1, <1>5, <1>3
  <2> QED
    BY <2>2
<1>6. ASSUME NEW i \in B PROVE \E n \in 1..m : NthBusy(q, n) = i
  <2> DEFINE n == Rank(B, i) + 1
  <2>1. Rank(B, i) \in 0..(m - 1)
    BY <1>2, <1>3, RankType
  <2>2. n \in 1..m /\ n - 1 = Rank(B, i)
    BY <2>1, <1>3
  <2>3. NthBusy(q, n) \in B /\ Rank(B, NthBusy(q, n)) = Rank(B, i)
    BY <2>2, <1>4
  <2>4. NthBusy(q, n) = i
    BY <1>2, <1>3, <2>3, RankOnce
  <2> QED
    BY <2>2, <2>4
<1>7. DOMAIN r = 1..m /\ \A n \in 1..m : r[n] = [q[NthBusy(q, n)] EXCEPT !.retired = TRUE]
  BY DEF Cleared
<1>8. ASSUME NEW n \in 1..m
      PROVE  LET e == q[NthBusy(q, n)]
             IN  /\ NthBusy(q, n) \in DOMAIN q
                 /\ r[n].id = e.id /\ r[n].users = e.users /\ r[n].retired /\ r[n] \in Entry
  <2> DEFINE k == NthBusy(q, n)
  <2>1. k \in DOMAIN q
    BY <1>1, <1>2, <1>4
  <2>2. q[k] \in Entry
    BY <1>1, <2>1
  <2>3. r[n] = [q[k] EXCEPT !.retired = TRUE]
    BY <1>7
  <2> HIDE DEF k, r
  <2>4. r[n].id = q[k].id /\ r[n].users = q[k].users /\ r[n].retired /\ r[n] \in Entry
    BY <2>2, <2>3 DEF Entry
  <2> QED
    BY <2>1, <2>4 DEF k
<1>9. r \in Seq(Entry) /\ Len(r) = m
  <2>2. r = [n \in 1..m |-> r[n]]
    BY DEF Cleared
  <2> HIDE DEF r, m
  <2>3. \A n \in 1..m : r[n] \in Entry
    BY <1>8
  <2> QED
    BY <1>3, <2>2, <2>3
<1>10. \A i \in DOMAIN q : i \notin B => q[i].users = 0
  BY DEF Busy, IdleAt
<1> HIDE DEF r, B, m
<1>11. OneEach(r)
  <2> SUFFICES ASSUME NEW n \in 1..m, NEW k \in 1..m, r[n].id = r[k].id PROVE n = k
    BY <1>7 DEF OneEach
  <2>1. NthBusy(q, n) = NthBusy(q, k)
    BY <1>1, <1>8 DEF OneEach
  <2> QED
    BY <2>1, <1>5
<1>12. OneLive(r)
  BY <1>7, <1>8 DEF OneLive
<1>13. Sound(r)
  BY <1>1, <1>3, <1>9, <1>11, <1>12, CacheAssumption DEF Sound
<1>14. ASSUME NEW id PROVE UsersOf(r, id) = UsersOf(q, id)
  <2>1. CASE Has(r, id)
    <3>1. PICK n \in DOMAIN r : r[n].id = id
      BY <2>1 DEF Has
    <3>2. UsersOf(r, id) = r[n].users
      BY <3>1, <1>11, UsersAt
    <3>3. NthBusy(q, n) \in DOMAIN q /\ q[NthBusy(q, n)].id = id /\ r[n].users = q[NthBusy(q, n)].users
      BY <3>1, <1>7, <1>8
    <3>4. UsersOf(q, q[NthBusy(q, n)].id) = q[NthBusy(q, n)].users
      BY <3>3, <1>1, UsersAt
    <3> QED
      BY <3>2, <3>3, <3>4
  <2>2. CASE ~Has(r, id) /\ Has(q, id)
    <3>1. PICK i \in DOMAIN q : q[i].id = id
      BY <2>2 DEF Has
    <3>2. i \notin B
      <4>1. SUFFICES ASSUME i \in B PROVE FALSE
        OBVIOUS
      <4>2. PICK n \in 1..m : NthBusy(q, n) = i
        BY <4>1, <1>6
      <4>3. r[n].id = id /\ n \in DOMAIN r
        BY <4>2, <1>7, <1>8, <3>1
      <4> QED
        BY <4>3, <2>2 DEF Has
    <3>3. UsersOf(q, q[i].id) = q[i].users
      BY <1>1, UsersAt
    <3>4. UsersOf(q, id) = 0
      BY <3>1, <3>2, <3>3, <1>10
    <3> QED
      BY <3>4, <2>2, UsersNone
  <2>3. CASE ~Has(r, id) /\ ~Has(q, id)
    BY <2>3, UsersNone
  <2> QED
    BY <2>1, <2>2, <2>3
<1> QED
  BY <1>13, <1>14 DEF r

\* The entry that makes room has no user.
LEMMA VictimIdle ==
  ASSUME NEW q, Sound(q), NEW v \in Victims(q)
  PROVE  v \in DOMAIN q /\ q[v].users = 0
<1> DEFINE idle == {i \in DOMAIN q : IdleAt(q, i)}
           old == {i \in idle : q[i].retired}
           last == CHOOSE i \in old : \A j \in old : j <= i
           first == CHOOSE i \in idle : \A j \in idle : i <= j
<1>1. DOMAIN q = 1..Len(q) /\ Len(q) \in Nat /\ IsFiniteSet(1..Len(q))
  BY FS_Interval DEF Sound
<1>2. idle \in SUBSET (1..Len(q)) /\ old \in SUBSET (1..Len(q)) /\ 1..Len(q) \subseteq Nat
  BY <1>1
<1>3. IsFiniteSet(idle) /\ IsFiniteSet(old)
  BY <1>1, <1>2, FS_Subset
<1>4. old # {} => last \in old
  BY <1>2, <1>3, LeastAndLast
<1>5. idle # {} => first \in idle
  BY <1>2, <1>3, LeastAndLast
<1>6. \/ old # {} /\ v = last
      \/ old = {} /\ idle # {} /\ v = first
  BY DEF Victims
<1>7. v \in idle
  BY <1>4, <1>5, <1>6
<1> QED
  BY <1>7 DEF IdleAt

\* A cache below its bound has an identifier to give.
LEMMA FreeIdDoes ==
  ASSUME NEW q, Sound(q), Len(q) < CacheMax
  PROVE  FreeId(q) \in 1..CacheMax /\ ~Has(q, FreeId(q))
<1>1. Len(q) \in Nat /\ DOMAIN q = 1..Len(q)
  BY DEF Sound
<1>2. \E n \in 1..CacheMax : ~Has(q, n)
  <2> SUFFICES ASSUME \A n \in 1..CacheMax : Has(q, n) PROVE FALSE
    OBVIOUS
  <2> DEFINE at == [n \in 1..CacheMax |-> CHOOSE i \in DOMAIN q : q[i].id = n]
  <2>1. \A n \in 1..CacheMax : at[n] \in DOMAIN q /\ q[at[n]].id = n
    BY DEF Has
  <2>2. at \in [1..CacheMax -> 1..Len(q)]
    BY <1>1, <2>1
  <2>3. /\ IsFiniteSet(1..CacheMax) /\ Cardinality(1..CacheMax) = CacheMax
        /\ IsFiniteSet(1..Len(q)) /\ Cardinality(1..Len(q)) = Len(q)
    BY <1>1, UpTo, CacheAssumption
  <2> HIDE DEF at
  <2>4. PICK x \in 1..CacheMax, y \in 1..CacheMax : x # y /\ at[x] = at[y]
    BY <2>2, <2>3, FS_PigeonHole
  <2> QED
    BY <2>1, <2>4
<1> QED
  BY <1>2 DEF FreeId, Has

\* An import leaves a sound cache; its lease is one more user of an import of
\* the buffer that is behind the number, and no import in use is disturbed.
LEMMA ImportDoes ==
  ASSUME NEW q, Sound(q), NEW fd \in Fds, NEW works, behind \in [Fds -> Idents]
  PROVE  LET m == Import(q, fd, works)
         IN  /\ Sound(m.q)
             /\ m.id \in Ids
             /\ \A id \in 1..CacheMax :
                  UsersOf(m.q, id) = UsersOf(q, id) + (IF id = m.id THEN 1 ELSE 0)
             /\ m.id # NoLease => Carries(m.q, m.id, fd, behind)
             /\ \A id, f, b : UsersOf(q, id) # 0 /\ Carries(q, id, f, b) => Carries(m.q, id, f, b)
<1> DEFINE m == Import(q, fd, works)
<1>1. q \in Seq(Entry) /\ Len(q) \in Nat /\ DOMAIN q = 1..Len(q) /\ Len(q) <= CacheMax
      /\ OneEach(q) /\ OneLive(q)
  BY DEF Sound
<1>2. CASE Hits(q, fd) # {}
  <2> DEFINE i == CHOOSE i \in Hits(q, fd) : TRUE
             e == [q[i] EXCEPT !.users = @ + 1]
             p == RemoveAt(q, i)
  <2>1. i \in DOMAIN q /\ q[i].fd = fd /\ ~q[i].retired /\ q[i].ident = behind[fd]
    <3>1. i \in Hits(q, fd)
      BY <1>2
    <3> QED
      BY <3>1 DEF Hits
  <2>2. m = [q |-> Append(p, e), id |-> q[i].id]
    BY <1>2 DEF Import
  <2> HIDE DEF i, m
  <2>3. q[i] \in Entry
    BY <1>1, <2>1
  <2>4. e \in Entry /\ e.id = q[i].id /\ e.fd = fd /\ e.ident = behind[fd] /\ e.users = q[i].users + 1
        /\ e.id \in 1..CacheMax
    BY <2>1, <2>3 DEF Entry
  <2> HIDE DEF e
  <2>5. /\ Sound(p) /\ Len(p) = Len(q) - 1 /\ ~Has(p, e.id)
        /\ \A id : id # e.id => UsersOf(p, id) = UsersOf(q, id)
        /\ \A id, f, b : id # e.id /\ Carries(q, id, f, b) => Carries(p, id, f, b)
        /\ \A g : Live(p, g) => \E k \in DOMAIN q : k # i /\ q[k].fd = g /\ ~q[k].retired
    BY <2>1, <2>4, RemoveDoes
  <2> HIDE DEF p
  <2>6. ~Live(p, fd)
    BY <2>1, <2>5, <1>1 DEF OneLive
  <2>7. Len(p) < CacheMax
    BY <1>1, <2>5, CacheAssumption
  <2>8. /\ Sound(Append(p, e))
        /\ \A id : UsersOf(Append(p, e), id) = IF id = e.id THEN e.users ELSE UsersOf(p, id)
        /\ \A id, f, b : Carries(p, id, f, b) => Carries(Append(p, e), id, f, b)
        /\ \A b : e.ident = b[e.fd] => Carries(Append(p, e), e.id, e.fd, b)
    BY <2>4, <2>5, <2>6, <2>7, AppendDoes
  <2>9. UsersOf(q, e.id) = q[i].users
    BY <2>1, <2>4, <1>1, UsersAt
  <2>10. m.q = Append(p, e) /\ m.id = e.id
    BY <2>2, <2>4
  <2>11. m.id \in Ids
    BY <2>4, <2>10 DEF Ids
  <2>12. ASSUME NEW id \in 1..CacheMax
         PROVE  UsersOf(m.q, id) = UsersOf(q, id) + (IF id = m.id THEN 1 ELSE 0)
    <3>1. UsersOf(q, id) \in Nat
      BY <1>1, UsersNat
    <3> QED
      BY <3>1, <2>4, <2>5, <2>8, <2>9, <2>10
  <2>13. Carries(m.q, m.id, fd, behind)
    BY <2>4, <2>8, <2>10
  <2>14. ASSUME NEW id, NEW f, NEW b, Carries(q, id, f, b) PROVE Carries(m.q, id, f, b)
    <3>1. CASE id = e.id
      <4>1. PICK k \in DOMAIN q : q[k].id = id /\ q[k].fd = f /\ q[k].ident = b[f]
        BY <2>14 DEF Carries
      <4>2. k = i
        BY <4>1, <3>1, <2>1, <2>4, <1>1 DEF OneEach
      <4>3. e.fd = f /\ e.ident = b[f]
        BY <4>1, <4>2, <2>1, <2>4
      <4> QED
        BY <4>3, <3>1, <2>8, <2>10
    <3>2. CASE id # e.id
      BY <3>2, <2>14, <2>5, <2>8, <2>10
    <3> QED
      BY <3>1, <3>2
  <2> QED
    BY <2>8, <2>10, <2>11, <2>12, <2>13, <2>14 DEF m
<1>3. CASE Hits(q, fd) = {}
  <2> DEFINE stale == RetireFd(q, fd)
             v == CHOOSE i \in Victims(stale) : TRUE
             room == IF Victims(stale) = {} THEN stale ELSE RemoveAt(stale, v)
             id0 == FreeId(room)
             e == [id |-> id0, fd |-> fd, ident |-> behind[fd], users |-> 1, retired |-> FALSE]
  <2>1. m = IF Len(room) = CacheMax \/ ~works THEN [q |-> room, id |-> NoLease]
            ELSE [q |-> Append(room, e), id |-> id0]
    BY <1>3 DEF Import
  <2>2. /\ Sound(stale) /\ Len(stale) = Len(q) /\ ~Live(stale, fd)
        /\ \A id : UsersOf(stale, id) = UsersOf(q, id)
        /\ \A id, f, b : Carries(q, id, f, b) => Carries(stale, id, f, b)
    BY RetireDoes
  <2> HIDE DEF stale, m, e, id0
  <2>3. /\ Sound(room) /\ ~Live(room, fd)
        /\ \A id : UsersOf(room, id) = UsersOf(q, id)
        /\ \A id, f, b : UsersOf(q, id) # 0 /\ Carries(q, id, f, b) => Carries(room, id, f, b)
    <3>1. CASE Victims(stale) = {}
      BY <3>1, <2>2
    <3>2. CASE Victims(stale) # {}
      <4>1. v \in Victims(stale)
        BY <3>2
      <4>2. v \in DOMAIN stale /\ stale[v].users = 0
        BY <4>1, <2>2, VictimIdle
      <4>3. room = RemoveAt(stale, v)
        BY <3>2
      <4> HIDE DEF v, room
      <4>4. /\ Sound(room) /\ ~Has(room, stale[v].id)
            /\ \A g : Live(room, g) => \E k \in DOMAIN stale : k # v /\ stale[k].fd = g /\ ~stale[k].retired
            /\ \A id : id # stale[v].id => UsersOf(room, id) = UsersOf(stale, id)
            /\ \A id, f, b : id # stale[v].id /\ Carries(stale, id, f, b) => Carries(room, id, f, b)
        BY <4>2, <4>3, <2>2, RemoveDoes
      <4>5. UsersOf(stale, stale[v].id) = 0
        BY <4>2, <2>2, UsersAt DEF Sound
      <4>6. UsersOf(room, stale[v].id) = 0
        BY <4>4, UsersNone
      <4>7. ~Live(room, fd)
        BY <4>4, <2>2 DEF Live
      <4>8. \A id : UsersOf(room, id) = UsersOf(q, id)
        BY <4>4, <4>5, <4>6, <2>2
      <4>9. ASSUME NEW id, NEW f, NEW b, UsersOf(q, id) # 0, Carries(q, id, f, b) PROVE Carries(room, id, f, b)
        BY <4>9, <4>4, <4>5, <2>2
      <4> QED
        BY <4>4, <4>7, <4>8, <4>9
    <3> QED
      BY <3>1, <3>2
  <2> HIDE DEF room
  <2>4. CASE Len(room) = CacheMax \/ ~works
    <3>1. m.q = room /\ m.id = NoLease
      BY <2>1, <2>4
    <3>2. m.id \in Ids
      BY <3>1, CacheAssumption DEF NoLease, Ids
    <3>3. ASSUME NEW id \in 1..CacheMax
          PROVE  UsersOf(m.q, id) = UsersOf(q, id) + (IF id = m.id THEN 1 ELSE 0)
      <4>1. UsersOf(q, id) \in Nat /\ id # m.id
        BY <1>1, <3>1, UsersNat DEF NoLease
      <4> QED
        BY <4>1, <3>1, <2>3
    <3> QED
      BY <3>1, <3>2, <3>3, <2>3 DEF m
  <2>5. CASE ~(Len(room) = CacheMax \/ ~works)
    <3>1. m.q = Append(room, e) /\ m.id = id0
      BY <2>1, <2>5
    <3>2. Len(room) < CacheMax
      BY <2>3, <2>5, CacheAssumption DEF Sound
    <3>3. id0 \in 1..CacheMax /\ ~Has(room, id0)
      BY <2>3, <3>2, FreeIdDoes DEF id0
    <3>4. e \in Entry /\ e.id = id0 /\ e.fd = fd /\ e.ident = behind[fd] /\ e.users = 1
      BY <3>3 DEF e, Entry
    <3>5. /\ Sound(Append(room, e))
          /\ \A id : UsersOf(Append(room, e), id) = IF id = e.id THEN e.users ELSE UsersOf(room, id)
          /\ \A id, f, b : Carries(room, id, f, b) => Carries(Append(room, e), id, f, b)
          /\ \A b : e.ident = b[e.fd] => Carries(Append(room, e), e.id, e.fd, b)
      BY <2>3, <3>2, <3>3, <3>4, AppendDoes
    <3>6. UsersOf(room, id0) = 0
      BY <3>3, UsersNone
    <3>7. m.id \in Ids
      BY <3>1, <3>3 DEF Ids
    <3>8. ASSUME NEW id \in 1..CacheMax
          PROVE  UsersOf(m.q, id) = UsersOf(q, id) + (IF id = m.id THEN 1 ELSE 0)
      <4>1. UsersOf(q, id) \in Nat
        BY <1>1, UsersNat
      <4> QED
        BY <4>1, <3>1, <3>4, <3>5, <3>6, <2>3
    <3>9. Carries(m.q, m.id, fd, behind)
      BY <3>1, <3>4, <3>5
    <3>10. \A id, f, b : UsersOf(q, id) # 0 /\ Carries(q, id, f, b) => Carries(m.q, id, f, b)
      BY <3>1, <3>5, <2>3
    <3> QED
      BY <3>1, <3>5, <3>7, <3>8, <3>9, <3>10 DEF m
  <2> QED
    BY <2>4, <2>5
<1> QED
  BY <1>2, <1>3

-----------------------------------------------------------------------------
(* The invariant of leases *)

At == {"idle", "entered", "native", "over"}

Results == {"none", "unavailable", "demoted", "success", "lost", "unsupported", "failed"}

FdPairs == {<<>>} \cup {<<a, b>> : a \in Fds, b \in Fds}

Calls == [at : At, key : Keys \cup {"none"}, leases : Pairs, fds : FdPairs,
          frame : FrameIds \cup {"none"}, result : Results]

Frames == [user : Users \cup {"none"}, leases : Pairs, fds : FdPairs, busy : BOOLEAN]

Types ==
  /\ call \in [Users -> Calls]
  /\ frames \in [FrameIds -> Frames]
  /\ cache \in [Users -> Seq(Entry)]
  /\ behind \in [Fds -> Idents]

\* A call that is over leaves nothing; one under way has a tuple.
CallsTidy ==
  \A u \in Users : /\ call[u].at = "idle" => call[u] = NoCall
                   /\ call[u].at # "idle" => call[u].key \in Keys
                   /\ DOMAIN call[u].leases = DOMAIN call[u].fds

\* A frame in a call is the caller's; one of nobody is free.
FramesTidy ==
  /\ \A i \in FrameIds : frames[i].user = "none" => frames[i] = NoFrame
  /\ \A u \in Users : call[u].frame # "none" => frames[call[u].frame].user = u

CachesSound == \A u \in Users : Sound(cache[u])

Counted == \A u \in Users : \A id \in 1..CacheMax : UsersOf(cache[u], id) = Leased(u, id)

\* The handles of a call stand for the buffers behind its descriptors.
Current ==
  \A u \in Users : call[u].at \in {"entered", "native"} =>
    \A j \in DOMAIN call[u].leases :
      call[u].leases[j] # NoLease => Carries(cache[u], call[u].leases[j], call[u].fds[j], behind)

LeaseInv == Types /\ CallsTidy /\ FramesTidy /\ CachesSound /\ Counted /\ Current

FL(fr, u, id) ==
  {p \in FrameIds \X {1, 2} : fr[p[1]].user = u /\ p[2] \in DOMAIN fr[p[1]].leases
                                               /\ fr[p[1]].leases[p[2]] = id}

LEMMA LeasedBy ==
  /\ \A u, id : Leased(u, id) = (IF call[u].frame = "none" THEN Count(call[u].leases, id) ELSE 0)
                                + Cardinality(FL(frames, u, id))
  /\ \A u, id : Leased(u, id)' = (IF call'[u].frame = "none" THEN Count(call'[u].leases, id) ELSE 0)
                                 + Cardinality(FL(frames', u, id))
BY DEF Leased, FL, FrameLeases, Count

LEMMA PairDomain ==
  ASSUME NEW ls \in Pairs
  PROVE  DOMAIN ls \subseteq {1, 2}
<1>1. CASE ls = <<>>
  BY <1>1
<1>2. CASE ls # <<>>
  <2>1. PICK a \in Ids, b \in Ids : ls = <<a, b>>
    BY <1>2 DEF Pairs
  <2> QED
    BY <2>1
<1> QED
  BY <1>1, <1>2

LEMMA FLFinite ==
  ASSUME NEW fr, NEW u, NEW id
  PROVE  IsFiniteSet(FL(fr, u, id)) /\ Cardinality(FL(fr, u, id)) \in Nat
         /\ Cardinality(FL(fr, u, id)) <= 2 * Cardinality(FrameIds)
<1>1. IsFiniteSet({1, 2}) /\ Cardinality({1, 2}) = 2
  <2>1. {1, 2} = 1..2
    OBVIOUS
  <2> QED
    BY <2>1, UpTo
<1>2. IsFiniteSet(FrameIds \X {1, 2}) /\ Cardinality(FrameIds \X {1, 2}) = Cardinality(FrameIds) * 2
  BY <1>1, FS_Product, CacheAssumption
<1>3. FL(fr, u, id) \in SUBSET (FrameIds \X {1, 2})
  BY DEF FL
<1>4. IsFiniteSet(FL(fr, u, id)) /\ Cardinality(FL(fr, u, id)) <= Cardinality(FrameIds \X {1, 2})
  BY <1>2, <1>3, FS_Subset
<1>5. Cardinality(FL(fr, u, id)) \in Nat /\ Cardinality(FrameIds) \in Nat
  BY <1>4, FS_CardinalityType, CacheAssumption
<1> QED
  BY <1>2, <1>4, <1>5

\* A frame that has leases adds them to its user's.
LEMMA FLAdds ==
  ASSUME NEW fr, NEW gr, NEW i \in FrameIds, NEW u, NEW id,
         \A k \in FrameIds : k # i => gr[k] = fr[k],
         fr[i].leases = <<>>, gr[i].leases \in Pairs
  PROVE  Cardinality(FL(gr, u, id))
           = Cardinality(FL(fr, u, id)) + (IF gr[i].user = u THEN Count(gr[i].leases, id) ELSE 0)
<1> DEFINE C == {j \in DOMAIN gr[i].leases : gr[i].leases[j] = id}
           X == {i} \X C
           F == FL(fr, u, id)
           G == FL(gr, u, id)
<1>1. C \subseteq {1, 2} /\ IsFiniteSet(C) /\ Cardinality(C) \in Nat
  <2>1. C \subseteq 1..2
    BY PairDomain
  <2>2. IsFiniteSet(C)
    BY <2>1, UpTo, FS_Subset
  <2> QED
    BY <2>1, <2>2, PairDomain, FS_CardinalityType
<1>2. IsFiniteSet(X) /\ Cardinality(X) = Cardinality(C)
  <2>1. IsFiniteSet({i}) /\ Cardinality({i}) = 1
    BY FS_Singleton
  <2>2. IsFiniteSet(X) /\ Cardinality(X) = 1 * Cardinality(C)
    BY <2>1, <1>1, FS_Product
  <2> QED
    BY <2>2, <1>1
<1>3. IsFiniteSet(F) /\ Cardinality(F) \in Nat
  BY FLFinite
<1>4. \A p \in F : p \in FrameIds \X {1, 2} /\ p[1] # i
  BY DEF FL
<1>5. \A p \in FrameIds \X {1, 2} : p[1] # i => (p \in G <=> p \in F)
  BY DEF FL
<1>6. \A p \in FrameIds \X {1, 2} : p[1] = i => (p \in G <=> gr[i].user = u /\ p \in X)
  BY DEF FL
<1>7. G \subseteq FrameIds \X {1, 2} /\ X \subseteq FrameIds \X {1, 2} /\ \A p \in X : p[1] = i
  BY <1>1 DEF FL
<1> HIDE DEF F, G, X, C
<1>8. CASE gr[i].user = u
  <2>1. G = F \cup X /\ F \cap X = {}
    BY <1>4, <1>5, <1>6, <1>7, <1>8
  <2>2. Cardinality(G) = Cardinality(F) + Cardinality(X) - Cardinality({})
    BY <2>1, <1>2, <1>3, FS_Union
  <2>3. Cardinality(G) = Cardinality(F) + Cardinality(C)
    BY <2>2, <1>1, <1>2, <1>3, FS_EmptySet
  <2> QED
    BY <2>3, <1>8 DEF Count, F, G, C
<1>9. CASE gr[i].user # u
  <2>1. G = F
    BY <1>4, <1>5, <1>6, <1>7, <1>9
  <2> QED
    BY <2>1, <1>3, <1>9 DEF F, G
<1> QED
  BY <1>8, <1>9

-----------------------------------------------------------------------------
(* The invariant holds at first and is kept by every action *)

LEMMA NoneTypes ==
  NoCall \in Calls /\ NoFrame \in Frames /\ NoCall.leases = <<>> /\ NoCall.fds = <<>>
  /\ NoCall.frame = "none" /\ NoFrame.leases = <<>> /\ NoFrame.user = "none" /\ NoCall.at = "idle"
BY DEF NoCall, NoFrame, Calls, Frames, Pairs, FdPairs, At, Results

LEMMA LeaseInit == Init => LeaseInv
<1> SUFFICES ASSUME Init PROVE LeaseInv
  OBVIOUS
<1>1. /\ cache = [u \in Users |-> <<>>] /\ call = [u \in Users |-> NoCall]
      /\ frames = [i \in FrameIds |-> NoFrame] /\ behind \in [Fds -> Idents]
  BY DEF Init
<1>2. Types
  BY <1>1, NoneTypes DEF Types
<1>3. CallsTidy
  BY <1>1, NoneTypes DEF CallsTidy
<1>4. FramesTidy
  BY <1>1, NoneTypes DEF FramesTidy
<1>5. CachesSound
  <2>1. Len(<<>>) = 0 /\ <<>> \in Seq(Entry) /\ DOMAIN <<>> = {}
    OBVIOUS
  <2>2. Sound(<<>>)
    BY <2>1, CacheAssumption DEF Sound, OneEach, OneLive
  <2> QED
    BY <1>1, <2>2 DEF CachesSound
<1>6. Counted
  <2> SUFFICES ASSUME NEW u \in Users, NEW id \in 1..CacheMax
               PROVE  UsersOf(cache[u], id) = Leased(u, id)
    BY DEF Counted
  <2>1. UsersOf(<<>>, id) = 0
    BY DEF UsersOf, Has
  <2>2. FL(frames, u, id) = {}
    BY <1>1, NoneTypes DEF FL
  <2>3. Cardinality(FL(frames, u, id)) = 0
    BY <2>2, FS_EmptySet
  <2>4. Leased(u, id) = 0
    BY <1>1, <2>3, NoneTypes, CountNone, LeasedBy
  <2> QED
    BY <1>1, <2>1, <2>4
<1>7. Current
  BY <1>1, NoneTypes DEF Current
<1> QED
  BY <1>2, <1>3, <1>4, <1>5, <1>6, <1>7 DEF LeaseInv

CallsAlike ==
  \A u \in Users : /\ call'[u].key = call[u].key /\ call'[u].leases = call[u].leases
                   /\ call'[u].fds = call[u].fds /\ call'[u].frame = call[u].frame
                   /\ call'[u] # call[u] => call[u].at # "idle" /\ call'[u].at # "idle"
                   /\ call'[u].at \in {"entered", "native"} => call[u].at \in {"entered", "native"}

FramesAlike ==
  \A i \in FrameIds : /\ frames'[i].user = frames[i].user
                      /\ frames'[i].leases = frames[i].leases
                      /\ frames'[i] # frames[i] => frames[i].user # "none"

\* A step that leaves caches, descriptors and what the leases are alone.
LEMMA QuietKeeps ==
  ASSUME LeaseInv, UNCHANGED <<cache, behind>>,
         call' \in [Users -> Calls], frames' \in [FrameIds -> Frames], CallsAlike, FramesAlike
  PROVE  LeaseInv'
<1> USE DEF CallsAlike, FramesAlike
<1>1. Types'
  BY DEF LeaseInv, Types
<1>2. CallsTidy'
  BY DEF LeaseInv, CallsTidy
<1>3. FramesTidy'
  <2>1. \A u \in Users : call[u].frame \in FrameIds \cup {"none"}
    BY DEF LeaseInv, Types, Calls
  <2> QED
    BY <2>1 DEF LeaseInv, FramesTidy
<1>4. CachesSound'
  BY DEF LeaseInv, CachesSound
<1>5. Counted'
  <2>1. \A u, id : FL(frames', u, id) = FL(frames, u, id)
    BY DEF FL
  <2>2. \A u \in Users : \A id \in 1..CacheMax : Leased(u, id)' = Leased(u, id)
    BY <2>1, LeasedBy
  <2> QED
    BY <2>2 DEF LeaseInv, Counted
<1>6. Current'
  BY DEF LeaseInv, Current
<1> QED
  BY <1>1, <1>2, <1>3, <1>4, <1>5, <1>6 DEF LeaseInv

LEMMA CallRetyped ==
  ASSUME call \in [Users -> Calls], NEW u \in Users, NEW a \in At, NEW r \in Results, To(u, a, r)
  PROVE  /\ call' \in [Users -> Calls]
         /\ \A v \in Users : v # u => call'[v] = call[v]
         /\ call'[u].at = a /\ call'[u].key = call[u].key /\ call'[u].leases = call[u].leases
         /\ call'[u].fds = call[u].fds /\ call'[u].frame = call[u].frame
<1>1. call' = [call EXCEPT ![u] = [@ EXCEPT !.at = a, !.result = r]]
  BY DEF To
<1>2. call[u] \in Calls
  OBVIOUS
<1> DEFINE c == [call[u] EXCEPT !.at = a, !.result = r]
<1>3. c \in Calls /\ c.at = a /\ c.key = call[u].key /\ c.leases = call[u].leases
      /\ c.fds = call[u].fds /\ c.frame = call[u].frame
  BY <1>2 DEF Calls
<1>4. call' = [call EXCEPT ![u] = c]
  BY <1>1
<1> HIDE DEF c
<1>5. call'[u] = c /\ \A v \in Users : v # u => call'[v] = call[v]
  BY <1>4
<1> QED
  BY <1>3, <1>4, <1>5

LEMMA BeginKeeps ==
  ASSUME LeaseInv, NEW u \in Users, Begin(u)
  PROVE  LeaseInv'
<1>1. call \in [Users -> Calls] /\ frames \in [FrameIds -> Frames]
  BY DEF LeaseInv, Types
<1>2. call[u].at = "entered" /\ UNCHANGED <<cache, behind, frames>>
  BY DEF Begin
<1>3. \E a \in {"native", "over"}, r \in Results : To(u, a, r)
  BY DEF Begin, Results
<1>4. PICK a \in {"native", "over"}, r \in Results : To(u, a, r)
  BY <1>3
<1>5. a \in At /\ a # "idle"
  BY DEF At
<1>6. /\ call' \in [Users -> Calls]
      /\ \A v \in Users : v # u => call'[v] = call[v]
      /\ call'[u].at = a /\ call'[u].key = call[u].key /\ call'[u].leases = call[u].leases
      /\ call'[u].fds = call[u].fds /\ call'[u].frame = call[u].frame
  BY <1>1, <1>4, <1>5, CallRetyped
<1>7. CallsAlike
  BY <1>2, <1>5, <1>6 DEF CallsAlike
<1>8. FramesAlike
  BY <1>2 DEF FramesAlike
<1> QED
  BY <1>1, <1>2, <1>6, <1>7, <1>8, QuietKeeps

LEMMA FinishKeeps ==
  ASSUME LeaseInv, NEW u \in Users, Finish(u)
  PROVE  LeaseInv'
<1>1. call \in [Users -> Calls] /\ frames \in [FrameIds -> Frames]
  BY DEF LeaseInv, Types
<1>2. call[u].at = "native" /\ UNCHANGED <<cache, behind>>
  BY DEF Finish
<1>3. PICK r \in Outcomes, started \in BOOLEAN :
        /\ To(u, "over", Result(r))
        /\ frames' = IF call[u].frame = "none" THEN frames
                     ELSE [frames EXCEPT ![call[u].frame].busy = started]
  BY DEF Finish
<1>4. "over" \in At /\ Result(r) \in Results
  BY DEF At, Result, Results
<1>5. /\ call' \in [Users -> Calls]
      /\ \A v \in Users : v # u => call'[v] = call[v]
      /\ call'[u].at = "over" /\ call'[u].key = call[u].key /\ call'[u].leases = call[u].leases
      /\ call'[u].fds = call[u].fds /\ call'[u].frame = call[u].frame
  BY <1>1, <1>3, <1>4, CallRetyped
<1>6. /\ frames' \in [FrameIds -> Frames]
      /\ FramesAlike
  <2>1. CASE call[u].frame = "none"
    BY <2>1, <1>1, <1>3 DEF FramesAlike
  <2>2. CASE call[u].frame # "none"
    <3> DEFINE f == call[u].frame
               g == [frames[f] EXCEPT !.busy = started]
    <3>1. f \in FrameIds /\ frames[f].user = u /\ u # "none"
      BY <1>1, <2>2, NoneAssumption DEF LeaseInv, FramesTidy, Calls
    <3>2. frames' = [frames EXCEPT ![f] = g]
      BY <1>3, <2>2
    <3>3. frames[f] \in Frames
      BY <1>1, <3>1
    <3>4. g \in Frames /\ g.user = frames[f].user /\ g.leases = frames[f].leases
      BY <3>3 DEF Frames
    <3> HIDE DEF f, g
    <3> QED
      BY <1>1, <3>1, <3>2, <3>4 DEF FramesAlike
  <2> QED
    BY <2>1, <2>2
<1>7. CallsAlike
  BY <1>2, <1>5 DEF CallsAlike
<1> QED
  BY <1>2, <1>5, <1>6, <1>7, QuietKeeps

LEMMA JobEndsKeeps ==
  ASSUME LeaseInv, JobEnds
  PROVE  LeaseInv'
<1>1. call \in [Users -> Calls] /\ frames \in [FrameIds -> Frames]
  BY DEF LeaseInv, Types
<1>2. UNCHANGED <<cache, behind, call>>
  BY DEF JobEnds
<1>3. PICK f \in FrameIds : frames[f].busy /\ frames' = [frames EXCEPT ![f].busy = FALSE]
  BY DEF JobEnds
<1> DEFINE g == [frames[f] EXCEPT !.busy = FALSE]
<1>4. frames[f] \in Frames /\ frames' = [frames EXCEPT ![f] = g]
  BY <1>1, <1>3
<1>5. g \in Frames /\ g.user = frames[f].user /\ g.leases = frames[f].leases
  BY <1>4 DEF Frames
<1>6. frames[f].user # "none"
  <2>1. NoFrame.busy = FALSE
    BY DEF NoFrame
  <2> QED
    BY <1>3, <2>1 DEF LeaseInv, FramesTidy
<1> HIDE DEF g
<1>7. /\ frames' \in [FrameIds -> Frames]
      /\ FramesAlike
  BY <1>1, <1>4, <1>5, <1>6 DEF FramesAlike
<1>8. CallsAlike
  BY <1>2 DEF CallsAlike
<1>9. call' \in [Users -> Calls]
  BY <1>1, <1>2
<1> QED
  BY <1>2, <1>7, <1>8, <1>9, QuietKeeps

\* Each lease on an entry is one of its users.
LEMMA LeasesAreUsers ==
  ASSUME LeaseInv, NEW u \in Users, NEW id \in 1..CacheMax
  PROVE  /\ UsersOf(cache[u], id) \in Nat
         /\ UsersOf(cache[u], id) = (IF call[u].frame = "none" THEN Count(call[u].leases, id) ELSE 0)
                                     + Cardinality(FL(frames, u, id))
BY LeasedBy, UsersNat DEF LeaseInv, Counted, Types

LEMMA EnterPlainKeeps ==
  ASSUME LeaseInv, NEW u \in Users, Enter(u), u \notin Caching
  PROVE  LeaseInv'
<1>1. call \in [Users -> Calls] /\ frames \in [FrameIds -> Frames]
  BY DEF LeaseInv, Types
<1>2. UNCHANGED <<cache, behind, frames>> /\ call[u] = NoCall
  BY DEF Enter, EnterPlain, LeaseInv, CallsTidy
<1>3. PICK k \in Keys : call' = [call EXCEPT ![u] = [NoCall EXCEPT !.at = "entered", !.key = k]]
  BY DEF Enter, EnterPlain
<1> DEFINE c == [NoCall EXCEPT !.at = "entered", !.key = k]
<1>4. c \in Calls /\ c.at = "entered" /\ c.key = k /\ c.leases = <<>> /\ c.fds = <<>> /\ c.frame = "none"
  <2>1. NoCall \in Calls /\ NoCall.leases = <<>> /\ NoCall.fds = <<>> /\ NoCall.frame = "none"
    BY NoneTypes
  <2>2. "entered" \in At
    BY DEF At
  <2> QED
    BY <2>1, <2>2 DEF Calls
<1>5. call' = [call EXCEPT ![u] = c]
  BY <1>3
<1> HIDE DEF c
<1>6. call' \in [Users -> Calls] /\ call'[u] = c /\ \A v \in Users : v # u => call'[v] = call[v]
  BY <1>1, <1>4, <1>5
<1>7. Types'
  BY <1>2, <1>6 DEF LeaseInv, Types
<1>8. CallsTidy'
  BY <1>4, <1>6 DEF LeaseInv, CallsTidy
<1>9. FramesTidy'
  BY <1>2, <1>4, <1>6 DEF LeaseInv, FramesTidy
<1>10. CachesSound'
  BY <1>2 DEF LeaseInv, CachesSound
<1>11. Counted'
  <2>1. \A v \in Users : call'[v].frame = call[v].frame /\ call'[v].leases = call[v].leases
    BY <1>2, <1>4, <1>6, NoneTypes
  <2>2. \A v \in Users : \A id \in 1..CacheMax : Leased(v, id)' = Leased(v, id)
    BY <2>1, <1>2, LeasedBy
  <2> QED
    BY <2>2, <1>2 DEF LeaseInv, Counted
<1>12. Current'
  <2>1. DOMAIN <<>> = {}
    OBVIOUS
  <2> QED
    BY <1>2, <1>4, <1>6, <2>1 DEF LeaseInv, Current
<1> QED
  BY <1>7, <1>8, <1>9, <1>10, <1>11, <1>12 DEF LeaseInv

FreeFrames == {"none"} \cup {i \in FrameIds : frames[i] = NoFrame}

\* What a caching converter's entry does: the cache becomes q, a and b are the
\* leases on the two ends.
Enters(u, q, a, b, src, dst, k, f) ==
  /\ Sound(q)
  /\ \A id \in 1..CacheMax : UsersOf(q, id) = UsersOf(cache[u], id) + Count(<<a, b>>, id)
  /\ a # NoLease => Carries(q, a, src, behind)
  /\ b # NoLease => Carries(q, b, dst, behind)
  /\ cache' = [cache EXCEPT ![u] = q]
  /\ call' = [call EXCEPT ![u] = [NoCall EXCEPT !.at = "entered", !.key = k, !.leases = <<a, b>>,
                                                !.fds = <<src, dst>>, !.frame = f]]
  /\ frames' = [i \in FrameIds |-> IF i # f THEN frames[i]
                  ELSE [user |-> u, leases |-> <<a, b>>, fds |-> <<src, dst>>, busy |-> FALSE]]

LEMMA EnterCachingDoes ==
  ASSUME LeaseInv, NEW u \in Users, EnterCaching(u)
  PROVE  \E q \in Seq(Entry) : \E a \in Ids, b \in Ids, src \in Fds, dst \in Fds, k \in Keys,
            f \in FreeFrames : Enters(u, q, a, b, src, dst, k, f)
<1>1. PICK src \in Fds, dst \in Fds, works \in BOOLEAN,
           f \in {"none"} \cup {i \in FrameIds : frames[i] = NoFrame} :
        LET in == Import(cache[u], src, works)
            out == Import(in.q, dst, works)
            ids == <<in.id, out.id>>
        IN /\ cache' = [cache EXCEPT ![u] = out.q]
           /\ \E k \in Keys :
                call' = [call EXCEPT ![u] = [NoCall EXCEPT !.at = "entered", !.key = k, !.leases = ids,
                                                           !.fds = <<src, dst>>, !.frame = f]]
           /\ frames' = [i \in FrameIds |-> IF i # f THEN frames[i]
                           ELSE [user |-> u, leases |-> ids, fds |-> <<src, dst>>, busy |-> FALSE]]
  BY DEF EnterCaching
<1> DEFINE in == Import(cache[u], src, works)
           out == Import(in.q, dst, works)
<1>2. Sound(cache[u]) /\ behind \in [Fds -> Idents]
  BY DEF LeaseInv, CachesSound, Types
<1>3. /\ Sound(in.q) /\ in.id \in Ids
      /\ \A id \in 1..CacheMax : UsersOf(in.q, id) = UsersOf(cache[u], id) + (IF id = in.id THEN 1 ELSE 0)
      /\ in.id # NoLease => Carries(in.q, in.id, src, behind)
  BY <1>2, ImportDoes
<1>4. \A id \in 1..CacheMax : UsersOf(cache[u], id) \in Nat
  BY LeasesAreUsers
<1>5. PICK k \in Keys :
        call' = [call EXCEPT ![u] = [NoCall EXCEPT !.at = "entered", !.key = k, !.leases = <<in.id, out.id>>,
                                                   !.fds = <<src, dst>>, !.frame = f]]
  BY <1>1
<1>6. /\ cache' = [cache EXCEPT ![u] = out.q]
      /\ frames' = [i \in FrameIds |-> IF i # f THEN frames[i]
                      ELSE [user |-> u, leases |-> <<in.id, out.id>>, fds |-> <<src, dst>>, busy |-> FALSE]]
  BY <1>1
<1> HIDE DEF in
<1>7. /\ Sound(out.q) /\ out.id \in Ids
      /\ \A id \in 1..CacheMax : UsersOf(out.q, id) = UsersOf(in.q, id) + (IF id = out.id THEN 1 ELSE 0)
      /\ out.id # NoLease => Carries(out.q, out.id, dst, behind)
      /\ \A id, f0, b : UsersOf(in.q, id) # 0 /\ Carries(in.q, id, f0, b) => Carries(out.q, id, f0, b)
  BY <1>2, <1>3, ImportDoes
<1> HIDE DEF out
<1>8. \A id \in 1..CacheMax : UsersOf(out.q, id) = UsersOf(cache[u], id) + Count(<<in.id, out.id>>, id)
  <2> TAKE id \in 1..CacheMax
  <2>1. Count(<<in.id, out.id>>, id) = (IF in.id = id THEN 1 ELSE 0) + (IF out.id = id THEN 1 ELSE 0)
    BY CountPair
  <2>2. UsersOf(cache[u], id) \in Nat
    BY <1>4
  <2>3. UsersOf(in.q, id) = UsersOf(cache[u], id) + (IF id = in.id THEN 1 ELSE 0)
    BY <1>3
  <2>4. UsersOf(out.q, id) = UsersOf(in.q, id) + (IF id = out.id THEN 1 ELSE 0)
    BY <1>7
  <2> QED
    BY <2>1, <2>2, <2>3, <2>4
<1>9. in.id # NoLease => Carries(out.q, in.id, src, behind)
  <2> SUFFICES ASSUME in.id # NoLease PROVE Carries(out.q, in.id, src, behind)
    OBVIOUS
  <2>1. in.id \in 1..CacheMax
    BY <1>3, CacheAssumption DEF Ids, NoLease
  <2>2. UsersOf(in.q, in.id) # 0
    BY <2>1, <1>3, <1>4
  <2> QED
    BY <2>2, <1>3, <1>7
<1>10. out.q \in Seq(Entry) /\ f \in FreeFrames /\ in.id \in Ids /\ out.id \in Ids
  BY <1>3, <1>7 DEF Sound, FreeFrames
<1>11. Enters(u, out.q, in.id, out.id, src, dst, k, f)
  BY <1>5, <1>6, <1>7, <1>8, <1>9 DEF Enters
<1> QED
  BY <1>10, <1>11

LEMMA EnterCachingKeeps ==
  ASSUME LeaseInv, NEW u \in Users, Enter(u), u \in Caching
  PROVE  LeaseInv'
<1>1. call \in [Users -> Calls] /\ frames \in [FrameIds -> Frames] /\ cache \in [Users -> Seq(Entry)]
  BY DEF LeaseInv, Types
<1>2. EnterCaching(u) /\ UNCHANGED behind /\ call[u] = NoCall /\ u # "none"
  BY NoneAssumption DEF Enter, LeaseInv, CallsTidy
<1>3. PICK q \in Seq(Entry) : \E a \in Ids, b \in Ids, src \in Fds, dst \in Fds, k \in Keys,
            f \in FreeFrames : Enters(u, q, a, b, src, dst, k, f)
  BY <1>2, EnterCachingDoes
<1>4. PICK a \in Ids, b \in Ids, src \in Fds, dst \in Fds, k \in Keys, f \in FreeFrames :
        Enters(u, q, a, b, src, dst, k, f)
  BY <1>3
<1> DEFINE ls == <<a, b>>
           c == [NoCall EXCEPT !.at = "entered", !.key = k, !.leases = ls, !.fds = <<src, dst>>, !.frame = f]
           g == [user |-> u, leases |-> ls, fds |-> <<src, dst>>, busy |-> FALSE]
<1>5. ls \in Pairs /\ DOMAIN ls = {1, 2} /\ ls[1] = a /\ ls[2] = b
      /\ <<src, dst>> \in FdPairs /\ DOMAIN <<src, dst>> = {1, 2}
  BY DEF Pairs, FdPairs
<1>6. c \in Calls /\ c.at = "entered" /\ c.key = k /\ c.leases = ls /\ c.fds = <<src, dst>> /\ c.frame = f
  <2>1. "entered" \in At /\ f \in FrameIds \cup {"none"} /\ NoCall \in Calls
    BY NoneTypes DEF At, FreeFrames
  <2> QED
    BY <2>1, <1>5 DEF Calls
<1>7. g \in Frames /\ g.user = u /\ g.leases = ls
  BY <1>5 DEF Frames
<1>8. /\ Sound(q)
      /\ \A id \in 1..CacheMax : UsersOf(q, id) = UsersOf(cache[u], id) + Count(ls, id)
      /\ a # NoLease => Carries(q, a, src, behind)
      /\ b # NoLease => Carries(q, b, dst, behind)
      /\ cache' = [cache EXCEPT ![u] = q]
      /\ call' = [call EXCEPT ![u] = c]
      /\ frames' = [i \in FrameIds |-> IF i # f THEN frames[i] ELSE g]
  BY <1>4 DEF Enters
<1> HIDE DEF c, g, ls
<1>9. /\ call' \in [Users -> Calls] /\ call'[u] = c /\ \A v \in Users : v # u => call'[v] = call[v]
      /\ cache' \in [Users -> Seq(Entry)] /\ cache'[u] = q
      /\ \A v \in Users : v # u => cache'[v] = cache[v]
  BY <1>1, <1>6, <1>8
<1>10. /\ frames' \in [FrameIds -> Frames]
       /\ \A i \in FrameIds : frames'[i] = IF i # f THEN frames[i] ELSE g
  BY <1>1, <1>7, <1>8
<1>11. f = "none" \/ (f \in FrameIds /\ frames[f] = NoFrame)
  BY DEF FreeFrames
<1>12. Types'
  BY <1>2, <1>9, <1>10 DEF LeaseInv, Types
<1>13. CallsTidy'
  BY <1>5, <1>6, <1>9 DEF LeaseInv, CallsTidy
<1>14. FramesTidy'
  <2>1. ASSUME NEW i \in FrameIds, frames'[i].user = "none" PROVE frames'[i] = NoFrame
    BY <2>1, <1>2, <1>7, <1>10 DEF LeaseInv, FramesTidy
  <2>2. ASSUME NEW v \in Users, call'[v].frame # "none" PROVE frames'[call'[v].frame].user = v
    <3>1. CASE v = u
      BY <3>1, <2>2, <1>6, <1>7, <1>9, <1>10, <1>11
    <3>2. CASE v # u
      <4>1. call'[v] = call[v] /\ call[v].frame \in FrameIds /\ frames[call[v].frame].user = v /\ v # "none"
        BY <3>2, <2>2, <1>1, <1>9, NoneAssumption DEF LeaseInv, FramesTidy, Calls
      <4>2. call[v].frame # f
        BY <4>1, <1>11, NoneTypes, NoneAssumption
      <4> QED
        BY <4>1, <4>2, <1>10
    <3> QED
      BY <3>1, <3>2
  <2> QED
    BY <2>1, <2>2 DEF FramesTidy
<1>15. CachesSound'
  BY <1>8, <1>9 DEF LeaseInv, CachesSound
<1>16. Counted'
  <2> SUFFICES ASSUME NEW v \in Users, NEW id \in 1..CacheMax
               PROVE  UsersOf(cache'[v], id) = Leased(v, id)'
    BY DEF Counted
  <2>1. UsersOf(cache[v], id) = (IF call[v].frame = "none" THEN Count(call[v].leases, id) ELSE 0)
                               + Cardinality(FL(frames, v, id))
        /\ Cardinality(FL(frames, v, id)) \in Nat /\ Count(ls, id) \in 0..2
    BY LeasesAreUsers, FLFinite, CountType, <1>5
  <2>2. Leased(v, id)' = (IF call'[v].frame = "none" THEN Count(call'[v].leases, id) ELSE 0)
                         + Cardinality(FL(frames', v, id))
    BY LeasedBy
  <2>3. Cardinality(FL(frames', v, id)) = Cardinality(FL(frames, v, id))
                                          + (IF f # "none" /\ v = u THEN Count(ls, id) ELSE 0)
    <3>1. CASE f = "none"
      <4>1. \A i \in FrameIds : frames'[i] = frames[i]
        BY <3>1, <1>10, NoneAssumption
      <4>2. frames' = frames
        BY <4>1, <1>1, <1>10
      <4> QED
        BY <4>2, <3>1, <2>1
    <3>2. CASE f # "none"
      <4>1. f \in FrameIds /\ frames[f].leases = <<>> /\ frames'[f] = g
            /\ \A i \in FrameIds : i # f => frames'[i] = frames[i]
        BY <3>2, <1>10, <1>11, NoneTypes
      <4>2. frames'[f].leases \in Pairs /\ frames'[f].leases = ls /\ frames'[f].user = u
        BY <4>1, <1>5, <1>7
      <4>3. PICK gr : gr = frames'
        OBVIOUS
      <4>4. PICK fr : fr = frames
        OBVIOUS
      <4>5. f \in FrameIds /\ fr[f].leases = <<>> /\ gr[f].leases \in Pairs
            /\ \A i \in FrameIds : i # f => gr[i] = fr[i]
        BY <4>1, <4>2, <4>3, <4>4
      <4>6. Cardinality(FL(gr, v, id)) = Cardinality(FL(fr, v, id))
                                         + (IF gr[f].user = v THEN Count(gr[f].leases, id) ELSE 0)
        BY <4>5, FLAdds
      <4> QED
        BY <3>2, <4>2, <4>3, <4>4, <4>6
    <3> QED
      BY <3>1, <3>2
  <2>4. CASE v # u
    BY <2>1, <2>2, <2>3, <2>4, <1>9
  <2>5. CASE v = u
    <3>1. UsersOf(cache'[u], id) = UsersOf(cache[u], id) + Count(ls, id)
      BY <1>8, <1>9
    <3>2. call[u].frame = "none" /\ Count(call[u].leases, id) = 0
      BY <1>2, NoneTypes, CountNone
    <3>3. call'[u].frame = f /\ call'[u].leases = ls
      BY <1>6, <1>9
    <3> QED
      BY <3>1, <3>2, <3>3, <2>1, <2>2, <2>3, <2>5
  <2> QED
    BY <2>4, <2>5
<1>17. Current'
  <2> SUFFICES ASSUME NEW v \in Users, call'[v].at \in {"entered", "native"},
                      NEW j \in DOMAIN call'[v].leases, call'[v].leases[j] # NoLease
               PROVE  Carries(cache'[v], call'[v].leases[j], call'[v].fds[j], behind)
    BY <1>2 DEF Current, Carries
  <2>1. CASE v # u
    BY <2>1, <1>9 DEF LeaseInv, Current
  <2>2. CASE v = u
    <3>1. call'[u].leases = ls /\ call'[u].fds = <<src, dst>> /\ cache'[u] = q
      BY <1>6, <1>9
    <3>2. j = 1 \/ j = 2
      BY <2>2, <3>1, <1>5
    <3> QED
      BY <2>2, <3>1, <3>2, <1>5, <1>8
  <2> QED
    BY <2>1, <2>2
<1> QED
  BY <1>12, <1>13, <1>14, <1>15, <1>16, <1>17 DEF LeaseInv

LEMMA SettleKeeps ==
  ASSUME LeaseInv, NEW u \in Users, Settle(u)
  PROVE  LeaseInv'
<1>1. call \in [Users -> Calls] /\ frames \in [FrameIds -> Frames] /\ cache \in [Users -> Seq(Entry)]
  BY DEF LeaseInv, Types
<1>2. call[u].at = "over" /\ UNCHANGED <<behind, frames>> /\ call' = [call EXCEPT ![u] = NoCall]
  BY DEF Settle
<1> DEFINE p == IF call[u].frame = "none" THEN Put(cache[u], call[u].leases) ELSE cache[u]
           q == IF call[u].result = "lost" THEN Cleared(p) ELSE p
<1>3. cache' = [cache EXCEPT ![u] = q]
  BY DEF Settle
<1>4. Sound(cache[u]) /\ call[u].leases \in Pairs
  BY <1>1 DEF LeaseInv, CachesSound, Calls
<1>5. Sound(p) /\ \A id \in 1..CacheMax : UsersOf(p, id) = Cardinality(FL(frames, u, id))
  <2>1. \A id \in 1..CacheMax :
           /\ UsersOf(cache[u], id) = (IF call[u].frame = "none" THEN Count(call[u].leases, id) ELSE 0)
                                      + Cardinality(FL(frames, u, id))
           /\ Cardinality(FL(frames, u, id)) \in Nat /\ Count(call[u].leases, id) \in 0..2
    BY <1>4, LeasesAreUsers, FLFinite, CountType
  <2>2. CASE call[u].frame = "none"
    <3>1. \A id \in 1..CacheMax : Count(call[u].leases, id) <= UsersOf(cache[u], id)
      BY <2>1, <2>2
    <3>2. /\ Sound(p)
          /\ \A id \in 1..CacheMax : UsersOf(p, id) = UsersOf(cache[u], id) - Count(call[u].leases, id)
      BY <3>1, <2>2, <1>4, PutDoes
    <3> HIDE DEF p
    <3> QED
      BY <3>2, <2>1, <2>2
  <2>3. CASE call[u].frame # "none"
    <3>1. p = cache[u]
      BY <2>3
    <3> HIDE DEF p
    <3> QED
      BY <3>1, <2>1, <2>3, <1>4
  <2> QED
    BY <2>2, <2>3
<1> HIDE DEF p
<1>6. Sound(q) /\ \A id \in 1..CacheMax : UsersOf(q, id) = Cardinality(FL(frames, u, id))
  BY <1>5, ClearedDoes
<1> HIDE DEF q
<1>7. /\ call' \in [Users -> Calls] /\ call'[u] = NoCall /\ \A v \in Users : v # u => call'[v] = call[v]
      /\ cache' \in [Users -> Seq(Entry)] /\ cache'[u] = q
      /\ \A v \in Users : v # u => cache'[v] = cache[v]
  BY <1>1, <1>2, <1>3, <1>6, NoneTypes DEF Sound
<1>8. Types'
  BY <1>2, <1>7 DEF LeaseInv, Types
<1>9. CallsTidy'
  BY <1>7, NoneTypes DEF LeaseInv, CallsTidy
<1>10. FramesTidy'
  BY <1>2, <1>7, NoneTypes DEF LeaseInv, FramesTidy
<1>11. CachesSound'
  BY <1>6, <1>7 DEF LeaseInv, CachesSound
<1>12. Counted'
  <2> SUFFICES ASSUME NEW v \in Users, NEW id \in 1..CacheMax
               PROVE  UsersOf(cache'[v], id) = Leased(v, id)'
    BY DEF Counted
  <2>1. Leased(v, id)' = (IF call'[v].frame = "none" THEN Count(call'[v].leases, id) ELSE 0)
                         + Cardinality(FL(frames, v, id))
    BY LeasedBy, <1>2
  <2>2. UsersOf(cache[v], id) = (IF call[v].frame = "none" THEN Count(call[v].leases, id) ELSE 0)
                               + Cardinality(FL(frames, v, id))
        /\ Cardinality(FL(frames, v, id)) \in Nat
    BY LeasesAreUsers, FLFinite
  <2>3. CASE v = u
    <3>1. Leased(u, id)' = 0 + Cardinality(FL(frames, u, id))
      BY <2>1, <2>3, <1>7, NoneTypes, CountNone
    <3> QED
      BY <3>1, <2>2, <2>3, <1>6, <1>7
  <2>4. CASE v # u
    BY <2>1, <2>2, <2>4, <1>7
  <2> QED
    BY <2>3, <2>4
<1>13. Current'
  <2> SUFFICES ASSUME NEW v \in Users, call'[v].at \in {"entered", "native"},
                      NEW j \in DOMAIN call'[v].leases, call'[v].leases[j] # NoLease
               PROVE  Carries(cache'[v], call'[v].leases[j], call'[v].fds[j], behind)
    BY <1>2 DEF Current, Carries
  <2>1. v # u
    BY <1>7, NoneTypes
  <2> QED
    BY <2>1, <1>7 DEF LeaseInv, Current
<1> QED
  BY <1>8, <1>9, <1>10, <1>11, <1>12, <1>13 DEF LeaseInv

LEMMA FrameFreedKeeps ==
  ASSUME LeaseInv, FrameFreed
  PROVE  LeaseInv'
<1>1. call \in [Users -> Calls] /\ frames \in [FrameIds -> Frames] /\ cache \in [Users -> Seq(Entry)]
  BY DEF LeaseInv, Types
<1>2. PICK i \in FrameIds :
        /\ frames[i] # NoFrame /\ ~InCall(i)
        /\ cache' = [cache EXCEPT ![frames[i].user] = Put(@, frames[i].leases)]
        /\ frames' = [frames EXCEPT ![i] = NoFrame]
  BY DEF FrameFreed
<1>3. UNCHANGED <<call, behind>>
  BY DEF FrameFreed
<1> DEFINE u == frames[i].user
           ls == frames[i].leases
           q == Put(cache[u], ls)
<1>4. u \in Users /\ ls \in Pairs
  <2>1. frames[i] \in Frames
    BY <1>1
  <2> QED
    BY <2>1, <1>2 DEF Frames, LeaseInv, FramesTidy
<1>5. cache' = [cache EXCEPT ![u] = q]
  BY <1>2
<1>6. frames' \in [FrameIds -> Frames] /\ frames'[i] = NoFrame /\ \A k \in FrameIds : k # i => frames'[k] = frames[k]
  BY <1>1, <1>2, NoneTypes
<1>7. \A v \in Users : \A id \in 1..CacheMax :
        Cardinality(FL(frames, v, id))
          = Cardinality(FL(frames', v, id)) + (IF u = v THEN Count(ls, id) ELSE 0)
  <2> TAKE v \in Users
  <2> TAKE id \in 1..CacheMax
  <2>1. PICK gr : gr = frames
    OBVIOUS
  <2>2. PICK fr : fr = frames'
    OBVIOUS
  <2>3. /\ i \in FrameIds /\ fr[i].leases = <<>> /\ gr[i].leases \in Pairs
        /\ \A k \in FrameIds : k # i => gr[k] = fr[k]
    BY <2>1, <2>2, <1>4, <1>6, NoneTypes
  <2>4. Cardinality(FL(gr, v, id)) = Cardinality(FL(fr, v, id))
                                     + (IF gr[i].user = v THEN Count(gr[i].leases, id) ELSE 0)
    BY <2>3, FLAdds
  <2> QED
    BY <2>1, <2>2, <2>4
<1> HIDE DEF u, ls
<1>8. Sound(cache[u]) /\ \A id \in 1..CacheMax :
                            UsersOf(cache[u], id) \in Nat /\ Count(ls, id) <= UsersOf(cache[u], id)
  <2>1. Sound(cache[u])
    BY <1>4 DEF LeaseInv, CachesSound
  <2>2. ASSUME NEW id \in 1..CacheMax
        PROVE  UsersOf(cache[u], id) \in Nat /\ Count(ls, id) <= UsersOf(cache[u], id)
    <3>1. UsersOf(cache[u], id) = (IF call[u].frame = "none" THEN Count(call[u].leases, id) ELSE 0)
                                  + Cardinality(FL(frames, u, id))
          /\ Cardinality(FL(frames, u, id)) \in Nat /\ Cardinality(FL(frames', u, id)) \in Nat
          /\ UsersOf(cache[u], id) \in Nat
      BY <1>4, LeasesAreUsers, FLFinite
    <3>2. call[u].leases \in Pairs
      BY <1>1, <1>4 DEF Calls
    <3>3. Count(call[u].leases, id) \in 0..2 /\ Count(ls, id) \in 0..2
      BY <1>4, <3>2, CountType
    <3>4. Cardinality(FL(frames, u, id)) = Cardinality(FL(frames', u, id)) + Count(ls, id)
      BY <1>4, <1>7
    <3> QED
      BY <3>1, <3>3, <3>4
  <2> QED
    BY <2>1, <2>2
<1>9. /\ Sound(q)
      /\ \A id \in 1..CacheMax : UsersOf(q, id) = UsersOf(cache[u], id) - Count(ls, id)
      /\ \A id, f, b : Carries(cache[u], id, f, b) => Carries(q, id, f, b)
  BY <1>4, <1>8, PutDoes
<1> HIDE DEF q
<1>10. cache' \in [Users -> Seq(Entry)] /\ cache'[u] = q /\ \A v \in Users : v # u => cache'[v] = cache[v]
  BY <1>1, <1>4, <1>5, <1>9 DEF Sound
<1>11. Types'
  BY <1>3, <1>6, <1>10 DEF LeaseInv, Types
<1>12. CallsTidy'
  BY <1>3 DEF LeaseInv, CallsTidy
<1>13. FramesTidy'
  <2>1. \A v \in Users : call[v].frame # i /\ call[v].frame \in FrameIds \cup {"none"}
    BY <1>1, <1>2 DEF InCall, Calls
  <2> QED
    BY <2>1, <1>3, <1>6 DEF LeaseInv, FramesTidy
<1>14. CachesSound'
  BY <1>9, <1>10 DEF LeaseInv, CachesSound
<1>15. Counted'
  <2> SUFFICES ASSUME NEW v \in Users, NEW id \in 1..CacheMax
               PROVE  UsersOf(cache'[v], id) = Leased(v, id)'
    BY DEF Counted
  <2> DEFINE n == IF call[v].frame = "none" THEN Count(call[v].leases, id) ELSE 0
             c == Cardinality(FL(frames, v, id))
             d == Cardinality(FL(frames', v, id))
  <2>1. Leased(v, id)' = n + d
    BY LeasedBy, <1>3
  <2>2. UsersOf(cache[v], id) = n + c /\ c \in Nat /\ d \in Nat
    BY LeasesAreUsers, FLFinite
  <2>3. c = d + (IF u = v THEN Count(ls, id) ELSE 0)
    BY <1>7
  <2>4. n \in Nat /\ Count(ls, id) \in Nat
    <3>1. call[v].leases \in Pairs
      BY <1>1 DEF Calls
    <3>2. Count(call[v].leases, id) \in Nat /\ Count(ls, id) \in Nat
      BY <3>1, <1>4, CountType
    <3> QED
      BY <3>2
  <2> HIDE DEF n, c, d
  <2>5. CASE v = u
    <3>1. UsersOf(cache'[v], id) = UsersOf(cache[v], id) - Count(ls, id)
      BY <2>5, <1>9, <1>10
    <3> QED
      BY <3>1, <2>1, <2>2, <2>3, <2>4, <2>5
  <2>6. CASE v # u
    BY <2>1, <2>2, <2>3, <2>4, <2>6, <1>10
  <2> QED
    BY <2>5, <2>6
<1>16. Current'
  <2> SUFFICES ASSUME NEW v \in Users, call[v].at \in {"entered", "native"},
                      NEW j \in DOMAIN call[v].leases, call[v].leases[j] # NoLease
               PROVE  Carries(cache'[v], call[v].leases[j], call[v].fds[j], behind)
    BY <1>3 DEF Current, Carries
  <2>1. Carries(cache[v], call[v].leases[j], call[v].fds[j], behind)
    BY DEF LeaseInv, Current
  <2>2. CASE v = u
    BY <2>1, <2>2, <1>9, <1>10
  <2>3. CASE v # u
    BY <2>1, <2>3, <1>10
  <2> QED
    BY <2>2, <2>3
<1> QED
  BY <1>11, <1>12, <1>13, <1>14, <1>15, <1>16 DEF LeaseInv

LEMMA ClearImportsKeeps ==
  ASSUME LeaseInv, NEW u \in Users, ClearImports(u)
  PROVE  LeaseInv'
<1>1. cache \in [Users -> Seq(Entry)] /\ Sound(cache[u])
  BY DEF LeaseInv, Types, CachesSound
<1>2. UNCHANGED <<call, frames, behind>> /\ cache' = [cache EXCEPT ![u] = Cleared(@)] /\ call[u].at = "idle"
  BY DEF ClearImports
<1> DEFINE q == Cleared(cache[u])
<1>3. Sound(q) /\ \A id : UsersOf(q, id) = UsersOf(cache[u], id)
  BY <1>1, ClearedDoes
<1>4. cache' = [cache EXCEPT ![u] = q]
  BY <1>2
<1> HIDE DEF q
<1>5. cache' \in [Users -> Seq(Entry)] /\ cache'[u] = q /\ \A v \in Users : v # u => cache'[v] = cache[v]
  BY <1>1, <1>3, <1>4 DEF Sound
<1>6. Types' /\ CallsTidy' /\ FramesTidy'
  BY <1>2, <1>5 DEF LeaseInv, Types, CallsTidy, FramesTidy
<1>7. CachesSound'
  BY <1>3, <1>5 DEF LeaseInv, CachesSound
<1>8. Counted'
  <2>1. \A v, id : Leased(v, id)' = Leased(v, id)
    BY <1>2, LeasedBy
  <2>2. \A v \in Users : \A id : UsersOf(cache'[v], id) = UsersOf(cache[v], id)
    BY <1>3, <1>5
  <2> QED
    BY <2>1, <2>2 DEF LeaseInv, Counted
<1>9. Current'
  <2> SUFFICES ASSUME NEW v \in Users, call[v].at \in {"entered", "native"},
                      NEW j \in DOMAIN call[v].leases, call[v].leases[j] # NoLease
               PROVE  Carries(cache'[v], call[v].leases[j], call[v].fds[j], behind)
    BY <1>2 DEF Current, Carries
  <2>1. v # u
    BY <1>2
  <2> QED
    BY <2>1, <1>5 DEF LeaseInv, Current
<1> QED
  BY <1>6, <1>7, <1>8, <1>9 DEF LeaseInv

LEMMA RecycleKeeps ==
  ASSUME LeaseInv, Recycle
  PROVE  LeaseInv'
<1>1. UNCHANGED <<cache, call, frames>>
  BY DEF Recycle
<1>2. PICK fd \in Fds, n \in Idents :
        (\A u \in Users : fd \notin Range(call[u].fds)) /\ behind' = [behind EXCEPT ![fd] = n]
  BY DEF Recycle
<1>3. behind' \in [Fds -> Idents] /\ \A f : f # fd => behind'[f] = behind[f]
  <2>1. behind \in [Fds -> Idents]
    BY DEF LeaseInv, Types
  <2> QED
    BY <2>1, <1>2
<1>4. Types' /\ CallsTidy' /\ FramesTidy' /\ CachesSound'
  BY <1>1, <1>3 DEF LeaseInv, Types, CallsTidy, FramesTidy, CachesSound
<1>5. Counted'
  <2>1. \A v, id : Leased(v, id)' = Leased(v, id)
    BY <1>1, LeasedBy
  <2> QED
    BY <2>1, <1>1 DEF LeaseInv, Counted
<1>6. Current'
  <2> SUFFICES ASSUME NEW v \in Users, call[v].at \in {"entered", "native"},
                      NEW j \in DOMAIN call[v].leases, call[v].leases[j] # NoLease
               PROVE  Carries(cache[v], call[v].leases[j], call[v].fds[j], behind')
    BY <1>1 DEF Current, Carries
  <2>1. Carries(cache[v], call[v].leases[j], call[v].fds[j], behind)
    BY DEF LeaseInv, Current
  <2>2. j \in DOMAIN call[v].fds
    BY DEF LeaseInv, CallsTidy
  <2>3. call[v].fds[j] # fd
    BY <2>2, <1>2 DEF Range
  <2> QED
    BY <2>1, <2>3, <1>3 DEF Carries
<1> QED
  BY <1>4, <1>5, <1>6 DEF LeaseInv

LEMMA LeaseStep == LeaseInv /\ [Next]_vars => LeaseInv'
<1> SUFFICES ASSUME LeaseInv, [Next]_vars PROVE LeaseInv'
  OBVIOUS
<1>1. CASE UNCHANGED <<cache, call, frames, behind>>
  <2>1. \A u, id : Leased(u, id)' = Leased(u, id)
    BY <1>1, LeasedBy
  <2> QED
    BY <1>1, <2>1 DEF LeaseInv, Types, CallsTidy, FramesTidy, CachesSound, Counted, Current
<1>2. CASE Probe
  BY <1>2, <1>1 DEF Probe
<1>3. CASE UNCHANGED vars
  BY <1>3, <1>1 DEF vars
<1>4. ASSUME NEW u \in Users, Enter(u) PROVE LeaseInv'
  BY <1>4, EnterPlainKeeps, EnterCachingKeeps
<1>5. ASSUME NEW u \in Users, Begin(u) PROVE LeaseInv'
  BY <1>5, BeginKeeps
<1>6. ASSUME NEW u \in Users, Finish(u) PROVE LeaseInv'
  BY <1>6, FinishKeeps
<1>7. ASSUME NEW u \in Users, Settle(u) PROVE LeaseInv'
  BY <1>7, SettleKeeps
<1>8. ASSUME NEW u \in Users, ClearImports(u) PROVE LeaseInv'
  BY <1>8, ClearImportsKeeps
<1>9. CASE FrameFreed
  BY <1>9, FrameFreedKeeps
<1>10. CASE JobEnds
  BY <1>10, JobEndsKeeps
<1>11. CASE Recycle
  BY <1>11, RecycleKeeps
<1> QED
  BY <1>2, <1>3, <1>4, <1>5, <1>6, <1>7, <1>8, <1>9, <1>10, <1>11 DEF Next

-----------------------------------------------------------------------------
(* The tuple table: a submission that was tried before the first refusal   *)
(* can change the tuple once, and a refusal begins no submission.          *)

Tuple == [failures : 0..(Threshold + 1), skipped : 0..Retry, demoted : BOOLEAN]

TableTypes ==
  /\ dev \in [initialized : BOOLEAN, available : BOOLEAN]
  /\ tuples \in [Keys -> Tuple]
  /\ failed \in [Keys -> Nat] /\ denied \in [Keys -> Nat]

\* Failures counted are failures that happened with no success since.
FailedEnough ==
  \A k \in Keys : /\ tuples[k].demoted => failed[k] >= Threshold
                  /\ ~tuples[k].demoted => tuples[k].failures < Threshold
                  /\ ~tuples[k].demoted => tuples[k].failures <= failed[k]

\* Submissions of the tuple that are in the native call.
Native(k) == {u \in Users : call[u].at = "native" /\ call[u].key = k}

\* The tuple was demoted anew c times since one was tried: that took c times
\* Threshold + 1 of the submissions there were, and the refused is none of
\* them.  A tuple that just had a success has taken one more.
Budget(k, c) ==
  /\ tuples[k].demoted =>
       /\ denied[k] <= tuples[k].skipped + Retry * c
       /\ c * (Threshold + 1) + Cardinality(Native(k)) + 1 <= Cardinality(Users)
  /\ ~tuples[k].demoted =>
       /\ denied[k] <= Retry * c + Retry
       /\ c * (Threshold + 1) + Cardinality(Native(k)) + tuples[k].failures + 2 <= Cardinality(Users)

Budgeted == \A k \in Keys : denied[k] # 0 => \E c \in Nat : Budget(k, c)

TableInv == TableTypes /\ FailedEnough /\ Budgeted

LEMMA OneMore ==
  ASSUME NEW c \in Nat
  PROVE  /\ Retry * c \in Nat /\ c * (Threshold + 1) \in Nat
         /\ Retry * (c + 1) = Retry * c + Retry
         /\ (c + 1) * (Threshold + 1) = c * (Threshold + 1) + Threshold + 1
<1>1. Retry \in Nat /\ Threshold \in Nat
  BY TableAssumption
<1> QED
  BY <1>1

LEMMA NativeFinite ==
  ASSUME NEW S \in SUBSET Users
  PROVE  IsFiniteSet(S) /\ Cardinality(S) \in Nat /\ Cardinality(S) <= Cardinality(Users)
         /\ Cardinality(Users) \in Nat
BY UsersAssumption, FS_Subset, FS_CardinalityType

LEMMA TableInit == Init => TableInv
<1> SUFFICES ASSUME Init PROVE TableInv
  OBVIOUS
<1>1. /\ dev = [initialized |-> FALSE, available |-> FALSE]
      /\ tuples = [k \in Keys |-> [failures |-> 0, skipped |-> 0, demoted |-> FALSE]]
      /\ failed = [k \in Keys |-> 0] /\ denied = [k \in Keys |-> 0]
  BY DEF Init
<1>2. TableTypes
  BY <1>1, TableAssumption DEF TableTypes, Tuple
<1>3. FailedEnough
  BY <1>1, TableAssumption DEF FailedEnough
<1>4. Budgeted
  BY <1>1 DEF Budgeted
<1> QED
  BY <1>2, <1>3, <1>4 DEF TableInv

\* A step that leaves the table alone and begins no native call.
LEMMA TableQuiet ==
  ASSUME TableInv, UNCHANGED <<tuples, failed, denied>>,
         dev' \in [initialized : BOOLEAN, available : BOOLEAN],
         \A k \in Keys : Native(k)' \subseteq Native(k)
  PROVE  TableInv'
<1>1. TableTypes' /\ FailedEnough'
  BY DEF TableInv, TableTypes, FailedEnough
<1>2. Budgeted'
  <2> SUFFICES ASSUME NEW k \in Keys, denied[k] # 0 PROVE \E c \in Nat : Budget(k, c)'
    BY DEF Budgeted
  <2>1. PICK c \in Nat : Budget(k, c)
    BY DEF TableInv, Budgeted
  <2> DEFINE n == Cardinality(Native(k))
             m == Cardinality(Native(k)')
             x == c * (Threshold + 1)
             fl == tuples[k].failures
  <2>2. Native(k) \in SUBSET Users
    BY DEF Native
  <2>3. Native(k)' \in SUBSET Native(k)
    OBVIOUS
  <2>4. IsFiniteSet(Native(k)) /\ n \in Nat /\ Cardinality(Users) \in Nat
    BY <2>2, NativeFinite
  <2>5. m \in Nat /\ m <= n
    BY <2>3, <2>4, FS_Subset, FS_CardinalityType
  <2>6. x \in Nat /\ fl \in Nat
    <3>1. tuples[k] \in Tuple
      BY DEF TableInv, TableTypes
    <3> QED
      BY <3>1, OneMore, TableAssumption DEF Tuple
  <2>7. /\ tuples[k].demoted => x + n + 1 <= Cardinality(Users)
        /\ ~tuples[k].demoted => x + n + fl + 2 <= Cardinality(Users)
    BY <2>1 DEF Budget
  <2> HIDE DEF n, m, x, fl
  <2>8. /\ tuples[k].demoted => x + m + 1 <= Cardinality(Users)
        /\ ~tuples[k].demoted => x + m + fl + 2 <= Cardinality(Users)
    BY <2>4, <2>5, <2>6, <2>7
  <2>9. Budget(k, c)'
    BY <2>1, <2>8 DEF Budget, m, x, fl
  <2> QED
    BY <2>9
<1> QED
  BY <1>1, <1>2 DEF TableInv

LEMMA BeginCounts ==
  ASSUME LeaseInv, TableInv, NEW u \in Users, Begin(u)
  PROVE  TableInv'
<1>1. call \in [Users -> Calls] /\ call[u].key \in Keys /\ call[u].at = "entered"
  BY DEF Begin, LeaseInv, Types, CallsTidy
<1>0. PICK k0 \in Keys : k0 = call[u].key
  BY <1>1
<1> USE <1>0
<1>2. UNCHANGED <<dev, failed>> /\ TableTypes /\ FailedEnough
  BY DEF Begin, TableInv
<1>3. CASE ~dev.available
  <2>1. UNCHANGED <<tuples, denied>> /\ To(u, "over", "unavailable")
    BY <1>3 DEF Begin
  <2>2. \A k \in Keys : Native(k)' \subseteq Native(k)
    BY <2>1, <1>1 DEF Native, To
  <2> QED
    BY <2>1, <2>2, <1>2, TableQuiet DEF TableTypes
<1>4. CASE dev.available /\ TupleTried(tuples[k0])
  <2>1. /\ tuples' = [tuples EXCEPT ![k0] = [@ EXCEPT !.skipped = 0]] /\ To(u, "native", "none")
        /\ denied' = [denied EXCEPT ![k0] = 0]
    BY <1>4 DEF Begin, ShouldTry
  <2>2. tuples[k0] \in Tuple
    BY <1>1, <1>2 DEF TableTypes
  <2> DEFINE t == [tuples[k0] EXCEPT !.skipped = 0]
  <2>3. t \in Tuple /\ t.demoted = tuples[k0].demoted /\ t.failures = tuples[k0].failures
    BY <2>2, TableAssumption DEF Tuple
  <2>4. tuples' = [tuples EXCEPT ![k0] = t]
    BY <2>1
  <2> HIDE DEF t
  <2>5. /\ tuples' \in [Keys -> Tuple] /\ tuples'[k0] = t /\ \A k \in Keys : k # k0 => tuples'[k] = tuples[k]
        /\ denied' \in [Keys -> Nat] /\ denied'[k0] = 0 /\ \A k \in Keys : k # k0 => denied'[k] = denied[k]
    BY <2>1, <2>3, <2>4, <1>1, <1>2 DEF TableTypes
  <2>6. TableTypes'
    BY <2>5, <1>2 DEF TableTypes
  <2>7. FailedEnough'
    BY <2>3, <2>5, <1>2 DEF FailedEnough
  <2>8. Budgeted'
    <3> SUFFICES ASSUME NEW k \in Keys, denied'[k] # 0 PROVE \E c \in Nat : Budget(k, c)'
      BY DEF Budgeted
    <3>1. k # k0
      BY <2>5
    <3>2. denied'[k] = denied[k] /\ tuples'[k] = tuples[k]
      BY <3>1, <2>5
    <3>3. Native(k)' = Native(k)
      BY <3>1, <2>1, <1>1 DEF Native, To
    <3>4. PICK c \in Nat : Budget(k, c)
      BY <3>2 DEF TableInv, Budgeted
    <3>5. Budget(k, c)'
      BY <3>2, <3>3, <3>4 DEF Budget
    <3> QED
      BY <3>5
  <2> QED
    BY <2>6, <2>7, <2>8 DEF TableInv
<1>5. CASE dev.available /\ ~TupleTried(tuples[k0])
  <2> DEFINE t == [tuples[k0] EXCEPT !.skipped = @ + 1]
  <2>1. /\ tuples' = [tuples EXCEPT ![k0] = t] /\ To(u, "over", "demoted")
        /\ denied' = [denied EXCEPT ![k0] = @ + 1]
    BY <1>5 DEF Begin, ShouldTry
  <2>2. tuples[k0] \in Tuple /\ denied[k0] \in Nat
    BY <1>1, <1>2 DEF TableTypes
  <2>3. tuples[k0].demoted /\ tuples[k0].skipped < Retry /\ tuples[k0].skipped \in Nat
    BY <2>2, <1>5, TableAssumption DEF TupleTried, Tuple
  <2>4. t \in Tuple /\ t.demoted /\ t.skipped = tuples[k0].skipped + 1
    BY <2>2, <2>3, TableAssumption DEF Tuple
  <2> HIDE DEF t
  <2>5. /\ tuples' \in [Keys -> Tuple] /\ tuples'[k0] = t /\ \A k \in Keys : k # k0 => tuples'[k] = tuples[k]
        /\ denied' \in [Keys -> Nat] /\ denied'[k0] = denied[k0] + 1
        /\ \A k \in Keys : k # k0 => denied'[k] = denied[k]
    BY <2>1, <2>2, <2>4, <1>1, <1>2 DEF TableTypes
  <2>6. TableTypes'
    BY <2>5, <1>2 DEF TableTypes
  <2>7. FailedEnough'
    BY <2>3, <2>4, <2>5, <1>2 DEF FailedEnough
  <2>8. \A k \in Keys : Native(k)' = Native(k)
    BY <2>1, <1>1 DEF Native, To
  <2>9. Budgeted'
    <3> SUFFICES ASSUME NEW k \in Keys, denied'[k] # 0 PROVE \E c \in Nat : Budget(k, c)'
      BY DEF Budgeted
    <3>1. Native(k)' = Native(k)
      BY <2>8
    <3>2. CASE k # k0
      <4>1. denied'[k] = denied[k] /\ tuples'[k] = tuples[k]
        BY <3>2, <2>5
      <4>2. PICK c \in Nat : Budget(k, c)
        BY <4>1 DEF TableInv, Budgeted
      <4>3. Budget(k, c)'
        BY <3>1, <4>1, <4>2 DEF Budget
      <4> QED
        BY <4>3
    <3>3. CASE k = k0 /\ denied[k0] # 0
      <4>1. PICK c \in Nat : Budget(k0, c)
        BY <1>1, <3>3 DEF TableInv, Budgeted
      <4>2. /\ denied[k0] <= tuples[k0].skipped + Retry * c
            /\ c * (Threshold + 1) + Cardinality(Native(k0)) + 1 <= Cardinality(Users)
        BY <4>1, <2>3 DEF Budget
      <4> DEFINE y == Retry * c
      <4>3. y \in Nat
        BY OneMore
      <4>4. denied[k0] <= tuples[k0].skipped + y
        BY <4>2
      <4> HIDE DEF y
      <4>5. denied'[k0] <= t.skipped + y
        BY <4>3, <4>4, <2>2, <2>3, <2>4, <2>5
      <4>6. Budget(k0, c)'
        <5>1. denied'[k0] <= tuples'[k0].skipped + Retry * c
          BY <4>5, <2>5 DEF y
        <5>2. tuples'[k0].demoted
          BY <2>4, <2>5
        <5>3. Native(k0)' = Native(k0)
          BY <2>8, <1>1
        <5> QED
          BY <5>1, <5>2, <5>3, <4>2 DEF Budget
      <4> QED
        BY <4>6, <3>3
    <3>4. CASE k = k0 /\ denied[k0] = 0
      <4>1. u \notin Native(k0) /\ Native(k0) \cup {u} \in SUBSET Users /\ Native(k0) \in SUBSET Users
        BY <1>1 DEF Native
      <4>2. IsFiniteSet(Native(k0)) /\ Cardinality(Native(k0)) \in Nat
        BY <4>1, NativeFinite
      <4>3. Cardinality(Native(k0) \cup {u}) = Cardinality(Native(k0)) + 1
        BY <4>1, <4>2, FS_AddElement
      <4>4. Cardinality(Native(k0)) + 1 <= Cardinality(Users)
        BY <4>1, <4>3, NativeFinite
      <4>5. Retry * 0 = 0 /\ 0 * (Threshold + 1) = 0
        BY TableAssumption
      <4>6. denied'[k0] <= tuples'[k0].skipped + Retry * 0
        BY <4>5, <3>4, <2>3, <2>4, <2>5
      <4>7. tuples'[k0].demoted /\ Native(k0)' = Native(k0)
        BY <2>4, <2>5, <2>8, <1>1
      <4>8. 0 * (Threshold + 1) + Cardinality(Native(k0)) + 1 <= Cardinality(Users)
        BY <4>2, <4>4, <4>5
      <4>9. Budget(k0, 0)'
        BY <4>6, <4>7, <4>8 DEF Budget
      <4> QED
        BY <4>9, <3>4
    <3> QED
      BY <3>2, <3>3, <3>4
  <2> QED
    BY <2>6, <2>7, <2>9 DEF TableInv
<1> QED
  BY <1>3, <1>4, <1>5

\* The table after a submission of k0 that was under way has ended as t.
LEMMA EndedCounts ==
  ASSUME TableInv, NEW k0 \in Keys, NEW t \in Tuple, NEW n \in Nat,
         UNCHANGED <<dev, denied>>,
         tuples' = [tuples EXCEPT ![k0] = t], failed' = [failed EXCEPT ![k0] = n],
         t.demoted => n >= Threshold,
         ~t.demoted => t.failures < Threshold /\ t.failures <= n,
         \A k \in Keys : k # k0 => Native(k)' = Native(k),
         denied[k0] # 0 => \E c \in Nat : Budget(k0, c)'
  PROVE  TableInv'
<1>1. TableTypes /\ FailedEnough /\ Budgeted
  BY DEF TableInv
<1>2. /\ tuples' \in [Keys -> Tuple] /\ tuples'[k0] = t /\ \A k \in Keys : k # k0 => tuples'[k] = tuples[k]
      /\ failed' \in [Keys -> Nat] /\ failed'[k0] = n /\ \A k \in Keys : k # k0 => failed'[k] = failed[k]
  BY <1>1 DEF TableTypes
<1>3. TableTypes'
  BY <1>1, <1>2 DEF TableTypes
<1>4. FailedEnough'
  BY <1>1, <1>2 DEF FailedEnough
<1>5. Budgeted'
  <2> SUFFICES ASSUME NEW k \in Keys, denied[k] # 0 PROVE \E c \in Nat : Budget(k, c)'
    BY DEF Budgeted
  <2>1. CASE k = k0
    BY <2>1
  <2>2. CASE k # k0
    <3>1. PICK c \in Nat : Budget(k, c)
      BY <1>1 DEF Budgeted
    <3>2. Budget(k, c)'
      BY <3>1, <2>2, <1>2 DEF Budget
    <3> QED
      BY <3>2
  <2> QED
    BY <2>1, <2>2
<1> QED
  BY <1>3, <1>4, <1>5 DEF TableInv

LEMMA FinishCounts ==
  ASSUME LeaseInv, TableInv, NEW u \in Users, Finish(u)
  PROVE  TableInv'
<1>1. call \in [Users -> Calls] /\ call[u].key \in Keys /\ call[u].at = "native"
  BY DEF Finish, LeaseInv, Types, CallsTidy
<1>2. PICK k0 \in Keys : k0 = call[u].key
  BY <1>1
<1> DEFINE tu == tuples[k0]
           Ok == /\ tuples' = [tuples EXCEPT ![k0] = TupleSucceeded(@)]
                 /\ failed' = [failed EXCEPT ![k0] = 0]
                 /\ UNCHANGED dev
           Lost == dev' = [dev EXCEPT !.available = FALSE] /\ UNCHANGED <<tuples, failed>>
           Fail == /\ tuples' = [tuples EXCEPT ![k0] = TupleFailed(@)]
                   /\ failed' = [failed EXCEPT ![k0] = IF @ > Threshold THEN @ ELSE @ + 1]
                   /\ UNCHANGED dev
<1>3. (Ok \/ Lost \/ Fail) /\ UNCHANGED denied /\ \E r \in Outcomes : To(u, "over", Result(r))
  BY <1>2 DEF Finish
<1>4. \A k \in Keys : Native(k)' = Native(k) \ {u}
  BY <1>1, <1>3 DEF Native, To
<1>5. \A k \in Keys : k # k0 => Native(k)' = Native(k)
  BY <1>2, <1>4 DEF Native
<1>6. TableTypes /\ FailedEnough /\ Budgeted
  BY DEF TableInv
<1>7. tu \in Tuple /\ failed[k0] \in Nat /\ denied[k0] \in Nat
  BY <1>6 DEF TableTypes
<1>8. tu.failures \in Nat /\ tu.skipped \in Nat /\ tu.skipped <= Retry /\ tu.failures <= Threshold + 1
      /\ Threshold \in Nat /\ Threshold # 0 /\ Retry \in Nat
  BY <1>7, TableAssumption DEF Tuple
<1>9. PICK n \in Nat, m \in Nat, N \in Nat :
        /\ n = Cardinality(Native(k0)) /\ N = Cardinality(Users)
        /\ m = Cardinality(Native(k0)') /\ m + 1 = n
  <2>1. u \in Native(k0) /\ Native(k0) \in SUBSET Users /\ Native(k0)' = Native(k0) \ {u}
    BY <1>1, <1>2, <1>4 DEF Native
  <2>2. IsFiniteSet(Native(k0)) /\ Cardinality(Native(k0)) \in Nat /\ Cardinality(Users) \in Nat
    BY <2>1, NativeFinite
  <2>3. IsFiniteSet(Native(k0) \ {u}) /\ Cardinality(Native(k0) \ {u}) = Cardinality(Native(k0)) - 1
    BY <2>1, <2>2, FS_RemoveElement
  <2>4. Cardinality(Native(k0) \ {u}) \in Nat
    BY <2>3, FS_CardinalityType
  <2> QED
    BY <2>1, <2>2, <2>3, <2>4
\* What the budget said of the tuple before, its products named.
<1>10. ASSUME denied[k0] # 0
       PROVE  \E c \in Nat : \E x \in Nat, y \in Nat :
                /\ x = c * (Threshold + 1) /\ y = Retry * c
                /\ (c + 1) * (Threshold + 1) = x + Threshold + 1 /\ Retry * (c + 1) = y + Retry
                /\ tu.demoted => denied[k0] <= tu.skipped + y /\ x + n + 1 <= N
                /\ ~tu.demoted => denied[k0] <= y + Retry /\ x + n + tu.failures + 2 <= N
  <2>1. PICK c \in Nat : Budget(k0, c)
    BY <1>6, <1>10 DEF Budgeted
  <2>2. PICK x \in Nat, y \in Nat :
          /\ x = c * (Threshold + 1) /\ y = Retry * c
          /\ (c + 1) * (Threshold + 1) = x + Threshold + 1 /\ Retry * (c + 1) = y + Retry
    BY OneMore
  <2>3. /\ tu.demoted => denied[k0] <= tu.skipped + y /\ x + n + 1 <= N
        /\ ~tu.demoted => denied[k0] <= y + Retry /\ x + n + tu.failures + 2 <= N
    BY <2>1, <2>2, <1>9 DEF Budget
  <2> QED
    BY <2>2, <2>3
<1> HIDE DEF tu, Ok, Lost, Fail
<1>11. CASE Ok
  <2> DEFINE t == [tu EXCEPT !.failures = 0, !.demoted = FALSE]
  <2>1. t \in Tuple /\ t.failures = 0 /\ ~t.demoted
    <3>1. 0 \in 0..(Threshold + 1)
      BY <1>8
    <3> QED
      BY <3>1, <1>7 DEF Tuple
  <2>2. tuples' = [tuples EXCEPT ![k0] = t] /\ failed' = [failed EXCEPT ![k0] = 0] /\ UNCHANGED dev
    BY <1>11 DEF Ok, TupleSucceeded, tu
  <2> HIDE DEF t
  <2>3. tuples'[k0] = t
    BY <2>2, <1>6 DEF TableTypes
  <2>4. ASSUME denied[k0] # 0 PROVE \E c \in Nat : Budget(k0, c)'
    <3>1. PICK c \in Nat : \E x \in Nat, y \in Nat :
                /\ x = c * (Threshold + 1) /\ y = Retry * c
                /\ tu.demoted => denied[k0] <= tu.skipped + y /\ x + n + 1 <= N
                /\ ~tu.demoted => denied[k0] <= y + Retry /\ x + n + tu.failures + 2 <= N
      BY <1>10, <2>4
    <3>2. PICK x \in Nat, y \in Nat :
                /\ x = c * (Threshold + 1) /\ y = Retry * c
                /\ tu.demoted => denied[k0] <= tu.skipped + y /\ x + n + 1 <= N
                /\ ~tu.demoted => denied[k0] <= y + Retry /\ x + n + tu.failures + 2 <= N
      BY <3>1
    <3>3. denied[k0] <= y + Retry /\ x + m + 0 + 2 <= N
      BY <3>2, <1>7, <1>8, <1>9
    <3>4. Budget(k0, c)'
      BY <3>2, <3>3, <2>1, <2>3, <1>3, <1>9 DEF Budget
    <3> QED
      BY <3>4
  <2>5. t.failures < Threshold /\ t.failures <= 0 /\ 0 \in Nat
    BY <2>1, <1>8
  <2> QED
    BY <2>1, <2>2, <2>4, <2>5, <1>3, <1>5, EndedCounts
<1>12. CASE Lost
  <2>1. dev' \in [initialized : BOOLEAN, available : BOOLEAN]
    BY <1>6, <1>12 DEF Lost, TableTypes
  <2>2. \A k \in Keys : Native(k)' \subseteq Native(k)
    BY <1>4
  <2> QED
    BY <2>1, <2>2, <1>3, <1>12, TableQuiet DEF Lost
<1>13. CASE Fail
  <2> DEFINE t == TupleFailed(tu)
             f == IF failed[k0] > Threshold THEN failed[k0] ELSE failed[k0] + 1
  <2>1. tuples' = [tuples EXCEPT ![k0] = t] /\ failed' = [failed EXCEPT ![k0] = f] /\ UNCHANGED dev
    BY <1>13 DEF Fail, tu
  <2>2. tu.demoted => failed[k0] >= Threshold
    BY <1>6 DEF FailedEnough, tu
  <2>3. ~tu.demoted => tu.failures < Threshold /\ tu.failures <= failed[k0]
    BY <1>6 DEF FailedEnough, tu
  <2>4. \/ /\ ~tu.demoted /\ tu.failures + 1 >= Threshold
           /\ t \in Tuple /\ t.demoted /\ t.skipped = 0
        \/ /\ ~tu.demoted /\ tu.failures + 1 < Threshold
           /\ t \in Tuple /\ ~t.demoted /\ t.failures = tu.failures + 1
        \/ /\ tu.demoted
           /\ t \in Tuple /\ t.demoted /\ t.skipped = tu.skipped
    <3>1. CASE ~tu.demoted /\ tu.failures + 1 >= Threshold
      BY <3>1, <1>7, <1>8 DEF TupleFailed, Tuple
    <3>2. CASE ~tu.demoted /\ tu.failures + 1 < Threshold
      <4>1. t = [tu EXCEPT !.failures = tu.failures + 1]
        BY <3>2, <1>7, <1>8 DEF TupleFailed, Tuple
      <4> QED
        BY <4>1, <3>2, <1>7, <1>8 DEF Tuple
    <3>3. CASE tu.demoted
      <4>1. t = [tu EXCEPT !.failures = IF @ > Threshold THEN @ ELSE @ + 1]
        BY <3>3 DEF TupleFailed
      <4> QED
        BY <4>1, <3>3, <1>7, <1>8 DEF Tuple
    <3>4. tu.failures + 1 >= Threshold \/ tu.failures + 1 < Threshold
      BY <1>8
    <3> QED
      BY <3>1, <3>2, <3>3, <3>4
  <2> HIDE DEF t
  <2>5. f \in Nat /\ f >= failed[k0] /\ (f > Threshold \/ f = failed[k0] + 1)
    BY <1>7, <1>8
  <2> HIDE DEF f
  <2>6. tuples'[k0] = t
    BY <2>1, <1>6 DEF TableTypes
  <2>7. t \in Tuple /\ (t.demoted => f >= Threshold) /\ (~t.demoted => t.failures < Threshold /\ t.failures <= f)
    BY <2>2, <2>3, <2>4, <2>5, <1>7, <1>8
  <2>8. ASSUME denied[k0] # 0 PROVE \E c \in Nat : Budget(k0, c)'
    <3>1. PICK c \in Nat : \E x \in Nat, y \in Nat :
                /\ x = c * (Threshold + 1) /\ y = Retry * c
                /\ (c + 1) * (Threshold + 1) = x + Threshold + 1 /\ Retry * (c + 1) = y + Retry
                /\ tu.demoted => denied[k0] <= tu.skipped + y /\ x + n + 1 <= N
                /\ ~tu.demoted => denied[k0] <= y + Retry /\ x + n + tu.failures + 2 <= N
      BY <1>10, <2>8
    <3>2. PICK x \in Nat, y \in Nat :
                /\ x = c * (Threshold + 1) /\ y = Retry * c
                /\ (c + 1) * (Threshold + 1) = x + Threshold + 1 /\ Retry * (c + 1) = y + Retry
                /\ tu.demoted => denied[k0] <= tu.skipped + y /\ x + n + 1 <= N
                /\ ~tu.demoted => denied[k0] <= y + Retry /\ x + n + tu.failures + 2 <= N
      BY <3>1
    <3>3. CASE ~tu.demoted /\ tu.failures + 1 >= Threshold
      <4>1. t.demoted /\ t.skipped = 0
        BY <2>4, <3>3, <1>8
      <4>2. denied[k0] <= 0 + (y + Retry) /\ (x + Threshold + 1) + m + 1 <= N
        BY <3>2, <3>3, <1>7, <1>8, <1>9
      <4>3. Budget(k0, c + 1)'
        BY <4>1, <4>2, <3>2, <2>6, <1>3, <1>9 DEF Budget
      <4>4. c + 1 \in Nat
        OBVIOUS
      <4> QED
        BY <4>3, <4>4
    <3>4. CASE ~tu.demoted /\ tu.failures + 1 < Threshold
      <4>1. ~t.demoted /\ t.failures = tu.failures + 1
        BY <2>4, <3>4, <1>8
      <4>2. denied[k0] <= y + Retry /\ x + m + t.failures + 2 <= N
        BY <4>1, <3>2, <3>4, <1>7, <1>8, <1>9
      <4>3. Budget(k0, c)'
        BY <4>1, <4>2, <3>2, <2>6, <1>3, <1>9 DEF Budget
      <4> QED
        BY <4>3
    <3>5. CASE tu.demoted
      <4>1. t.demoted /\ t.skipped = tu.skipped
        BY <2>4, <3>5
      <4>2. denied[k0] <= t.skipped + y /\ x + m + 1 <= N
        BY <4>1, <3>2, <3>5, <1>7, <1>8, <1>9
      <4>3. Budget(k0, c)'
        BY <4>1, <4>2, <3>2, <2>6, <1>3, <1>9 DEF Budget
      <4> QED
        BY <4>3
    <3>6. tu.failures + 1 >= Threshold \/ tu.failures + 1 < Threshold
      BY <1>8
    <3> QED
      BY <3>3, <3>4, <3>5, <3>6
  <2> QED
    BY <2>1, <2>5, <2>7, <2>8, <1>3, <1>5, EndedCounts
<1> QED
  BY <1>3, <1>11, <1>12, <1>13

LEMMA TableStep == LeaseInv /\ TableInv /\ [Next]_vars => TableInv'
<1> SUFFICES ASSUME LeaseInv, TableInv, [Next]_vars PROVE TableInv'
  OBVIOUS
<1>1. call \in [Users -> Calls] /\ dev \in [initialized : BOOLEAN, available : BOOLEAN]
  BY DEF LeaseInv, Types, TableInv, TableTypes
<1>2. CASE /\ UNCHANGED <<tuples, failed, denied>>
           /\ dev' \in [initialized : BOOLEAN, available : BOOLEAN]
           /\ UNCHANGED call
  <2>1. \A k \in Keys : Native(k)' \subseteq Native(k)
    BY <1>2 DEF Native
  <2> QED
    BY <2>1, <1>2, TableQuiet
<1>3. CASE Probe
  <2>1. dev' \in [initialized : BOOLEAN, available : BOOLEAN]
    BY <1>3 DEF Probe
  <2> QED
    BY <2>1, <1>2, <1>3 DEF Probe
<1>4. CASE FrameFreed \/ JobEnds \/ Recycle \/ UNCHANGED vars
  BY <1>1, <1>2, <1>4 DEF FrameFreed, JobEnds, Recycle, vars
<1>5. ASSUME NEW u \in Users, ClearImports(u) PROVE TableInv'
  BY <1>1, <1>2, <1>5 DEF ClearImports
<1>6. ASSUME NEW u \in Users, Enter(u) PROVE TableInv'
  <2>1. \A k \in Keys : Native(k)' \subseteq Native(k)
    <3>1. \A v \in Users : v # u => call'[v] = call[v]
      BY ZenonT(30), <1>1, <1>6 DEF Enter, EnterCaching, EnterPlain
    <3>2. call'[u].at = "entered"
      <4>1. CASE u \in Caching
        <5>1. PICK q \in Seq(Entry) : \E a \in Ids, b \in Ids, src \in Fds, dst \in Fds, k \in Keys,
                    f \in FreeFrames : Enters(u, q, a, b, src, dst, k, f)
          BY <4>1, <1>6, EnterCachingDoes DEF Enter
        <5>2. PICK a \in Ids, b \in Ids, src \in Fds, dst \in Fds, k \in Keys, f \in FreeFrames :
                Enters(u, q, a, b, src, dst, k, f)
          BY <5>1
        <5>3. call' = [call EXCEPT ![u] = [NoCall EXCEPT !.at = "entered", !.key = k, !.leases = <<a, b>>,
                                                        !.fds = <<src, dst>>, !.frame = f]]
          BY <5>2 DEF Enters
        <5> QED
          BY <5>3, <1>1 DEF NoCall
      <4>2. CASE u \notin Caching
        BY <4>2, <1>1, <1>6 DEF Enter, EnterPlain, NoCall
      <4> QED
        BY <4>1, <4>2
    <3> QED
      BY <3>1, <3>2 DEF Native
  <2> QED
    BY <2>1, <1>1, <1>6, TableQuiet DEF Enter
<1>7. ASSUME NEW u \in Users, Settle(u) PROVE TableInv'
  <2>1. \A k \in Keys : Native(k)' \subseteq Native(k)
    BY <1>1, <1>7 DEF Settle, Native, NoCall
  <2> QED
    BY <2>1, <1>1, <1>7, TableQuiet DEF Settle
<1>8. ASSUME NEW u \in Users, Begin(u) PROVE TableInv'
  BY <1>8, BeginCounts
<1>9. ASSUME NEW u \in Users, Finish(u) PROVE TableInv'
  BY <1>9, FinishCounts
<1> QED
  BY <1>3, <1>4, <1>5, <1>6, <1>7, <1>8, <1>9 DEF Next

-----------------------------------------------------------------------------
(* The theorems *)

LEMMA Invariants == Spec => [](LeaseInv /\ TableInv)
<1>1. Init => LeaseInv /\ TableInv
  BY LeaseInit, TableInit
<1>2. (LeaseInv /\ TableInv) /\ [Next]_vars => (LeaseInv /\ TableInv)'
  BY LeaseStep, TableStep
<1> QED
  BY <1>1, <1>2, PTL DEF Spec

LEMMA LeaseInvTyped == LeaseInv /\ TableInv => TypeOK
<1> SUFFICES ASSUME LeaseInv, TableInv PROVE TypeOK
  OBVIOUS
<1>1. /\ dev \in [initialized : BOOLEAN, available : BOOLEAN]
      /\ tuples \in [Keys -> [failures : 0..Threshold + 1, skipped : 0..Retry, demoted : BOOLEAN]]
  BY DEF TableInv, TableTypes, Tuple
<1>2. ASSUME NEW u \in Users
      PROVE  /\ Len(cache[u]) <= CacheMax /\ Range(cache[u]) \subseteq Entries
             /\ \A i, j \in DOMAIN cache[u] : cache[u][i].fd = cache[u][j].fd /\ i # j =>
                  cache[u][i].retired \/ cache[u][j].retired
  <2>1. Sound(cache[u]) /\ call[u].leases \in Pairs
    BY DEF LeaseInv, CachesSound, Types, Calls
  <2>2. ASSUME NEW i \in DOMAIN cache[u] PROVE cache[u][i] \in Entries
    <3> DEFINE e == cache[u][i]
    <3>1. e \in Entry
      BY <2>1 DEF Sound
    <3>2. e.id \in 1..CacheMax /\ e.users \in Nat
      BY <3>1 DEF Entry
    <3>3. UsersOf(cache[u], e.id) = e.users
      BY <2>1, UsersAt DEF Sound
    <3>4. UsersOf(cache[u], e.id) = (IF call[u].frame = "none" THEN Count(call[u].leases, e.id) ELSE 0)
                                    + Cardinality(FL(frames, u, e.id))
      BY <3>2, LeasesAreUsers
    <3>5. Cardinality(FL(frames, u, e.id)) \in Nat
          /\ Cardinality(FL(frames, u, e.id)) <= 2 * Cardinality(FrameIds)
          /\ Count(call[u].leases, e.id) \in 0..2 /\ Cardinality(FrameIds) \in Nat
      BY <2>1, FLFinite, CountType, FS_CardinalityType, CacheAssumption
    <3> HIDE DEF e
    <3>6. e.users <= 2 * Cardinality(FrameIds) + 2
      BY <3>3, <3>4, <3>5
    <3>7. e.users \in 0..(2 * Cardinality(FrameIds) + 2)
      BY <3>2, <3>5, <3>6
    <3>8. e \in Entries
      BY <3>1, <3>7 DEF Entry, Entries
    <3> QED
      BY <3>8 DEF e
  <2>3. Range(cache[u]) \subseteq Entries
    BY <2>2 DEF Range
  <2> QED
    BY <2>1, <2>3 DEF Sound, OneLive
<1> QED
  BY <1>1, <1>2 DEF TypeOK

LEMMA LeaseInvExact == LeaseInv => LeasesCounted /\ HandleCurrent
<1> SUFFICES ASSUME LeaseInv PROVE LeasesCounted /\ HandleCurrent
  OBVIOUS
<1>1. LeasesCounted
  <2> SUFFICES ASSUME NEW u \in Users
               PROVE  /\ \A i \in DOMAIN cache[u] : cache[u][i].users = Leased(u, cache[u][i].id)
                      /\ \A id \in 1..CacheMax : Leased(u, id) > 0 =>
                           \E i \in DOMAIN cache[u] : cache[u][i].id = id
    BY DEF LeasesCounted
  <2>1. Sound(cache[u]) /\ \A id \in 1..CacheMax : UsersOf(cache[u], id) = Leased(u, id)
    BY DEF LeaseInv, CachesSound, Counted
  <2>2. ASSUME NEW i \in DOMAIN cache[u] PROVE cache[u][i].users = Leased(u, cache[u][i].id)
    <3>1. cache[u][i] \in Entry
      BY <2>1 DEF Sound
    <3>2. cache[u][i].id \in 1..CacheMax
      BY <3>1 DEF Entry
    <3>3. UsersOf(cache[u], cache[u][i].id) = cache[u][i].users
      BY <2>1, UsersAt DEF Sound
    <3> QED
      BY <3>2, <3>3, <2>1
  <2>3. ASSUME NEW id \in 1..CacheMax, Leased(u, id) > 0
        PROVE  \E i \in DOMAIN cache[u] : cache[u][i].id = id
    <3>1. UsersOf(cache[u], id) # 0
      BY <2>1, <2>3
    <3> QED
      BY <3>1, UsersNone DEF Has
  <2> QED
    BY <2>2, <2>3
<1>2. HandleCurrent
  <2> SUFFICES ASSUME NEW u \in Users, call[u].at = "native", NEW j \in DOMAIN Handles(u)
               PROVE  \E i \in DOMAIN cache[u] : /\ cache[u][i].id = Handles(u)[j]
                                                 /\ cache[u][i].fd = call[u].fds[j]
                                                 /\ cache[u][i].ident = behind[call[u].fds[j]]
    BY DEF HandleCurrent
  <2>1. NoLease \notin Range(call[u].leases) /\ Handles(u) = call[u].leases
    <3>1. DOMAIN <<>> = {}
      OBVIOUS
    <3> QED
      BY <3>1 DEF Handles
  <2>2. call[u].leases[j] # NoLease
    BY <2>1 DEF Range
  <2>3. Carries(cache[u], call[u].leases[j], call[u].fds[j], behind)
    BY <2>1, <2>2 DEF LeaseInv, Current
  <2> QED
    BY <2>1, <2>3 DEF Carries
<1> QED
  BY <1>1, <1>2

\* Cached imports are as good as fresh ones: an entry's users are the leases
\* on it, in a call or in a frame that outlived it, also across a clearing of
\* the cache; and a handle given to the library is the import of the buffer
\* that is behind its descriptor now.
THEOREM CachedAsFresh == Spec => []LeasesExact
<1>1. LeaseInv /\ TableInv => LeasesExact
  BY LeaseInvTyped, LeaseInvExact DEF LeasesExact
<1> QED
  BY <1>1, Invariants, PTL

LEMMA Quotient ==
  ASSUME NEW a \in Nat, NEW d \in Nat \ {0}, NEW c \in Nat, c * d <= a
  PROVE  c <= a \div d /\ a \div d \in Nat
<1> DEFINE e == a \div d
           r == a % d
<1>1. e \in Nat /\ r \in 0..(d - 1) /\ a = d * e + r
  OBVIOUS
<1> HIDE DEF e, r
<1>2. SUFFICES ASSUME c > e PROVE FALSE
  BY <1>1 DEF e
<1>3. c >= e + 1
  BY <1>1, <1>2
<1>4. c * d >= (e + 1) * d
  BY <1>1, <1>3
<1>5. (e + 1) * d = d * e + d
  BY <1>1
<1> QED
  BY <1>1, <1>4, <1>5

\* However many elements overlap on a tuple, it is refused only after
\* Threshold failures with no success since, and in a row at most Retry times
\* for each round of Threshold + 1 other submissions there can be.
THEOREM NeverForLong == Spec => []RefusalsBounded
<1>1. LeaseInv /\ TableInv => RefusalsBounded
  <2> SUFFICES ASSUME TableInv, NEW k \in Keys
               PROVE  denied[k] <= Retry * Rounds /\ (tuples[k].demoted => failed[k] >= Threshold)
    BY DEF RefusalsBounded
  <2>1. tuples[k].demoted => failed[k] >= Threshold
    BY DEF TableInv, FailedEnough
  <2>2. tuples[k] \in Tuple /\ denied[k] \in Nat
    BY DEF TableInv, TableTypes
  <2>3. tuples[k].skipped \in Nat /\ tuples[k].skipped <= Retry /\ tuples[k].failures \in Nat
        /\ Threshold \in Nat /\ Retry \in Nat /\ Threshold # 0
    BY <2>2, TableAssumption DEF Tuple
  <2>4. CASE denied[k] = 0
    <3>1. Cardinality(Users) \in Nat
      BY UsersAssumption, FS_CardinalityType
    <3>2. CASE Cardinality(Users) = 0
      <4>1. Rounds \in Nat
        <5>1. (0 - 1) \div (Threshold + 1) = -1
          BY <2>3
        <5> QED
          BY <5>1, <3>2 DEF Rounds
      <4> QED
        BY <4>1, <2>1, <2>3, <2>4
    <3>3. CASE Cardinality(Users) # 0
      <4>1. Cardinality(Users) - 1 \in Nat /\ Threshold + 1 \in Nat \ {0} /\ 0 * (Threshold + 1) <= Cardinality(Users) - 1
        BY <3>1, <3>3, <2>3
      <4>2. (Cardinality(Users) - 1) \div (Threshold + 1) \in Nat
        BY <4>1, Quotient
      <4>3. Rounds \in Nat
        BY <4>2 DEF Rounds
      <4> QED
        BY <4>3, <2>1, <2>3, <2>4
    <3> QED
      BY <3>2, <3>3
  <2>5. CASE denied[k] # 0
    <3>1. PICK c \in Nat : Budget(k, c)
      BY <2>5 DEF TableInv, Budgeted
    <3>2. Native(k) \in SUBSET Users
      BY DEF Native
    <3>3. Cardinality(Native(k)) \in Nat /\ Cardinality(Users) \in Nat
      BY <3>2, NativeFinite
    <3> DEFINE x == c * (Threshold + 1)
               y == Retry * c
               a == Cardinality(Users) - 1
               e == a \div (Threshold + 1)
    <3>4. x \in Nat /\ y \in Nat /\ Retry * (c + 1) = y + Retry
      BY OneMore
    <3>5. /\ tuples[k].demoted =>
                denied[k] <= tuples[k].skipped + y /\ x + Cardinality(Native(k)) + 1 <= Cardinality(Users)
          /\ ~tuples[k].demoted =>
                denied[k] <= y + Retry
                /\ x + Cardinality(Native(k)) + tuples[k].failures + 2 <= Cardinality(Users)
      BY <3>1 DEF Budget
    <3> HIDE DEF x, y
    <3>6. denied[k] <= Retry + y /\ x <= a /\ a \in Nat
      BY <3>3, <3>4, <3>5, <2>2, <2>3
    <3> HIDE DEF a
    <3>7. c <= e /\ e \in Nat
      <4>1. Threshold + 1 \in Nat \ {0} /\ c * (Threshold + 1) <= a
        BY <3>6, <2>3 DEF x
      <4> QED
        BY <4>1, <3>6, Quotient
    <3>8. Rounds = 1 + e
      BY DEF Rounds, a
    <3> HIDE DEF e
    <3>9. Retry * (c + 1) <= Retry * (1 + e)
      BY <3>7, <2>3
    <3> QED
      BY <3>4, <3>6, <3>8, <3>9, <2>1, <2>2, <2>3
  <2> QED
    BY <2>4, <2>5
<1> QED
  BY <1>1, Invariants, PTL

=============================================================================
