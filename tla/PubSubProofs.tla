---------------------------- MODULE PubSubProofs ----------------------------
(***************************************************************************)
(* Proofs about PubSub: IInv is inductive, and with it hold the types, the *)
(* order of delivery, the watermarks and the agreement of client and       *)
(* broker on the subscriptions.  With CaughtInv besides, a client that     *)
(* does not interrupt _replay, with subscriptions that do not overlap, is  *)
(* caught up.                                                              *)
(***************************************************************************)
EXTENDS PubSub, FiniteSetTheorems, SequenceTheorems, TLAPS

-----------------------------------------------------------------------------
(* Numbers, sequences and records.                                         *)

\* A block of offsets ends after the offset that begins it.
LEMMA CeilingFacts ==
    ASSUME NEW n \in Nat
    PROVE  Ceiling(n) \in Nat /\ n < Ceiling(n)
  <1> DEFINE a == n + OffsetBlock
             q == a \div OffsetBlock
             r == a % OffsetBlock
  <1>1. OffsetBlock \in Nat \ {0} /\ a \in Nat
    BY PubSubAssumption
  <1>2. q \in Nat /\ r \in 0 .. OffsetBlock - 1 /\ a = OffsetBlock * q + r
    <2> HIDE DEF a
    <2>1. q \in Nat
      BY <1>1
    <2>2. r \in 0 .. OffsetBlock - 1
      BY <1>1
    <2>3. a = OffsetBlock * q + r
      BY <1>1
    <2> QED
      BY <2>1, <2>2, <2>3
  <1>3. Ceiling(n) = q * OffsetBlock
    BY DEF Ceiling
  <1> HIDE DEF q, r
  <1>4. q * OffsetBlock = OffsetBlock * q /\ q * OffsetBlock \in Nat
    BY <1>1, <1>2
  <1> QED
    BY <1>1, <1>2, <1>3, <1>4

\* What a sequence holds, and what it holds when it grows and shrinks.
LEMMA MembersFacts ==
    ASSUME NEW S, NEW q \in Seq(S)
    PROVE  ToSet(q) \subseteq S /\ \A i \in 1 .. Len(q) : q[i] \in ToSet(q)
  <1>1. DOMAIN q = 1 .. Len(q) /\ \A i \in 1 .. Len(q) : q[i] \in S
    BY LenProperties
  <1> QED
    BY <1>1 DEF ToSet

LEMMA AppendFacts ==
    ASSUME NEW S, NEW q \in Seq(S), NEW x \in S
    PROVE  /\ Append(q, x) \in Seq(S) /\ Len(Append(q, x)) = Len(q) + 1 /\ Len(q) \in Nat
           /\ \A i \in 1 .. Len(q) : Append(q, x)[i] = q[i]
           /\ Append(q, x)[Len(q) + 1] = x
           /\ ToSet(Append(q, x)) = ToSet(q) \cup {x}
  <1>1. /\ Append(q, x) \in Seq(S) /\ Len(Append(q, x)) = Len(q) + 1
        /\ \A i \in 1 .. Len(q) : Append(q, x)[i] = q[i]
        /\ Append(q, x)[Len(q) + 1] = x
    BY AppendProperties
  <1>2. /\ Len(q) \in Nat /\ DOMAIN q = 1 .. Len(q)
        /\ DOMAIN Append(q, x) = 1 .. Len(q) + 1
    BY <1>1, LenProperties
  <1>3. \A i \in 1 .. Len(q) + 1 : i \in 1 .. Len(q) \/ i = Len(q) + 1
    BY <1>2
  <1>4. 1 .. Len(q) \subseteq 1 .. Len(q) + 1 /\ Len(q) + 1 \in 1 .. Len(q) + 1
    BY <1>2
  <1>5. ToSet(Append(q, x)) = ToSet(q) \cup {x}
    BY <1>1, <1>2, <1>3, <1>4 DEF ToSet
  <1> QED
    BY <1>1, <1>2, <1>5

LEMMA TailFacts ==
    ASSUME NEW S, NEW q \in Seq(S), q # <<>>
    PROVE  /\ Tail(q) \in Seq(S) /\ Len(Tail(q)) = Len(q) - 1 /\ Len(q) \in Nat \ {0}
           /\ \A i \in 1 .. Len(q) - 1 : Tail(q)[i] = q[i + 1]
           /\ Head(q) \in S /\ Head(q) = q[1] /\ Head(q) \in ToSet(q)
           /\ ToSet(Tail(q)) \subseteq ToSet(q)
  <1>1. /\ Head(q) \in S /\ Tail(q) \in Seq(S) /\ Head(q) = q[1]
        /\ Len(Tail(q)) = Len(q) - 1 /\ \A i \in 1 .. Len(Tail(q)) : Tail(q)[i] = q[i + 1]
    BY HeadTailProperties
  <1>2. Len(q) \in Nat \ {0} /\ DOMAIN q = 1 .. Len(q)
    BY LenProperties, EmptySeq
  <1>3. DOMAIN Tail(q) = 1 .. Len(q) - 1
    BY <1>1, LenProperties
  <1>4. 1 \in DOMAIN q /\ \A i \in 1 .. Len(q) - 1 : i + 1 \in 1 .. Len(q)
    BY <1>2
  <1> QED
    BY <1>1, <1>2, <1>3, <1>4 DEF ToSet

LEMMA ConcatFacts ==
    ASSUME NEW S, NEW q \in Seq(S), NEW r \in Seq(S)
    PROVE  q \o r \in Seq(S) /\ ToSet(q \o r) \subseteq ToSet(q) \cup ToSet(r)
  <1>1. /\ q \o r \in Seq(S) /\ Len(q \o r) = Len(q) + Len(r)
        /\ \A i \in 1 .. Len(q) + Len(r) :
             (q \o r)[i] = IF i <= Len(q) THEN q[i] ELSE r[i - Len(q)]
    BY ConcatProperties
  <1>2. /\ Len(q) \in Nat /\ DOMAIN q = 1 .. Len(q)
        /\ Len(r) \in Nat /\ DOMAIN r = 1 .. Len(r)
        /\ DOMAIN (q \o r) = 1 .. Len(q) + Len(r)
    BY <1>1, LenProperties
  <1>3. ASSUME NEW i \in 1 .. Len(q) + Len(r)
        PROVE  (q \o r)[i] \in ToSet(q) \cup ToSet(r)
    <2>1. CASE i <= Len(q)
      <3>1. i \in 1 .. Len(q) /\ (q \o r)[i] = q[i]
        BY <1>1, <1>2, <2>1
      <3> QED
        BY <1>2, <3>1 DEF ToSet
    <2>2. CASE ~(i <= Len(q))
      <3>1. i - Len(q) \in 1 .. Len(r) /\ (q \o r)[i] = r[i - Len(q)]
        BY <1>1, <1>2, <2>2
      <3> QED
        BY <1>2, <3>1 DEF ToSet
    <2> QED
      BY <2>1, <2>2
  <1>4. \A x \in ToSet(q \o r) : \E i \in 1 .. Len(q) + Len(r) : x = (q \o r)[i]
    BY <1>2, Zenon DEF ToSet
  <1> QED
    BY <1>1, <1>3, <1>4

\* _retain keeps the end of a ring.
LEMMA RetainFacts ==
    ASSUME NEW S, NEW q \in Seq(S)
    PROVE  Retain(q) \in Seq(S) /\ ToSet(Retain(q)) \subseteq ToSet(q)
  <1>1. Len(q) \in Nat /\ DOMAIN q = 1 .. Len(q) /\ Retention \in Nat
    BY PubSubAssumption, LenProperties
  <1>2. CASE Len(q) <= Retention
    BY <1>2 DEF Retain
  <1>3. CASE ~(Len(q) <= Retention)
    <2> DEFINE m == Len(q) - Retention + 1
    <2>1. m \in 1 .. Len(q) + 1 /\ Retain(q) = SubSeq(q, m, Len(q))
      BY <1>1, <1>3 DEF Retain
    <2>2. m \in Int /\ Len(q) \in Int /\ \A i \in m .. Len(q) : i \in 1 .. Len(q) /\ q[i] \in S
      BY <1>1, <2>1
    <2> HIDE DEF m
    <2>3. /\ SubSeq(q, m, Len(q)) \in Seq(S)
          /\ Len(SubSeq(q, m, Len(q))) = IF m <= Len(q) THEN Len(q) - m + 1 ELSE 0
          /\ \A i \in 1 .. Len(q) - m + 1 : SubSeq(q, m, Len(q))[i] = q[m + i - 1]
      BY <2>2, SubSeqProperties
    <2>4. DOMAIN SubSeq(q, m, Len(q)) = 1 .. Len(q) - m + 1
      <3>1. DOMAIN SubSeq(q, m, Len(q)) = 1 .. Len(SubSeq(q, m, Len(q)))
        BY <2>3, LenProperties
      <3> QED
        BY <1>1, <2>1, <2>3, <3>1
    <2>5. \A i \in 1 .. Len(q) - m + 1 : m + i - 1 \in 1 .. Len(q)
      BY <1>1, <2>1
    <2> QED
      BY <1>1, <2>1, <2>3, <2>4, <2>5 DEF ToSet
  <1> QED
    BY <1>2, <1>3

\* What it leaves out is of the ring too.
LEMMA EvictedFacts ==
    ASSUME NEW S, NEW q \in Seq(S)
    PROVE  Evicted(q) \in Seq(S) /\ ToSet(Evicted(q)) \subseteq ToSet(q)
  <1> DEFINE k == Len(q) - Len(Retain(q))
             w == SubSeq(q, 1, k)
  <1>1. Len(q) \in Nat /\ DOMAIN q = 1 .. Len(q) /\ \A i \in 1 .. Len(q) : q[i] \in S
    BY LenProperties
  <1>2. Len(Retain(q)) \in Nat
    BY RetainFacts, LenProperties
  <1>3. k \in Int /\ k <= Len(q)
    BY <1>1, <1>2
  <1>4. Evicted(q) = w
    BY DEF Evicted
  <1> HIDE DEF k
  <1>5. 1 \in Int /\ k \in Int /\ \A i \in 1 .. k : i \in 1 .. Len(q) /\ q[i] \in S
    BY <1>1, <1>3
  <1>6. /\ w \in Seq(S) /\ Len(w) = IF 1 <= k THEN k - 1 + 1 ELSE 0
        /\ \A i \in 1 .. k - 1 + 1 : w[i] = q[1 + i - 1]
    BY <1>5, SubSeqProperties
  <1> HIDE DEF w
  <1>7. DOMAIN w = 1 .. k
    <2>1. DOMAIN w = 1 .. Len(w)
      BY <1>6, LenProperties
    <2> QED
      BY <1>3, <1>6, <2>1
  <1>8. \A i \in 1 .. k : w[i] = q[i]
    BY <1>3, <1>6
  <1> QED
    BY <1>1, <1>4, <1>5, <1>6, <1>7, <1>8 DEF ToSet

\* A sequence that grows at its end keeps its head.
LEMMA HeadFacts ==
    ASSUME NEW S, NEW q \in Seq(S), q # <<>>
    PROVE  /\ \A x \in S : Append(q, x) # <<>> /\ Head(Append(q, x)) = Head(q)
           /\ \A r \in Seq(S) : q \o r # <<>> /\ Head(q \o r) = Head(q)
  <1>1. Len(q) \in Nat \ {0} /\ Head(q) = q[1]
    BY TailFacts
  <1>2. ASSUME NEW w \in Seq(S), Len(w) \in Nat \ {0}, w[1] = q[1]
        PROVE  w # <<>> /\ Head(w) = Head(q)
    <2>1. w # <<>>
      BY <1>2, EmptySeq
    <2>2. Head(w) = w[1]
      BY <2>1, HeadTailProperties
    <2> QED
      BY <1>1, <1>2, <2>1, <2>2
  <1>3. ASSUME NEW x \in S
        PROVE  Append(q, x) # <<>> /\ Head(Append(q, x)) = Head(q)
    <2>1. /\ Append(q, x) \in Seq(S) /\ Len(Append(q, x)) = Len(q) + 1
          /\ \A i \in 1 .. Len(q) : Append(q, x)[i] = q[i]
      BY AppendFacts
    <2>2. Len(Append(q, x)) \in Nat \ {0} /\ Append(q, x)[1] = q[1]
      BY <1>1, <2>1
    <2> QED
      BY <1>2, <2>1, <2>2
  <1>4. ASSUME NEW r \in Seq(S)
        PROVE  q \o r # <<>> /\ Head(q \o r) = Head(q)
    <2>1. /\ q \o r \in Seq(S) /\ Len(q \o r) = Len(q) + Len(r)
          /\ \A i \in 1 .. Len(q) + Len(r) :
               (q \o r)[i] = IF i <= Len(q) THEN q[i] ELSE r[i - Len(q)]
      BY ConcatProperties
    <2>2. Len(r) \in Nat
      BY LenProperties
    <2>3. Len(q \o r) \in Nat \ {0} /\ (q \o r)[1] = q[1]
      BY <1>1, <2>1, <2>2
    <2> QED
      BY <1>2, <2>1, <2>3
  <1> QED
    BY <1>3, <1>4

LEMMA RemoveFacts ==
    ASSUME NEW S, NEW q \in Seq(S), NEW k \in DOMAIN q,
           \A i, j \in DOMAIN q : q[i] = q[j] => i = j
    PROVE  /\ RemoveAt(q, k) \in Seq(S)
           /\ ToSet(RemoveAt(q, k)) = ToSet(q) \ {q[k]}
           /\ \A i, j \in DOMAIN RemoveAt(q, k) :
                RemoveAt(q, k)[i] = RemoveAt(q, k)[j] => i = j
  <1> DEFINE n == Len(q)
             p == SubSeq(q, 1, k - 1)
             r == SubSeq(q, k + 1, n)
             w == RemoveAt(q, k)
  <1>1. n \in Nat /\ DOMAIN q = 1 .. n /\ k \in 1 .. n /\ \A i \in 1 .. n : q[i] \in S
    BY LenProperties
  <1>2. p \in Seq(S) /\ Len(p) = k - 1 /\ \A i \in 1 .. k - 1 : p[i] = q[i]
    <2>1. 1 \in Int /\ k - 1 \in Int /\ \A i \in 1 .. k - 1 : q[i] \in S
      BY <1>1
    <2>2. /\ p \in Seq(S) /\ Len(p) = IF 1 <= k - 1 THEN k - 1 - 1 + 1 ELSE 0
          /\ \A i \in 1 .. k - 1 - 1 + 1 : p[i] = q[1 + i - 1]
      BY <2>1, SubSeqProperties
    <2> HIDE DEF p
    <2> QED
      BY <1>1, <2>2
  <1>3. r \in Seq(S) /\ Len(r) = n - k /\ \A i \in 1 .. n - k : r[i] = q[k + i]
    <2>1. k + 1 \in Int /\ n \in Int /\ \A i \in k + 1 .. n : q[i] \in S
      BY <1>1
    <2>2. /\ r \in Seq(S) /\ Len(r) = IF k + 1 <= n THEN n - (k + 1) + 1 ELSE 0
          /\ \A i \in 1 .. n - (k + 1) + 1 : r[i] = q[k + 1 + i - 1]
      BY <2>1, SubSeqProperties
    <2> HIDE DEF r, n
    <2>3. /\ (IF k + 1 <= n THEN n - (k + 1) + 1 ELSE 0) = n - k
          /\ \A i \in 1 .. n - k : i \in 1 .. n - (k + 1) + 1 /\ k + 1 + i - 1 = k + i
      BY <1>1
    <2> QED
      BY <2>2, <2>3
  <1>4. w = p \o r
    BY DEF RemoveAt
  <1> HIDE DEF p, r, w, n
  <1>5. /\ w \in Seq(S) /\ Len(w) = n - 1
        /\ \A i \in 1 .. n - 1 : w[i] = IF i < k THEN q[i] ELSE q[i + 1]
    <2>1. /\ p \o r \in Seq(S) /\ Len(p \o r) = Len(p) + Len(r)
          /\ \A i \in 1 .. Len(p) + Len(r) :
               (p \o r)[i] = IF i <= Len(p) THEN p[i] ELSE r[i - Len(p)]
      BY <1>2, <1>3, ConcatProperties
    <2>2. k - 1 + (n - k) = n - 1
      BY <1>1
    <2>3. ASSUME NEW i \in 1 .. n - 1
          PROVE  w[i] = IF i < k THEN q[i] ELSE q[i + 1]
      <3>1. w[i] = IF i <= k - 1 THEN p[i] ELSE r[i - (k - 1)]
        BY <1>2, <1>3, <1>4, <2>1, <2>2
      <3>2. CASE i < k
        <4>1. i \in 1 .. k - 1
          BY <1>1, <3>2
        <4> QED
          BY <1>2, <3>1, <3>2, <4>1
      <3>3. CASE ~(i < k)
        <4>1. i - (k - 1) \in 1 .. n - k /\ k + (i - (k - 1)) = i + 1 /\ ~(i <= k - 1)
          BY <1>1, <3>3
        <4> QED
          BY <1>3, <3>1, <3>3, <4>1
      <3> QED
        BY <3>2, <3>3
    <2> QED
      BY <1>2, <1>3, <1>4, <2>1, <2>2, <2>3
  <1>6. DOMAIN w = 1 .. n - 1
    BY <1>5, LenProperties
  <1>7. \A i \in 1 .. n - 1 : /\ i < k => i \in 1 .. n /\ i # k
                              /\ ~(i < k) => i + 1 \in 1 .. n /\ i + 1 # k
    BY <1>1
  <1>8. \A i \in 1 .. n : i # k => (i \in 1 .. n - 1 /\ i < k)
                                   \/ (i - 1 \in 1 .. n - 1 /\ ~(i - 1 < k))
    BY <1>1
  <1>9. \A i \in 1 .. n - 1 : w[i] \in ToSet(q) \ {q[k]}
    <2>1. \A i \in 1 .. n : i # k => q[i] \in ToSet(q) \ {q[k]}
      BY <1>1 DEF ToSet
    <2> QED
      BY <1>5, <1>7, <2>1
  <1>10. ASSUME NEW i \in 1 .. n, i # k
         PROVE  \E j \in 1 .. n - 1 : w[j] = q[i]
    <2>1. CASE i \in 1 .. n - 1 /\ i < k
      BY <1>5, <2>1
    <2>2. CASE i - 1 \in 1 .. n - 1 /\ ~(i - 1 < k)
      <3>1. i - 1 + 1 = i
        OBVIOUS
      <3> QED
        BY <1>5, <2>2, <3>1
    <2> QED
      BY <1>8, <1>10, <2>1, <2>2
  <1>11. ToSet(w) = ToSet(q) \ {q[k]}
    <2>1. \A x \in ToSet(w) : x \in ToSet(q) \ {q[k]}
      BY <1>6, <1>9, Zenon DEF ToSet
    <2>2. ASSUME NEW x \in ToSet(q), x # q[k]
          PROVE  x \in ToSet(w)
      <3>1. PICK i \in 1 .. n : x = q[i]
        BY <1>1, Zenon DEF ToSet
      <3>2. PICK j \in 1 .. n - 1 : w[j] = q[i]
        BY <1>10, <2>2, <3>1
      <3> QED
        BY <1>6, <3>1, <3>2 DEF ToSet
    <2> QED
      BY <2>1, <2>2
  <1>12. ASSUME NEW i \in 1 .. n - 1, NEW j \in 1 .. n - 1, w[i] = w[j]
         PROVE  i = j
    <2> DEFINE at(x) == IF x < k THEN x ELSE x + 1
    <2>1. at(i) \in 1 .. n /\ at(j) \in 1 .. n /\ w[i] = q[at(i)] /\ w[j] = q[at(j)]
      BY <1>5, <1>7
    <2>2. at(i) = at(j)
      BY <1>1, <1>12, <2>1
    <2> QED
      BY <1>1, <2>2
  <1> QED
    BY <1>5, <1>6, <1>11, <1>12 DEF w

-----------------------------------------------------------------------------
(* Frames, watermarks and the messages that may still reach the client.    *)

\* Messages with offsets of their own, up to k, form a sequence, each after those below it.
LEMMA ByOffsetFacts ==
    ASSUME NEW S, NEW k \in Nat, \A m \in S : m.offset \in 1 .. k,
           \A l, m \in S : l.offset = m.offset => l = m
    PROVE  /\ ByOffset(S) \in Seq(S)
           /\ \A m \in S : \E n \in 1 .. Len(ByOffset(S)) :
                /\ ByOffset(S)[n] = m
                /\ \A i \in 1 .. n - 1 : ByOffset(S)[i].offset < m.offset
  <1> DEFINE c == Cardinality(S)
             UpTo(m) == {l \in S : l.offset <= m.offset}
             rank == [m \in S |-> Cardinality(UpTo(m))]
  <1>1. IsFiniteSet(S)
    <2> DEFINE f == [m \in S |-> m.offset]
    <2>1. f \in Injection(S, 1 .. k)
      <3>1. f \in [S -> 1 .. k]
        OBVIOUS
      <3>2. \A l, m \in S : f[l] = f[m] => l = m
        OBVIOUS
      <3> HIDE DEF f
      <3> QED
        BY <3>1, <3>2, Zenon DEF Injection, IsInjective
    <2>2. 1 \in Int /\ k \in Int
      OBVIOUS
    <2>3. IsFiniteSet(1 .. k)
      BY <2>2, FS_Interval
    <2> HIDE DEF f
    <2> QED
      BY <2>1, <2>3, FS_Injection
  <1>2. c \in Nat
    BY <1>1, FS_CardinalityType
  <1>3. \A m \in S : /\ IsFiniteSet(UpTo(m)) /\ Cardinality(UpTo(m)) \in Nat
                     /\ Cardinality(UpTo(m)) <= c
    BY <1>1, FS_Subset, FS_CardinalityType
  <1>4. ASSUME NEW l \in S, NEW m \in S, l.offset < m.offset
        PROVE  Cardinality(UpTo(l)) # Cardinality(UpTo(m))
    <2>1. m \notin UpTo(l) /\ UpTo(l) \cup {m} \in SUBSET UpTo(m)
      <3>1. l.offset \in Int /\ m.offset \in Int /\ \A x \in S : x.offset \in Int
        OBVIOUS
      <3>2. /\ ~(m.offset <= l.offset) /\ m.offset <= m.offset
            /\ \A x \in S : x.offset <= l.offset => x.offset <= m.offset
        BY <1>4, <3>1
      <3> QED
        BY <3>2
    <2> HIDE DEF UpTo
    <2>2. Cardinality(UpTo(l) \cup {m}) = Cardinality(UpTo(l)) + 1
      BY <1>3, <2>1, FS_AddElement
    <2>3. Cardinality(UpTo(l) \cup {m}) <= Cardinality(UpTo(m))
      BY <1>3, <2>1, FS_Subset
    <2> QED
      BY <1>3, <2>2, <2>3
  <1>5. rank \in [S -> 1 .. c]
    <2>1. \A m \in S : Cardinality(UpTo(m)) \in 1 .. c
      <3> TAKE m \in S
      <3>1. m \in UpTo(m)
        OBVIOUS
      <3> HIDE DEF UpTo
      <3>2. Cardinality(UpTo(m)) # 0
        BY <1>3, <3>1, FS_EmptySet
      <3> HIDE DEF c
      <3> QED
        BY <1>2, <1>3, <3>2
    <2> HIDE DEF UpTo, c
    <2> QED
      BY <2>1
  <1>6. \A l, m \in S : rank[l] = rank[m] => l = m
    <2>1. \A l, m \in S : l.offset < m.offset \/ m.offset < l.offset \/ l = m
      OBVIOUS
    <2> HIDE DEF UpTo
    <2> QED
      BY <1>4, <2>1
  <1>7. rank \in Injection(S, 1 .. c)
    BY <1>5, <1>6, Zenon DEF Injection, IsInjective
  <1>8. IsFiniteSet(1 .. c) /\ Cardinality(1 .. c) = c
    <2>1. 1 \in Int /\ c \in Int
      BY <1>2
    <2>2. IsFiniteSet(1 .. c) /\ Cardinality(1 .. c) = IF 1 > c THEN 0 ELSE c - 1 + 1
      BY <2>1, FS_Interval
    <2> HIDE DEF c
    <2> QED
      BY <1>2, <2>2
  <1>9. rank \in Surjection(S, 1 .. c)
    BY <1>7, <1>8, FS_Injection
  <1> DEFINE nth(n) == CHOOSE m \in S : Cardinality({l \in S : l.offset <= m.offset}) = n
  <1>10. ASSUME NEW n \in 1 .. c
         PROVE  nth(n) \in S /\ rank[nth(n)] = n
    <2>1. PICK m \in S : rank[m] = n
      BY <1>9, Zenon DEF Surjection
    <2>2. \E x \in S : Cardinality({l \in S : l.offset <= x.offset}) = n
      BY <2>1
    <2>3. nth(n) \in S /\ Cardinality({l \in S : l.offset <= nth(n).offset}) = n
      BY <2>2, Zenon
    <2> QED
      BY <2>3
  <1>11. ByOffset(S) = [n \in 1 .. c |-> nth(n)]
    BY Zenon DEF ByOffset
  <1>12. ASSUME NEW l \in S, NEW m \in S, m.offset <= l.offset
         PROVE  rank[m] <= rank[l]
    <2>1. UpTo(m) \in SUBSET UpTo(l)
      <3>1. l.offset \in Int /\ m.offset \in Int /\ \A x \in S : x.offset \in Int
        OBVIOUS
      <3>2. \A x \in S : x.offset <= m.offset => x.offset <= l.offset
        BY <1>12, <3>1
      <3> QED
        BY <3>2
    <2> HIDE DEF UpTo
    <2> QED
      BY <1>3, <2>1, FS_Subset
  <1> HIDE DEF c, nth, rank
  <1>13. ByOffset(S) \in [1 .. c -> S]
    BY <1>10, <1>11, Zenon
  <1>14. ByOffset(S) \in Seq(S)
    BY <1>2, <1>13, SeqDef
  <1>15. Len(ByOffset(S)) = c
    BY <1>2, <1>13, <1>14, LenProperties
  <1>16. ASSUME NEW m \in S
         PROVE  \E n \in 1 .. c : /\ ByOffset(S)[n] = m
                                  /\ \A i \in 1 .. n - 1 : ByOffset(S)[i].offset < m.offset
    <2> DEFINE n == rank[m]
    <2>1. n \in 1 .. c
      BY <1>5
    <2>2. ByOffset(S)[n] = m
      BY <1>6, <1>10, <1>11, <2>1
    <2>3. ASSUME NEW i \in 1 .. n - 1
          PROVE  ByOffset(S)[i].offset < m.offset
      <3>1. i \in 1 .. c /\ i < n
        BY <1>2, <2>1
      <3>2. nth(i) \in S /\ rank[nth(i)] = i /\ ByOffset(S)[i] = nth(i)
        BY <1>10, <1>11, <3>1
      <3>3. ~(m.offset <= nth(i).offset)
        BY <1>2, <1>12, <2>1, <3>1, <3>2
      <3>4. m.offset \in Int /\ nth(i).offset \in Int
        BY <3>2
      <3> QED
        BY <3>2, <3>3, <3>4
    <2> QED
      BY <2>1, <2>2, <2>3
  <1> QED
    BY <1>14, <1>15, <1>16

\* What the frames of the protocol carry.
LEMMA FrameFacts ==
    ASSUME NEW ch \in Channel, NEW m \in Message
    PROVE  /\ Frame(ch, m) \in ToClientMsg /\ Frame(ch, m).t = "message"
           /\ Frame(ch, m).ch = ch /\ Frame(ch, m).offset = m.offset /\ Frame(ch, m).id = m.id
           /\ m.offset \in Nat /\ m.id \in Nat
  BY DEF Frame, Message, ToClientMsg

LEMMA ToClientFacts ==
    ASSUME NEW m \in ToClientMsg
    PROVE  /\ m.t = "message" => m.ch \in Channel /\ m.offset \in Nat /\ m.id \in Nat
           /\ m.t = "ok" => m \in Answer /\ m.s \in Sub /\ m.offset \in Nat /\ m.from \in Nat
           /\ m.t = "gone" => m.s \in Sub
           /\ m.t \in {"message", "ok", "gone", "welcome"}
  BY DEF ToClientMsg, Answer

LEMMA ToBrokerFacts ==
    ASSUME NEW m \in ToBrokerMsg
    PROVE  /\ m.t \in {"subscribe", "unsubscribe", "hello"}
           /\ m.t # "hello" => m.s \in Sub
           /\ m.t = "hello" => m.s \notin Sub
           /\ m.t = "subscribe" => /\ m.by \in {"subscribe", "replay"} /\ m.since \in Mark
                                   /\ m.replay \in BOOLEAN
  BY PubSubAssumption DEF ToBrokerMsg

LEMMA HeldFacts ==
    ASSUME NEW f
    PROVE  f \in Held <=> \E ch \in Channel : \E m \in Logged(ch) : f = Frame(ch, m)
  BY DEF Held

\* What is on record of a channel.
LEMMA LoggedFacts ==
    ASSUME TypeOK, NEW ch \in Channel
    PROVE  Logged(ch) \subseteq Message /\ ToSet(ring[ch]) \subseteq Logged(ch)
  <1>1. ToSet(ring[ch]) \subseteq Message /\ ToSet(trimmed[ch]) \subseteq Message
    BY MembersFacts DEF TypeOK
  <1> QED
    BY <1>1 DEF Logged

\* A watermark as of the incarnation that is running.
LEMMA AdoptedFacts ==
    ASSUME NEW s \in Sub
    PROVE  /\ Adopted[s] = IF seenEpoch \notin {Unset, epoch} /\ offsets[s] > offsetBase
                           THEN offsetBase ELSE offsets[s]
           /\ TypeOK => Adopted[s] \in Mark /\ Adopted[s] <= offsets[s]
           /\ seenEpoch \in {Unset, epoch} => Adopted[s] = offsets[s]
           /\ LinkAgrees /\ link \in {"replaying", "up"} => Adopted[s] = offsets[s]
  <1>1. Adopted[s] = IF seenEpoch \notin {Unset, epoch} /\ offsets[s] > offsetBase
                     THEN offsetBase ELSE offsets[s]
    BY DEF Adopted
  <1>2. TypeOK => offsets[s] \in Mark /\ offsetBase \in Nat
    BY DEF TypeOK
  <1>3. TypeOK => Adopted[s] \in Mark /\ Adopted[s] <= offsets[s]
    BY <1>1, <1>2 DEF Mark, Unset
  <1>4. LinkAgrees /\ link \in {"replaying", "up"} => seenEpoch = epoch
    BY DEF LinkAgrees
  <1> QED
    BY <1>1, <1>3, <1>4

\* The numbers of the messages that may still reach the client.
LEMMA CurrentFacts ==
    ASSUME TypeOK
    PROVE  \A m \in Current : m.offset \in Nat /\ m.id \in Nat
  <1>1. \A ch \in Channel : Logged(ch) \subseteq Message
    BY LoggedFacts
  <1>2. \A m \in Held : m.offset \in Nat /\ m.id \in Nat
    BY <1>1, HeldFacts, FrameFacts
  <1>3. ToSet(toClient) \subseteq ToClientMsg
    BY MembersFacts DEF TypeOK
  <1>4. \A m \in ToSet(toClient) : m.t = "message" => m.offset \in Nat /\ m.id \in Nat
    BY <1>3, ToClientFacts
  <1> QED
    BY <1>2, <1>4 DEF Current

\* A replay consists of messages that are retained.
LEMMA BacklogFacts ==
    ASSUME TypeOK, OffsetsAgree, NEW req
    PROVE  /\ Backlog(req) \in Seq(ToClientMsg)
           /\ ToSet(Backlog(req)) \subseteq Held
           /\ \A m \in ToSet(Backlog(req)) : m.t = "message"
  <1> DEFINE frames ==
               UNION {{Frame(ch, m) : m \in {l \in ToSet(ring[ch]) : Asked(l, req)}} :
                          ch \in MatchedBy(req.s)}
             plain == {m \in ToClientMsg : m.t = "message"}
  <1>1. \A ch \in Channel : ToSet(ring[ch]) \subseteq Message
    BY MembersFacts DEF TypeOK
  <1>2. \A f \in frames : \E ch \in Channel : \E m \in ToSet(ring[ch]) : f = Frame(ch, m)
    BY DEF MatchedBy
  <1>3. Backlog(req) = ByOffset(frames)
    BY Zenon DEF Backlog
  <1> HIDE DEF frames
  <1>4. frames \subseteq Held
    BY <1>2, LoggedFacts, HeldFacts
  <1>5. frames \subseteq plain
    BY <1>1, <1>2, FrameFacts
  <1>6. nextOffset \in Nat /\ \A f \in frames : f.offset \in 1 .. nextOffset
    BY <1>4 DEF OffsetsAgree, Current, TypeOK
  <1>7. \A f, g \in frames : f.offset = g.offset => f = g
    BY <1>1, <1>2, LoggedFacts, FrameFacts DEF OffsetsAgree, RingsAgree
  <1>8. ByOffset(frames) \in Seq(frames)
    BY <1>6, <1>7, ByOffsetFacts
  <1>9. ToSet(ByOffset(frames)) \subseteq frames
    BY <1>8, MembersFacts
  <1>10. frames \subseteq ToClientMsg /\ \A f \in frames : f.t = "message"
    BY <1>5
  <1>11. ByOffset(frames) \in Seq(ToClientMsg)
    BY <1>8, <1>10, SeqMonotonic
  <1> QED
    BY <1>3, <1>4, <1>9, <1>10, <1>11

\* A replay has all that is asked for, each message after those below it.
LEMMA BacklogOrder ==
    ASSUME TypeOK, OffsetsAgree, NEW req
    PROVE  /\ \A f \in ToSet(Backlog(req)) : f.ch \in MatchedBy(req.s)
           /\ \A m \in Retained(req.s) : Asked(m, req) =>
                \E i \in 1 .. Len(Backlog(req)) :
                  /\ IsFor(req.s, Backlog(req)[i])
                  /\ Backlog(req)[i].offset = m.offset /\ Backlog(req)[i].id = m.id
                  /\ \A j \in 1 .. i - 1 : Backlog(req)[j].offset < m.offset
  <1> DEFINE frames ==
               UNION {{Frame(ch, m) : m \in {l \in ToSet(ring[ch]) : Asked(l, req)}} :
                          ch \in MatchedBy(req.s)}
  <1>1. \A ch \in Channel : ToSet(ring[ch]) \subseteq Message
    BY MembersFacts DEF TypeOK
  <1>2. \A f \in frames : \E ch \in MatchedBy(req.s) : \E m \in ToSet(ring[ch]) : f = Frame(ch, m)
    OBVIOUS
  <1>3. Backlog(req) = ByOffset(frames)
    BY Zenon DEF Backlog
  <1>4. \A ch \in MatchedBy(req.s) : \A m \in ToSet(ring[ch]) :
          Asked(m, req) => Frame(ch, m) \in frames
    OBVIOUS
  <1>5. MatchedBy(req.s) \subseteq Channel
    BY DEF MatchedBy
  <1> HIDE DEF frames
  <1>6. frames \subseteq Held
    BY <1>2, <1>5, LoggedFacts, HeldFacts
  <1>7. nextOffset \in Nat /\ \A f \in frames : f.offset \in 1 .. nextOffset
    BY <1>6 DEF OffsetsAgree, Current, TypeOK
  <1>8. \A f, g \in frames : f.offset = g.offset => f = g
    BY <1>1, <1>2, <1>5, LoggedFacts, FrameFacts DEF OffsetsAgree, RingsAgree
  <1>9. /\ ByOffset(frames) \in Seq(frames)
        /\ \A f \in frames : \E n \in 1 .. Len(ByOffset(frames)) :
             /\ ByOffset(frames)[n] = f
             /\ \A i \in 1 .. n - 1 : ByOffset(frames)[i].offset < f.offset
    BY <1>7, <1>8, ByOffsetFacts
  <1>10. \A f \in ToSet(ByOffset(frames)) : f.ch \in MatchedBy(req.s)
    BY <1>1, <1>2, <1>5, <1>9, MembersFacts, FrameFacts
  <1>11. ASSUME NEW m \in Retained(req.s), Asked(m, req)
         PROVE  \E i \in 1 .. Len(Backlog(req)) :
                  /\ IsFor(req.s, Backlog(req)[i])
                  /\ Backlog(req)[i].offset = m.offset /\ Backlog(req)[i].id = m.id
                  /\ \A j \in 1 .. i - 1 : Backlog(req)[j].offset < m.offset
    <2>1. PICK ch \in MatchedBy(req.s) : m \in ToSet(ring[ch])
      BY DEF Retained
    <2>2. /\ Frame(ch, m) \in frames /\ Frame(ch, m).t = "message" /\ Frame(ch, m).ch = ch
          /\ Frame(ch, m).offset = m.offset /\ Frame(ch, m).id = m.id
      BY <1>1, <1>4, <1>5, <1>11, <2>1, FrameFacts
    <2>3. PICK i \in 1 .. Len(Backlog(req)) :
            /\ Backlog(req)[i] = Frame(ch, m)
            /\ \A j \in 1 .. i - 1 : Backlog(req)[j].offset < Frame(ch, m).offset
      BY <1>3, <1>9, <2>2
    <2> QED
      BY <2>1, <2>2, <2>3 DEF IsFor
  <1> QED
    BY <1>3, <1>10, <1>11

-----------------------------------------------------------------------------
(* Requests on their way to the broker.                                    *)

LEMMA WillHaveServed ==
    ASSUME TypeOK, toBroker # <<>>, toBroker' = Tail(toBroker), NEW s \in Sub,
           \/ Head(toBroker).t = "subscribe" /\ subs' = subs \cup {Head(toBroker).s}
           \/ Head(toBroker).t = "unsubscribe" /\ subs' = subs \ {Head(toBroker).s}
           \/ Head(toBroker).t = "hello" /\ subs' = subs
    PROVE  WillHave(s)' <=> WillHave(s)
  <1> DEFINE q == toBroker
             n == Len(toBroker)
             w == toBroker'
  <1>1. /\ w \in Seq(ToBrokerMsg) /\ Len(w) = n - 1 /\ n \in Nat \ {0}
        /\ \A i \in 1 .. n - 1 : w[i] = q[i + 1]
        /\ Head(q) = q[1] /\ DOMAIN q = 1 .. n /\ (Head(q).t = "hello" => Head(q).s # s)
    <2>1. /\ w \in Seq(ToBrokerMsg) /\ Len(w) = n - 1 /\ n \in Nat \ {0}
          /\ \A i \in 1 .. n - 1 : w[i] = q[i + 1]
          /\ Head(q) = q[1] /\ DOMAIN q = 1 .. n /\ Head(q) \in ToBrokerMsg
      BY TailFacts, LenProperties DEF TypeOK
    <2> QED
      BY <2>1, ToBrokerFacts
  <1>2. DOMAIN w = 1 .. n - 1
    BY <1>1, LenProperties
  <1>3. WillHave(s) <=>
          \/ s \in subs /\ \A j \in 1 .. n : q[j].s = s => q[j].t = "subscribe"
          \/ \E i \in 1 .. n : /\ q[i].s = s /\ q[i].t = "subscribe"
                               /\ \A j \in i .. n : q[j].s = s => q[j].t = "subscribe"
    BY <1>1, Zenon DEF WillHave
  <1>4. WillHave(s)' <=>
          \/ s \in subs' /\ \A j \in 1 .. n - 1 : w[j].s = s => w[j].t = "subscribe"
          \/ \E i \in 1 .. n - 1 : /\ w[i].s = s /\ w[i].t = "subscribe"
                                   /\ \A j \in i .. n - 1 : w[j].s = s => w[j].t = "subscribe"
    BY <1>1, <1>2, Zenon DEF WillHave
  <1> HIDE DEF w, n, q
  <1>5. /\ 1 \in 1 .. n
        /\ \A j \in 1 .. n : j = 1 \/ (j - 1 \in 1 .. n - 1 /\ j - 1 + 1 = j)
        /\ \A j \in 1 .. n - 1 : j + 1 \in 1 .. n
        /\ \A i \in 1 .. n - 1 : \A j \in i .. n - 1 : j \in 1 .. n - 1 /\ j + 1 \in i + 1 .. n
        /\ \A i \in 1 .. n : \A j \in i .. n : j \in 1 .. n
        /\ \A i \in 1 .. n : i # 1 => \A j \in i - 1 .. n - 1 : j + 1 \in i .. n /\ j \in 1 .. n - 1
        /\ \A i \in 1 .. n - 1 : \A j \in i + 1 .. n : j - 1 \in i .. n - 1 /\ j - 1 + 1 = j
    BY <1>1
  <1>6. ASSUME WillHave(s) PROVE WillHave(s)'
    <2>1. CASE s \in subs /\ \A j \in 1 .. n : q[j].s = s => q[j].t = "subscribe"
      <3>1. \A j \in 1 .. n - 1 : w[j].s = s => w[j].t = "subscribe"
        BY <1>1, <1>5, <2>1
      <3>2. s \in subs'
        BY <1>1, <1>5, <2>1 DEF q
      <3> QED
        BY <1>4, <3>1, <3>2
    <2>2. CASE \E i \in 1 .. n : /\ q[i].s = s /\ q[i].t = "subscribe"
                                 /\ \A j \in i .. n : q[j].s = s => q[j].t = "subscribe"
      <3>1. PICK i \in 1 .. n : /\ q[i].s = s /\ q[i].t = "subscribe"
                                /\ \A j \in i .. n : q[j].s = s => q[j].t = "subscribe"
        BY <2>2
      <3>2. CASE i = 1
        <4>1. \A j \in 1 .. n - 1 : w[j].s = s => w[j].t = "subscribe"
          BY <1>1, <1>5, <3>1, <3>2
        <4>2. s \in subs'
          BY <1>1, <3>1, <3>2 DEF q
        <4> QED
          BY <1>4, <4>1, <4>2
      <3>3. CASE i # 1
        <4>1. i - 1 \in 1 .. n - 1 /\ i - 1 + 1 = i
          BY <1>5, <3>3
        <4>2. w[i - 1].s = s /\ w[i - 1].t = "subscribe"
          BY <1>1, <3>1, <4>1
        <4>3. \A j \in i - 1 .. n - 1 : w[j].s = s => w[j].t = "subscribe"
          BY <1>1, <1>5, <3>1, <3>3
        <4> QED
          BY <1>4, <4>1, <4>2, <4>3
      <3> QED
        BY <3>2, <3>3
    <2> QED
      BY <1>3, <1>6, <2>1, <2>2
  <1>7. ASSUME WillHave(s)' PROVE WillHave(s)
    <2>1. CASE s \in subs' /\ \A j \in 1 .. n - 1 : w[j].s = s => w[j].t = "subscribe"
      <3>1. \A j \in 1 .. n : j # 1 => (q[j].s = s => q[j].t = "subscribe")
        <4> TAKE j \in 1 .. n
        <4> HAVE j # 1
        <4>1. j - 1 \in 1 .. n - 1 /\ j - 1 + 1 = j
          BY <1>5
        <4>2. w[j - 1] = q[j]
          BY <1>1, <4>1
        <4> QED
          BY <2>1, <4>1, <4>2
      <3>2. CASE q[1].s = s
        <4>1. q[1].t = "subscribe"
          BY <1>1, <2>1, <3>2 DEF q
        <4>2. \A j \in 1 .. n : q[j].s = s => q[j].t = "subscribe"
          BY <3>1, <4>1
        <4> QED
          BY <1>3, <1>5, <3>2, <4>1, <4>2
      <3>3. CASE q[1].s # s
        <4>1. s \in subs
          BY <1>1, <2>1, <3>3 DEF q
        <4> QED
          BY <1>3, <3>1, <3>3, <4>1
      <3> QED
        BY <3>2, <3>3
    <2>2. CASE \E i \in 1 .. n - 1 : /\ w[i].s = s /\ w[i].t = "subscribe"
                                     /\ \A j \in i .. n - 1 : w[j].s = s => w[j].t = "subscribe"
      <3>1. PICK i \in 1 .. n - 1 : /\ w[i].s = s /\ w[i].t = "subscribe"
                                    /\ \A j \in i .. n - 1 : w[j].s = s => w[j].t = "subscribe"
        BY <2>2
      <3>2. q[i + 1].s = s /\ q[i + 1].t = "subscribe" /\ i + 1 \in 1 .. n
        BY <1>1, <1>5, <3>1
      <3>3. \A j \in i + 1 .. n : q[j].s = s => q[j].t = "subscribe"
        <4> TAKE j \in i + 1 .. n
        <4>1. j - 1 \in i .. n - 1 /\ j - 1 + 1 = j
          BY <1>5
        <4>2. j - 1 \in 1 .. n - 1
          BY <1>5, <4>1
        <4>3. w[j - 1] = q[j]
          BY <1>1, <4>1, <4>2
        <4> QED
          BY <3>1, <4>1, <4>3
      <3> QED
        BY <1>3, <3>2, <3>3
    <2> QED
      BY <1>4, <1>7, <2>1, <2>2
  <1> QED
    BY <1>6, <1>7

LEMMA WillHaveSent ==
    ASSUME TypeOK, NEW req \in ToBrokerMsg, toBroker' = Append(toBroker, req), subs' = subs,
           NEW s \in Sub
    PROVE  /\ req.t = "subscribe" => (WillHave(s)' <=> WillHave(s) \/ s = req.s)
           /\ req.t = "unsubscribe" => (WillHave(s)' <=> WillHave(s) /\ s # req.s)
           /\ req.t = "hello" => (WillHave(s)' <=> WillHave(s))
  <1> DEFINE q == toBroker
             n == Len(toBroker)
             w == toBroker'
             good(m) == m.s = s => m.t = "subscribe"
  <1>1. /\ w \in Seq(ToBrokerMsg) /\ Len(w) = n + 1 /\ n \in Nat
        /\ \A i \in 1 .. n : w[i] = q[i]
        /\ w[n + 1] = req /\ DOMAIN q = 1 .. n
    BY AppendFacts, LenProperties DEF TypeOK
  <1>2. DOMAIN w = 1 .. n + 1
    BY <1>1, LenProperties
  <1>3. WillHave(s) <=>
          \/ s \in subs /\ \A j \in 1 .. n : good(q[j])
          \/ \E i \in 1 .. n : /\ q[i].s = s /\ q[i].t = "subscribe"
                               /\ \A j \in i .. n : good(q[j])
    BY <1>1, Zenon DEF WillHave
  <1>4. WillHave(s)' <=>
          \/ s \in subs /\ \A j \in 1 .. n + 1 : good(w[j])
          \/ \E i \in 1 .. n + 1 : /\ w[i].s = s /\ w[i].t = "subscribe"
                                   /\ \A j \in i .. n + 1 : good(w[j])
    BY <1>1, <1>2, Zenon DEF WillHave
  <1> HIDE DEF w, n, q
  <1>5. /\ n + 1 \in 1 .. n + 1
        /\ \A i \in 1 .. n + 1 : i \in 1 .. n \/ i = n + 1
        /\ \A i \in 1 .. n : i \in 1 .. n + 1 /\ n + 1 \in i .. n + 1
        /\ \A i \in 1 .. n : \A j \in i .. n + 1 : j \in i .. n \/ j = n + 1
        /\ \A i \in 1 .. n : \A j \in i .. n : j \in 1 .. n /\ j \in i .. n + 1
        /\ \A j \in n + 1 .. n + 1 : j = n + 1
    BY <1>1
  <1>6. \A j \in 1 .. n : good(w[j]) <=> good(q[j])
    BY <1>1
  <1>7. good(w[n + 1]) <=> good(req)
    BY <1>1
  <1>8. \A i \in 1 .. n : /\ w[i].s = q[i].s /\ w[i].t = q[i].t
                          /\ (\A j \in i .. n + 1 : good(w[j])) <=>
                               good(req) /\ \A j \in i .. n : good(q[j])
    <2> TAKE i \in 1 .. n
    <2>1. w[i] = q[i]
      BY <1>1
    <2>2. \A j \in i .. n : good(w[j]) <=> good(q[j])
      BY <1>5, <1>6
    <2> HIDE DEF good
    <2>3. (\A j \in i .. n + 1 : good(w[j])) <=> good(w[n + 1]) /\ \A j \in i .. n : good(w[j])
      BY <1>5
    <2> QED
      BY <1>7, <2>1, <2>2, <2>3
  <1>9. (\A j \in 1 .. n + 1 : good(w[j])) <=> good(req) /\ \A j \in 1 .. n : good(q[j])
    <2> HIDE DEF good
    <2> QED
      BY <1>5, <1>6, <1>7
  <1>10. (\A j \in n + 1 .. n + 1 : good(w[j])) => good(req)
    <2>1. n + 1 \in n + 1 .. n + 1
      BY <1>1
    <2> HIDE DEF good
    <2> QED
      BY <1>7, <2>1
  <1>11. WillHave(s)' => good(req)
    <2> HIDE DEF good
    <2> QED
      BY <1>4, <1>5, <1>8, <1>9, <1>10
  <1>12. WillHave(s)' => WillHave(s) \/ (req.s = s /\ req.t = "subscribe")
    <2> HIDE DEF good
    <2> QED
      BY <1>1, <1>3, <1>4, <1>5, <1>8, <1>9
  <1>13. ASSUME good(req), WillHave(s)
         PROVE  WillHave(s)'
    <2> HIDE DEF good
    <2>1. CASE s \in subs /\ \A j \in 1 .. n : good(q[j])
      BY <1>4, <1>9, <1>13, <2>1
    <2>2. ASSUME NEW i \in 1 .. n, q[i].s = s, q[i].t = "subscribe",
                 \A j \in i .. n : good(q[j])
          PROVE  WillHave(s)'
      <3>1. /\ i \in 1 .. n + 1 /\ w[i].s = s /\ w[i].t = "subscribe"
            /\ \A j \in i .. n + 1 : good(w[j])
        BY <1>5, <1>8, <1>13, <2>2
      <3> QED
        BY <1>4, <3>1, Zenon
    <2> QED
      BY <1>3, <1>13, <2>1, <2>2
  <1>14. ASSUME req.s = s, req.t = "subscribe"
         PROVE  WillHave(s)'
    <2>1. w[n + 1].s = s /\ w[n + 1].t = "subscribe" /\ good(w[n + 1])
      BY <1>1, <1>14
    <2> HIDE DEF good
    <2>2. \A j \in n + 1 .. n + 1 : good(w[j])
      BY <1>5, <2>1
    <2> QED
      BY <1>4, <1>5, <2>1, <2>2, Zenon
  <1> QED
    BY <1>11, <1>12, <1>13, <1>14, ToBrokerFacts

-----------------------------------------------------------------------------
(* Types.                                                                  *)

LEMMA InitIInv == Init => IInv
  <1> SUFFICES ASSUME Init
               PROVE  IInv
    OBVIOUS
  <1>1. ToSet(<<>>) = {}
    BY DEF ToSet
  <1>2. TypeOK
    BY PubSubAssumption DEF Init, TypeOK, Mark, Unset
  <1>3. Current = {}
    <2>1. \A ch \in Channel : Logged(ch) = {}
      BY <1>1 DEF Init, Logged
    <2>2. toClient = <<>>
      BY DEF Init
    <2> QED
      BY <1>1, <2>1, <2>2, HeldFacts DEF Current
  <1>4. \A s \in Sub : Adopted[s] = Unset
    BY AdoptedFacts DEF Init
  <1>5. LinkAgrees /\ HandshakeAgrees
    BY DEF LinkAgrees, HandshakeAgrees, Init, Unset
  <1>6. OffsetsAgree
    <2>1. RingsAgree
      BY <1>1 DEF RingsAgree, Logged, Init
    <2>2. ToSet(toClient) \cup resumes = {}
      BY <1>1 DEF Init
    <2>3. nextOffset = 0 /\ reserved = 0 /\ Unset <= 0
      BY DEF Init, Unset
    <2> QED
      BY <1>3, <1>4, <2>1, <2>2, <2>3 DEF OffsetsAgree
  <1>7. WatermarksAgree /\ InOrderOnce
    <2>1. \A s \in Sub : DOMAIN delivered[s] = {}
      BY DEF Init
    <2> QED
      BY <2>1 DEF WatermarksAgree, InOrderOnce
  <1>8. RequestsAgree
    <2>1. DOMAIN subscriptions = {} /\ ToSet(subscriptions) = {}
      BY <1>1 DEF Init
    <2>2. \A s \in Sub : ~WillHave(s)
      BY DEF Init, WillHave
    <2> QED
      BY <2>1, <2>2 DEF RequestsAgree
  <1> QED
    BY <1>2, <1>5, <1>6, <1>7, <1>8 DEF IInv

\* A message that is minted: its record, and what becomes of the numbers and the ring.
LEMMA MintFacts ==
    ASSUME TypeOK, NEW ch \in Channel, NEW safe \in BOOLEAN
    PROVE  LET m == [offset |-> nextOffset + 1, id |-> published + 1, safe |-> safe]
           IN  /\ m \in Message /\ m.offset = nextOffset + 1 /\ m.id = published + 1
               /\ Retain(Append(ring[ch], m)) \in Seq(Message)
               /\ ToSet(Retain(Append(ring[ch], m))) \subseteq ToSet(ring[ch]) \cup {m}
               /\ trimmed[ch] \o Evicted(Append(ring[ch], m)) \in Seq(Message)
               /\ ToSet(trimmed[ch] \o Evicted(Append(ring[ch], m)))
                    \subseteq Logged(ch) \cup {m}
  <1> DEFINE m == [offset |-> nextOffset + 1, id |-> published + 1, safe |-> safe]
  <1>1. m \in Message /\ m.offset = nextOffset + 1 /\ m.id = published + 1
    BY DEF TypeOK, Message
  <1>2. ring[ch] \in Seq(Message) /\ trimmed[ch] \in Seq(Message)
    BY DEF TypeOK
  <1> HIDE DEF m
  <1>3. /\ Append(ring[ch], m) \in Seq(Message)
        /\ ToSet(Append(ring[ch], m)) = ToSet(ring[ch]) \cup {m}
    BY <1>1, <1>2, AppendFacts
  <1>4. /\ Retain(Append(ring[ch], m)) \in Seq(Message)
        /\ ToSet(Retain(Append(ring[ch], m))) \subseteq ToSet(ring[ch]) \cup {m}
    BY <1>3, RetainFacts
  <1>5. /\ Evicted(Append(ring[ch], m)) \in Seq(Message)
        /\ ToSet(Evicted(Append(ring[ch], m))) \subseteq ToSet(ring[ch]) \cup {m}
    BY <1>3, EvictedFacts
  <1>6. /\ trimmed[ch] \o Evicted(Append(ring[ch], m)) \in Seq(Message)
        /\ ToSet(trimmed[ch] \o Evicted(Append(ring[ch], m)))
             \subseteq ToSet(trimmed[ch]) \cup ToSet(Evicted(Append(ring[ch], m)))
    BY <1>2, <1>5, ConcatFacts
  <1> QED
    BY <1>1, <1>4, <1>5, <1>6 DEF m, Logged

LEMMA PublishTypes ==
    ASSUME TypeOK, NEW ch \in Channel, NEW safe \in BOOLEAN, Publish(ch, safe)
    PROVE  TypeOK'
  <1> DEFINE m == [offset |-> nextOffset + 1, id |-> published + 1, safe |-> safe]
  <1>1. /\ m \in Message /\ m.id = published + 1 /\ Retain(Append(ring[ch], m)) \in Seq(Message)
        /\ trimmed[ch] \o Evicted(Append(ring[ch], m)) \in Seq(Message)
    BY MintFacts
  <1>2. /\ ring' = [ring EXCEPT ![ch] = Retain(Append(@, m))]
        /\ \/ trimmed' = [trimmed EXCEPT ![ch] = @ \o Evicted(Append(ring[ch], m))]
           \/ trimmed' = trimmed
    BY DEF Publish
  <1>3. \/ toClient' = Append(toClient, Frame(ch, m)) /\ dropped' = dropped
        \/ toClient' = toClient /\ dropped' = dropped \cup {m.id}
        \/ toClient' = toClient /\ dropped' = dropped
    BY DEF Publish
  <1>4. /\ published' = m.id /\ nextOffset' = nextOffset + 1
        /\ reserved' = IF nextOffset + 1 > reserved THEN Ceiling(nextOffset + 1) ELSE reserved
    BY Zenon DEF Publish
  <1>5. UNCHANGED <<durable, epoch, offsetBase, subs, toBroker, clientVars, bounds,
                    delivered, from, returned, early>>
    BY DEF Publish
  <1> HIDE DEF m
  <1>6. ring' \in [Channel -> Seq(Message)] /\ trimmed' \in [Channel -> Seq(Message)]
    BY <1>1, <1>2 DEF TypeOK
  <1>7. Frame(ch, m) \in ToClientMsg
    BY <1>1, FrameFacts
  <1>8. toClient' \in Seq(ToClientMsg) /\ dropped' \subseteq Nat
    <2>1. toClient \in Seq(ToClientMsg) /\ dropped \subseteq Nat /\ m.id \in Nat
      BY <1>1 DEF TypeOK
    <2>2. Append(toClient, Frame(ch, m)) \in Seq(ToClientMsg)
      BY <1>7, <2>1, AppendFacts
    <2> QED
      BY <1>3, <2>1, <2>2
  <1>9. published' \in Nat /\ nextOffset' \in Nat /\ reserved' \in Nat
    <2>1. nextOffset + 1 \in Nat /\ published + 1 \in Nat /\ reserved \in Nat
      BY DEF TypeOK
    <2>2. Ceiling(nextOffset + 1) \in Nat
      BY <2>1, CeilingFacts
    <2> QED
      BY <1>1, <1>4, <2>1, <2>2
  <1> QED
    BY <1>5, <1>6, <1>8, <1>9 DEF TypeOK, clientVars, bounds

LEMMA BrokerReceivesTypes ==
    ASSUME TypeOK, OffsetsAgree, BrokerReceives
    PROVE  TypeOK'
  <1> DEFINE req == Head(toBroker)
             ok  == [t |-> "ok", s |-> req.s, by |-> req.by, offset |-> nextOffset,
                     from |-> published]
             gone == [t |-> "gone", s |-> req.s]
             welcome == [t |-> "welcome", s |-> NoSub]
  <1>1. /\ toBroker # <<>> /\ toBroker' = Tail(toBroker)
        /\ \/ req.t = "subscribe" /\ Subscribed(req)
           \/ req.t = "unsubscribe" /\ Unsubscribed(req)
           \/ Greeted
    BY DEF BrokerReceives
  <1>2. UNCHANGED <<durable, brokerVars, clientVars, bounds, published, ghosts>>
    BY DEF BrokerReceives
  <1>3. req \in ToBrokerMsg /\ Tail(toBroker) \in Seq(ToBrokerMsg)
    BY <1>1, TailFacts DEF TypeOK
  <1>4. toClient \in Seq(ToClientMsg) /\ subs \subseteq Sub
    BY DEF TypeOK
  <1>5. /\ req.t # "hello" => req.s \in Sub
        /\ req.t = "subscribe" => req.by \in {"subscribe", "replay"}
    BY <1>3, ToBrokerFacts
  <1>6. CASE req.t = "subscribe" /\ Subscribed(req)
    <2>1. ok \in ToClientMsg
      BY <1>5, <1>6 DEF ToClientMsg, Answer, TypeOK
    <2>2. Backlog(req) \in Seq(ToClientMsg)
      BY BacklogFacts
    <2>3. subs' = subs \cup {req.s} /\ toClient' = toClient \o Backlog(req) \o <<ok>>
      BY <1>6, Zenon DEF Subscribed
    <2> HIDE DEF ok, req
    <2>4. <<ok>> \in Seq(ToClientMsg)
      BY <2>1
    <2>5. toClient \o Backlog(req) \in Seq(ToClientMsg)
      BY <1>4, <2>2, ConcatFacts
    <2>6. toClient \o Backlog(req) \o <<ok>> \in Seq(ToClientMsg)
      BY <2>4, <2>5, ConcatFacts
    <2> QED
      BY <1>1, <1>2, <1>3, <1>5, <1>6, <2>3, <2>6
      DEF TypeOK, brokerVars, clientVars, bounds, ghosts
  <1>7. CASE req.t = "unsubscribe" /\ Unsubscribed(req)
    <2>1. gone \in ToClientMsg
      BY <1>5, <1>7 DEF ToClientMsg
    <2>2. subs' = subs \ {req.s} /\ toClient' = Append(toClient, gone)
      BY <1>7, Zenon DEF Unsubscribed
    <2> HIDE DEF gone, req
    <2>3. toClient' \in Seq(ToClientMsg)
      BY <1>4, <2>1, <2>2, AppendFacts
    <2> QED
      BY <1>1, <1>2, <1>3, <2>2, <2>3
      DEF TypeOK, brokerVars, clientVars, bounds, ghosts
  <1>8. CASE Greeted
    <2>1. welcome \in ToClientMsg
      BY DEF ToClientMsg
    <2>2. subs' = subs /\ toClient' = Append(toClient, welcome)
      BY <1>8, Zenon DEF Greeted
    <2> HIDE DEF welcome, req
    <2>3. toClient' \in Seq(ToClientMsg)
      BY <1>4, <2>1, <2>2, AppendFacts
    <2> QED
      BY <1>1, <1>2, <1>3, <2>2, <2>3
      DEF TypeOK, brokerVars, clientVars, bounds, ghosts
  <1> QED
    BY <1>1, <1>6, <1>7, <1>8

LEMMA ClientReceivesTypes ==
    ASSUME TypeOK, ClientReceives
    PROVE  TypeOK'
  <1> DEFINE m == Head(toClient)
             takers == {s \in ToSet(subscriptions) : m.ch \in MatchedBy(s) /\ Fresh(s, m)}
  <1>1. /\ toClient # <<>> /\ toClient' = Tail(toClient)
        /\ \/ m.t = "message" /\ Deliver(m) /\ UNCHANGED resumes
           \/ m.t = "ok" /\ resumes' = resumes \cup {m} /\ UNCHANGED <<delivered, offsets, early>>
           \/ UNCHANGED <<delivered, offsets, early, resumes>>
        /\ link' = link \/ link' = "welcome"
    BY DEF ClientReceives
  <1>2. UNCHANGED <<durable, brokerVars, subs, toBroker, seenEpoch, subscriptions,
                    replayOpts, visited, awaited, bounds, published, from, dropped, returned>>
    BY DEF ClientReceives
  <1>3. m \in ToClientMsg /\ Tail(toClient) \in Seq(ToClientMsg)
    BY <1>1, TailFacts DEF TypeOK
  <1>4. /\ m.t = "message" => m.offset \in Nat /\ m.id \in Nat
        /\ m.t = "ok" => m \in Answer
    BY <1>3, ToClientFacts
  <1>5. /\ offsets \in [Sub -> Mark] /\ delivered \in [Sub -> Seq(Nat)] /\ resumes \subseteq Answer
        /\ early \subseteq Sub /\ ToSet(subscriptions) \subseteq Sub
    BY MembersFacts DEF TypeOK
  <1>6. /\ offsets' \in [Sub -> Mark] /\ delivered' \in [Sub -> Seq(Nat)]
        /\ resumes' \subseteq Answer /\ early' \subseteq Sub
    <2>1. CASE m.t = "message" /\ Deliver(m) /\ UNCHANGED resumes
      <3>1. /\ delivered' = [s \in Sub |->
                  IF s \in takers THEN Append(delivered[s], m.id) ELSE delivered[s]]
            /\ offsets' = [s \in Sub |->
                  IF s \in takers /\ m.offset > offsets[s] THEN m.offset ELSE offsets[s]]
            /\ resumes' = resumes
        BY <2>1, Zenon DEF Deliver
      <3>2. early' \subseteq early \cup takers /\ takers \subseteq Sub
        BY <1>5, <2>1 DEF Deliver
      <3> HIDE DEF takers, m
      <3>3. \A s \in Sub : Append(delivered[s], m.id) \in Seq(Nat)
        BY <1>4, <1>5, <2>1, AppendFacts
      <3>4. m.offset \in Mark
        BY <1>4, <2>1 DEF Mark
      <3> QED
        BY <1>5, <3>1, <3>2, <3>3, <3>4
    <2>2. CASE m.t = "ok" /\ resumes' = resumes \cup {m} /\ UNCHANGED <<delivered, offsets, early>>
      BY <1>4, <1>5, <2>2
    <2>3. CASE UNCHANGED <<delivered, offsets, early, resumes>>
      BY <1>5, <2>3
    <2> QED
      BY <1>1, <2>1, <2>2, <2>3
  <1> HIDE DEF m
  <1> QED
    BY <1>1, <1>2, <1>3, <1>6 DEF TypeOK, brokerVars, bounds

LEMMA ResumeTypes ==
    ASSUME TypeOK, NEW r \in resumes, Resume(r)
    PROVE  TypeOK'
  <1>1. r.s \in Sub /\ r.offset \in Mark /\ r.from \in Mark
    BY DEF TypeOK, Answer, Mark
  <1>2. /\ resumes' = resumes \ {r} /\ replayOpts' = replayOpts \ {r.s}
        /\ offsets' = Baseline(r)
        /\ from' = [from EXCEPT ![r.s] =
             IF @ = Unset /\ r.s \in ToSet(subscriptions) THEN r.from ELSE @]
        /\ awaited' = IF r.by = "replay" THEN NoSub ELSE awaited
    BY DEF Resume
  <1>3. UNCHANGED <<durable, brokerVars, subs, toBroker, toClient, link, seenEpoch,
                    subscriptions, visited, bounds, published, delivered, dropped, returned,
                    early>>
    BY DEF Resume
  <1>4. offsets' \in [Sub -> Mark] /\ from' \in [Sub -> Mark]
    BY <1>1, <1>2 DEF TypeOK, Baseline
  <1> QED
    BY <1>2, <1>3, <1>4 DEF TypeOK, brokerVars, bounds

LEMMA SendTypes ==
    ASSUME TypeOK, NEW req \in ToBrokerMsg, Send(req)
    PROVE  toBroker' \in Seq(ToBrokerMsg)
  <1>1. toBroker \in Seq(ToBrokerMsg)
    BY DEF TypeOK
  <1>2. Append(toBroker, req) \in Seq(ToBrokerMsg)
    BY <1>1, AppendFacts
  <1> QED
    BY <1>1, <1>2 DEF Send

LEMMA SubscribeTypes ==
    ASSUME TypeOK, NEW s \in Sub, NEW replay \in BOOLEAN, Subscribe(s, replay)
    PROVE  TypeOK'
  <1> DEFINE req == [t |-> "subscribe", s |-> s, by |-> "subscribe", since |-> Unset,
                     replay |-> replay]
  <1>1. req \in ToBrokerMsg
    BY DEF ToBrokerMsg, Mark
  <1>2. /\ calls' = calls + 1 /\ subscriptions' = Append(subscriptions, s)
        /\ replayOpts' = (IF replay THEN replayOpts \cup {s} ELSE replayOpts)
        /\ Send(req)
        /\ delivered' = [delivered EXCEPT ![s] = <<>>]
        /\ from' = [from EXCEPT ![s] = IF replay THEN 0 ELSE Unset]
    BY DEF Subscribe
  <1>3. UNCHANGED <<durable, brokerVars, subs, toClient, link, seenEpoch, offsets, visited,
                    awaited, resumes, breaks, restarts, published, dropped, returned>>
        /\ early' = early \ {s}
    BY DEF Subscribe
  <1>4. toBroker' \in Seq(ToBrokerMsg)
    BY <1>1, <1>2, SendTypes
  <1>5. subscriptions' \in Seq(Sub)
    BY <1>2, AppendFacts DEF TypeOK
  <1>6. delivered' \in [Sub -> Seq(Nat)] /\ from' \in [Sub -> Mark] /\ calls' \in Nat
        /\ replayOpts' \subseteq Sub
    <2>1. 0 \in Mark /\ Unset \in Mark /\ <<>> \in Seq(Nat)
      BY DEF Mark
    <2> QED
      BY <1>2, <2>1 DEF TypeOK
  <1> QED
    BY <1>3, <1>4, <1>5, <1>6 DEF TypeOK, brokerVars

LEMMA UnsubscribeTypes ==
    ASSUME TypeOK, RequestsAgree, NEW s \in Sub, Unsubscribe(s)
    PROVE  TypeOK'
  <1> DEFINE req == [t |-> "unsubscribe", s |-> s]
  <1>1. req \in ToBrokerMsg
    BY DEF ToBrokerMsg
  <1>2. /\ calls' = calls + 1 /\ replayOpts' = replayOpts \ {s} /\ visited' = visited \ {s}
        /\ offsets' = [offsets EXCEPT ![s] = Unset] /\ Send(req)
    BY DEF Unsubscribe
  <1>3. PICK i \in DOMAIN subscriptions : subscriptions' = RemoveAt(subscriptions, i)
    BY DEF Unsubscribe
  <1>4. UNCHANGED <<durable, brokerVars, subs, toClient, link, seenEpoch, awaited, resumes,
                    breaks, restarts, published, ghosts>>
    BY DEF Unsubscribe
  <1>5. toBroker' \in Seq(ToBrokerMsg)
    BY <1>1, <1>2, SendTypes
  <1>6. subscriptions' \in Seq(Sub)
    BY <1>3, RemoveFacts DEF TypeOK, RequestsAgree
  <1>7. offsets' \in [Sub -> Mark] /\ calls' \in Nat
    <2>1. Unset \in Mark
      BY DEF Mark
    <2> QED
      BY <1>2, <2>1 DEF TypeOK
  <1> QED
    BY <1>2, <1>4, <1>5, <1>6, <1>7 DEF TypeOK, brokerVars, ghosts

LEMMA ReplayTypes ==
    ASSUME TypeOK, Replay
    PROVE  TypeOK'
  <1>1. UNCHANGED <<durable, brokerVars, subs, toClient, seenEpoch, subscriptions, offsets,
                    replayOpts, resumes, bounds, published, ghosts>>
    BY DEF Replay
  <1>2. CASE Left = {} /\ link' = "up" /\ UNCHANGED <<toBroker, visited, awaited>>
    BY <1>1, <1>2 DEF TypeOK, brokerVars, bounds, ghosts
  <1>3. ASSUME NEW i \in DOMAIN subscriptions,
               visited' = visited \cup {subscriptions[i]}, awaited' = subscriptions[i],
               Send([t |-> "subscribe", s |-> subscriptions[i], by |-> "replay",
                     since |-> offsets[subscriptions[i]],
                     replay |-> offsets[subscriptions[i]] = Unset
                                /\ subscriptions[i] \in replayOpts]),
               UNCHANGED link
        PROVE  TypeOK'
    <2> DEFINE s == subscriptions[i]
               req == [t |-> "subscribe", s |-> s, by |-> "replay", since |-> offsets[s],
                       replay |-> offsets[s] = Unset /\ s \in replayOpts]
    <2>1. s \in Sub
      BY LenProperties DEF TypeOK
    <2>2. offsets[s] \in Mark
      BY <2>1 DEF TypeOK
    <2>3. (offsets[s] = Unset /\ s \in replayOpts) \in BOOLEAN
      OBVIOUS
    <2>4. req \in ToBrokerMsg
      <3> DEFINE b == offsets[s] = Unset /\ s \in replayOpts
      <3> HIDE DEF b, s
      <3>1. b \in BOOLEAN
        BY <2>3 DEF b, s
      <3> QED
        BY <2>1, <2>2, <3>1 DEF ToBrokerMsg
    <2>5. toBroker' \in Seq(ToBrokerMsg)
      BY <1>3, <2>4, SendTypes
    <2> QED
      BY <1>1, <1>3, <2>1, <2>5 DEF TypeOK, brokerVars, bounds, ghosts
  <1> QED
    BY <1>2, <1>3 DEF Replay

LEMMA PruneTypes ==
    ASSUME TypeOK, NEW ch \in Channel, Prune(ch)
    PROVE  TypeOK'
  <1>1. /\ ring[ch] \in Seq(Message) /\ ring[ch] # <<>> /\ ring' = [ring EXCEPT ![ch] = Tail(@)]
        /\ trimmed' = [trimmed EXCEPT ![ch] = <<>>]
    BY DEF TypeOK, Prune
  <1>2. Tail(ring[ch]) \in Seq(Message) /\ <<>> \in Seq(Message)
    BY <1>1, TailFacts
  <1>3. UNCHANGED <<durable, epoch, offsetBase, nextOffset, reserved, subs, toBroker, toClient,
                    clientVars, bounds, published, ghosts>>
    BY DEF Prune
  <1> QED
    BY <1>1, <1>2, <1>3 DEF TypeOK, clientVars, bounds, ghosts

LEMMA CompactTypes ==
    ASSUME TypeOK, Compact
    PROVE  TypeOK'
  <1>1. trimmed' \in [Channel -> Seq(Message)]
    BY DEF Compact
  <1> QED
    BY <1>1 DEF TypeOK, Compact, clientVars, bounds, ghosts

LEMMA OpenTypes ==
    ASSUME TypeOK, Open
    PROVE  TypeOK'
  <1> DEFINE req == [t |-> "hello", s |-> NoSub]
  <1>1. req \in ToBrokerMsg
    BY DEF ToBrokerMsg
  <1>2. /\ toBroker \in Seq(ToBrokerMsg) /\ toBroker' = Append(toBroker, req)
        /\ link' = "hello"
    BY DEF TypeOK, Open
  <1>3. UNCHANGED <<durable, brokerVars, subs, toClient, seenEpoch, subscriptions, offsets,
                    replayOpts, visited, awaited, resumes, bounds, published, ghosts>>
    BY DEF Open
  <1> HIDE DEF req
  <1>4. toBroker' \in Seq(ToBrokerMsg)
    BY <1>1, <1>2, AppendFacts
  <1> QED
    BY <1>2, <1>3, <1>4 DEF TypeOK, brokerVars, bounds, ghosts

LEMMA AdoptTypes ==
    ASSUME TypeOK, Adopt
    PROVE  TypeOK'
  <1>1. \A s \in Sub : Adopted[s] \in Mark
    BY AdoptedFacts
  <1>2. Adopted \in [Sub -> Mark]
    BY <1>1 DEF Adopted
  <1> QED
    BY <1>2 DEF TypeOK, Adopt, brokerVars, bounds, ghosts, Mark

\* What a broker that restarts with a persist dir keeps of what is on record.
LEMMA RecoveredFacts ==
    ASSUME TypeOK, OffsetsAgree, NEW gone, NEW ch \in Channel
    PROVE  /\ Retain(ByOffset(Logged(ch) \ gone)) \in Seq(Message)
           /\ ToSet(Retain(ByOffset(Logged(ch) \ gone))) \subseteq Logged(ch)
  <1> DEFINE kept == Logged(ch) \ gone
  <1>1. Logged(ch) \subseteq Message
    BY LoggedFacts
  <1>2. nextOffset \in Nat /\ \A m \in kept : m.offset \in 1 .. nextOffset
    <2>1. nextOffset \in Nat
      BY DEF TypeOK
    <2>2. ASSUME NEW m \in kept
          PROVE  m.offset \in 1 .. nextOffset
      <3>1. Frame(ch, m) \in Current /\ Frame(ch, m).offset = m.offset
        BY <1>1, HeldFacts, FrameFacts DEF Current
      <3> QED
        BY <3>1 DEF OffsetsAgree
    <2> QED
      BY <2>1, <2>2
  <1>3. \A l, m \in kept : l.offset = m.offset => l = m
    BY DEF OffsetsAgree, RingsAgree
  <1>4. kept \subseteq Logged(ch)
    OBVIOUS
  <1> HIDE DEF kept
  <1>5. ByOffset(kept) \in Seq(kept)
    BY <1>2, <1>3, ByOffsetFacts
  <1>6. Retain(ByOffset(kept)) \in Seq(kept)
    BY <1>5, RetainFacts
  <1>7. ToSet(Retain(ByOffset(kept))) \subseteq kept
    BY <1>6, MembersFacts
  <1>8. Retain(ByOffset(kept)) \in Seq(Message)
    BY <1>1, <1>4, <1>6, SeqMonotonic
  <1> QED
    BY <1>4, <1>7, <1>8 DEF kept

\* What a restart makes of the record and the offsets.
LEMMA RestartFacts ==
    ASSUME TypeOK, OffsetsAgree, Restart
    PROVE  /\ ring' \in [Channel -> Seq(Message)] /\ trimmed' \in [Channel -> Seq(Message)]
           /\ \A ch \in Channel : Logged(ch)' \subseteq Logged(ch)
           /\ nextOffset' \in Nat /\ reserved' \in Nat /\ nextOffset' <= reserved'
           /\ offsetBase' = nextOffset' /\ epoch' = epoch + 1
           /\ \/ nextOffset <= nextOffset'
              \/ \A ch \in Channel : Logged(ch)' = {}
  <1>1. /\ offsetBase' = nextOffset' /\ epoch' = epoch + 1
        /\ trimmed' = [ch \in Channel |-> <<>>]
    BY DEF Restart
  <1>2. reserved \in Nat /\ nextOffset \in Nat /\ nextOffset <= reserved
    BY DEF TypeOK, OffsetsAgree
  <1>3. /\ trimmed' \in [Channel -> Seq(Message)]
        /\ \A ch \in Channel : Logged(ch)' = ToSet(ring'[ch])
    <2>1. \A ch \in Channel : ToSet(trimmed'[ch]) = {}
      BY <1>1 DEF ToSet
    <2> QED
      BY <1>1, <2>1 DEF Logged
  <1>4. CASE durable
    <2>1. PICK gone : ring' = [ch \in Channel |-> Retain(ByOffset(Logged(ch) \ gone))]
      BY <1>4 DEF Restart
    <2>2. nextOffset' = reserved /\ reserved' = reserved
      BY <1>4 DEF Restart
    <2>3. \A ch \in Channel : /\ ring'[ch] \in Seq(Message)
                              /\ ToSet(ring'[ch]) \subseteq Logged(ch)
      BY <2>1, RecoveredFacts
    <2>4. ring' \in [Channel -> Seq(Message)]
      BY <2>1, <2>3
    <2> QED
      BY <1>1, <1>2, <1>3, <2>2, <2>3, <2>4
  <1>5. CASE ~durable
    <2>1. ring' = [ch \in Channel |-> <<>>] /\ nextOffset' = 0 /\ reserved' = 0
      BY <1>5 DEF Restart
    <2>2. \A ch \in Channel : ToSet(ring'[ch]) = {}
      BY <2>1 DEF ToSet
    <2>3. ring' \in [Channel -> Seq(Message)]
      BY <2>1
    <2> QED
      BY <1>1, <1>3, <2>1, <2>2, <2>3
  <1> QED
    BY <1>4, <1>5

\* ... and what it says of those that it brings back.
LEMMA ReturnedFacts ==
    ASSUME TypeOK, OffsetsAgree, Restart
    PROVE  /\ returned' \subseteq Nat /\ returned \subseteq returned'
           /\ \A ch \in Channel : \A m \in ToSet(ring'[ch]) :
                m \in ToSet(ring[ch]) \/ m.id \in returned'
  <1>1. returned' = returned \cup
          {m.id : m \in UNION {ToSet(ring'[ch]) \ ToSet(ring[ch]) : ch \in Channel}}
    BY DEF Restart
  <1>2. \A ch \in Channel : \A m \in ToSet(ring'[ch]) : m.id \in Nat
    <2>1. \A ch \in Channel : ToSet(ring'[ch]) \subseteq Message
      BY RestartFacts, MembersFacts
    <2> QED
      BY <2>1 DEF Message
  <1> DEFINE new == {m.id : m \in UNION {ToSet(ring'[ch]) \ ToSet(ring[ch]) : ch \in Channel}}
  <1>3. new \subseteq Nat
    BY <1>2
  <1>4. \A ch \in Channel : \A m \in ToSet(ring'[ch]) : m \in ToSet(ring[ch]) \/ m.id \in new
    OBVIOUS
  <1>5. returned \subseteq Nat /\ returned' = returned \cup new
    BY <1>1 DEF TypeOK
  <1> HIDE DEF new
  <1> QED
    BY <1>3, <1>4, <1>5

LEMMA LinkDownTypes ==
    ASSUME TypeOK, LinkDown,
           epoch' \in Nat, offsetBase' \in Nat, nextOffset' \in Nat, reserved' \in Nat,
           ring' \in [Channel -> Seq(Message)], trimmed' \in [Channel -> Seq(Message)],
           breaks' \in Nat, restarts' \in Nat, returned' \subseteq Nat
    PROVE  TypeOK'
  BY DEF TypeOK, LinkDown

LEMMA NextTypes ==
    ASSUME IInv, [Next]_vars
    PROVE  TypeOK'
  <1> USE DEF IInv
  <1>1. CASE UNCHANGED vars
    BY <1>1 DEF TypeOK, vars, brokerVars, clientVars, bounds, ghosts
  <1>2. CASE Break
    BY <1>2, LinkDownTypes DEF Break, TypeOK, brokerVars
  <1>3. CASE Restart
    <2>1. /\ epoch' \in Nat /\ offsetBase' \in Nat /\ nextOffset' \in Nat /\ reserved' \in Nat
          /\ ring' \in [Channel -> Seq(Message)] /\ trimmed' \in [Channel -> Seq(Message)]
          /\ returned' \subseteq Nat
      BY <1>3, RestartFacts, ReturnedFacts DEF TypeOK
    <2>2. LinkDown /\ breaks' \in Nat /\ restarts' \in Nat
      BY <1>3 DEF Restart, TypeOK
    <2> QED
      BY <2>1, <2>2, LinkDownTypes
  <1>4. ASSUME Next, ~Break, ~Restart
        PROVE  TypeOK'
    BY <1>4, PublishTypes, BrokerReceivesTypes, ClientReceivesTypes, ResumeTypes,
       SubscribeTypes, UnsubscribeTypes, ReplayTypes, PruneTypes, CompactTypes,
       OpenTypes, AdoptTypes DEF Next
  <1> QED
    BY <1>1, <1>2, <1>3, <1>4

-----------------------------------------------------------------------------
(* The link.                                                               *)

LEMMA LinkNext ==
    ASSUME IInv, Next
    PROVE  LinkAgrees'
  <1>1. /\ epoch \in Nat /\ seenEpoch \in Mark /\ LinkAgrees /\ HandshakeAgrees
        /\ link \in {"down", "hello", "welcome", "replaying", "up"}
    BY DEF IInv, TypeOK
  <1>2. epoch # Unset
    BY <1>1 DEF Unset
  \* Steps that leave the link as it is.
  <1>3. ASSUME UNCHANGED <<link, seenEpoch, epoch>>,
               link = "down" => UNCHANGED <<toBroker, toClient, subs, resumes>>,
               link \in {"down", "hello"} => \A s \in Sub : offsets'[s] \in {offsets[s], Unset}
        PROVE  LinkAgrees'
    BY <1>1, <1>2, <1>3 DEF LinkAgrees
  <1>4. ASSUME NEW ch \in Channel, NEW safe \in BOOLEAN, Publish(ch, safe)
        PROVE  LinkAgrees'
    <2>1. UNCHANGED <<epoch, subs, toBroker, clientVars>>
      BY <1>4 DEF Publish
    <2>2. subs = {} => toClient' = toClient
      BY <1>4 DEF Publish
    <2>3. link = "down" => subs = {}
      BY <1>1 DEF LinkAgrees
    <2> QED
      BY <1>3, <2>1, <2>2, <2>3 DEF clientVars
  <1>5. ASSUME Compact \/ \E ch \in Channel : Prune(ch)
        PROVE  LinkAgrees'
    BY <1>3, <1>5 DEF Prune, Compact, clientVars
  <1>6. ASSUME BrokerReceives
        PROVE  LinkAgrees'
    <2>1. link # "down"
      BY <1>1, <1>6 DEF LinkAgrees, BrokerReceives
    <2>2. UNCHANGED <<link, seenEpoch, epoch, offsets>>
      BY <1>6 DEF BrokerReceives, brokerVars, clientVars
    <2> QED
      BY <1>3, <2>1, <2>2
  <1>7. ASSUME NEW r \in resumes, Resume(r)
        PROVE  LinkAgrees'
    <2>1. link \notin {"down", "hello"}
      BY <1>1, <1>7 DEF LinkAgrees, HandshakeAgrees
    <2>2. UNCHANGED <<link, seenEpoch, epoch>>
      BY <1>7 DEF Resume, brokerVars
    <2> QED
      BY <1>3, <2>1, <2>2
  <1>8. ASSUME ClientReceives
        PROVE  LinkAgrees'
    <2>1. link # "down" /\ (link = "hello" => Head(toClient).t = "welcome")
      BY <1>1, <1>8 DEF LinkAgrees, HandshakeAgrees, ClientReceives
    <2>2. UNCHANGED <<seenEpoch, epoch>>
      BY <1>8 DEF ClientReceives, brokerVars
    <2>3. CASE Head(toClient).t = "welcome"
      <3>1. link' = "welcome"
        BY <1>8, <2>3 DEF ClientReceives
      <3> QED
        BY <1>1, <2>2, <3>1 DEF LinkAgrees
    <2>4. CASE Head(toClient).t # "welcome"
      <3>1. link' = link
        BY <1>8, <2>4 DEF ClientReceives
      <3> QED
        BY <1>3, <2>1, <2>2, <2>4, <3>1
    <2> QED
      BY <2>3, <2>4
  <1>9. ASSUME NEW s \in Sub, NEW replay \in BOOLEAN, Subscribe(s, replay)
        PROVE  LinkAgrees'
    BY <1>3, <1>9 DEF Subscribe, Send, brokerVars
  <1>10. ASSUME NEW s \in Sub, Unsubscribe(s)
         PROVE  LinkAgrees'
    <2>1. offsets \in [Sub -> Mark] /\ offsets' = [offsets EXCEPT ![s] = Unset]
      BY <1>10 DEF Unsubscribe, IInv, TypeOK
    <2>2. \A x \in Sub : offsets'[x] \in {offsets[x], Unset}
      BY <2>1
    <2> QED
      BY <1>3, <1>10, <2>2 DEF Unsubscribe, Send, brokerVars
  <1>11. ASSUME Open \/ Adopt
         PROVE  LinkAgrees'
    BY <1>1, <1>2, <1>11 DEF LinkAgrees, Open, Adopt, brokerVars
  <1>12. ASSUME Replay
         PROVE  LinkAgrees'
    <2>1. link = "replaying" /\ link' \in {"replaying", "up"}
      BY <1>12 DEF Replay
    <2>2. UNCHANGED <<seenEpoch, epoch>>
      BY <1>12 DEF Replay, brokerVars
    <2> QED
      BY <1>1, <1>2, <2>1, <2>2 DEF LinkAgrees
  <1>13. ASSUME Break \/ Restart
         PROVE  LinkAgrees'
    <2>1. /\ link' = "down" /\ toBroker' = <<>> /\ toClient' = <<>> /\ subs' = {}
          /\ resumes' = {} /\ UNCHANGED <<seenEpoch, offsets>> /\ link # "welcome"
      BY <1>13 DEF Break, Restart, LinkDown
    <2>2. epoch' = epoch \/ epoch' = epoch + 1
      BY <1>13 DEF Break, Restart, brokerVars
    <2>3. seenEpoch <= epoch'
      BY <1>1, <2>2 DEF LinkAgrees, Mark, Unset
    <2> QED
      BY <1>1, <2>1, <2>3 DEF LinkAgrees
  <1> QED
    BY <1>4, <1>5, <1>6, <1>7, <1>8, <1>9, <1>10, <1>11, <1>12, <1>13 DEF Next

\* HELLO is the first request on a link, and WELCOME the first answer.
LEMMA HandshakeNext ==
    ASSUME IInv, Next
    PROVE  HandshakeAgrees'
  <1>1. /\ LinkAgrees /\ HandshakeAgrees
        /\ toBroker \in Seq(ToBrokerMsg) /\ toClient \in Seq(ToClientMsg)
    BY DEF IInv, TypeOK
  <1>2. SUFFICES ASSUME link' = "hello"
                 PROVE  HandshakeAgrees'
    BY DEF HandshakeAgrees
  <1>3. CASE Open
    <2> DEFINE req == [t |-> "hello", s |-> NoSub]
    <2>1. /\ toBroker = <<>> /\ toClient' = <<>> /\ subs' = {} /\ resumes' = {}
          /\ toBroker' = Append(toBroker, req)
      BY <1>1, <1>3 DEF Open, LinkAgrees
    <2>2. toBroker' = <<req>>
      BY <2>1
    <2>3. toBroker' # <<>> /\ Head(toBroker').t = "hello"
      BY <2>2
    <2> QED
      BY <2>1, <2>3 DEF HandshakeAgrees
  <1>4. ASSUME ~Open
        PROVE  link = "hello" /\ link' = link
    BY <1>2, <1>4 DEF Next, Publish, Prune, Compact, BrokerReceives, ClientReceives, Resume,
       Subscribe, Unsubscribe, Adopt, Replay, Break, Restart, LinkDown, clientVars
  \* Before HELLO is served nothing is sent; after that WELCOME stays ahead.
  <1>5. ASSUME link = "hello", resumes' = resumes,
               toClient = <<>> /\ subs = {} /\ toBroker # <<>> /\ Head(toBroker).t = "hello" =>
                   \/ /\ toBroker' # <<>> /\ Head(toBroker') = Head(toBroker)
                      /\ UNCHANGED <<toClient, subs>>
                   \/ toClient' # <<>> /\ Head(toClient').t = "welcome",
               toClient # <<>> => toClient' # <<>> /\ Head(toClient') = Head(toClient)
        PROVE  HandshakeAgrees'
    BY <1>1, <1>5 DEF HandshakeAgrees
  <1>6. ASSUME NEW ch \in Channel, NEW safe \in BOOLEAN, Publish(ch, safe), link = "hello"
        PROVE  HandshakeAgrees'
    <2> DEFINE m == [offset |-> nextOffset + 1, id |-> published + 1, safe |-> safe]
    <2>1. Frame(ch, m) \in ToClientMsg
      BY MintFacts, FrameFacts DEF IInv
    <2>2. /\ UNCHANGED <<subs, toBroker, resumes>> /\ (subs = {} => toClient' = toClient)
          /\ toClient' = toClient \/ toClient' = Append(toClient, Frame(ch, m))
      BY <1>6 DEF Publish, clientVars
    <2> HIDE DEF m
    <2>3. toClient # <<>> => toClient' # <<>> /\ Head(toClient') = Head(toClient)
      BY <1>1, <2>1, <2>2, HeadFacts
    <2> QED
      BY <1>5, <1>6, <2>2, <2>3
  <1>7. ASSUME BrokerReceives, link = "hello"
        PROVE  HandshakeAgrees'
    <2> DEFINE req == Head(toBroker)
               ok  == [t |-> "ok", s |-> req.s, by |-> req.by, offset |-> nextOffset,
                       from |-> published]
               welcome == [t |-> "welcome", s |-> NoSub]
    <2>1. /\ toClient' \in Seq(ToClientMsg) /\ resumes' = resumes
          /\ toBroker \in Seq(ToBrokerMsg) /\ toBroker # <<>>
      BY <1>1, <1>7, BrokerReceivesTypes DEF IInv, TypeOK, BrokerReceives, clientVars
    <2>2. CASE req.t = "hello"
      <3>1. toClient' = Append(toClient, welcome) /\ welcome \in ToClientMsg
        BY <1>7, <2>2 DEF BrokerReceives, Greeted, ToClientMsg
      <3>2. welcome.t = "welcome"
        OBVIOUS
      <3> HIDE DEF welcome, req
      <3>3. toClient = <<>> => toClient' # <<>> /\ Head(toClient').t = "welcome"
        <4>1. toClient = <<>> => toClient' = <<welcome>>
          BY <3>1
        <4> QED
          BY <3>2, <4>1
      <3>4. toClient # <<>> => toClient' # <<>> /\ Head(toClient') = Head(toClient)
        BY <1>1, <3>1, HeadFacts
      <3> QED
        BY <1>5, <1>7, <2>1, <3>3, <3>4
    <2>3. CASE req.t # "hello"
      <3>1. /\ req \in ToBrokerMsg /\ req.s \in Sub
            /\ req.t = "subscribe" => req.by \in {"subscribe", "replay"}
        BY <2>1, <2>3, TailFacts, ToBrokerFacts
      <3>2. toClient # <<>>
        BY <1>1, <1>7, <2>3 DEF HandshakeAgrees
      <3>3. CASE req.t = "subscribe" /\ Subscribed(req)
        <4>1. toClient' = toClient \o Backlog(req) \o <<ok>>
          BY <3>3, Zenon DEF Subscribed
        <4>2. ok \in ToClientMsg
          BY <3>1, <3>3 DEF ToClientMsg, Answer, TypeOK, IInv
        <4>3. Backlog(req) \in Seq(ToClientMsg)
          BY BacklogFacts DEF IInv
        <4> HIDE DEF ok, req
        <4>4. <<ok>> \in Seq(ToClientMsg) /\ toClient \o Backlog(req) \in Seq(ToClientMsg)
          BY <1>1, <4>2, <4>3, ConcatFacts
        <4>5. /\ toClient \o Backlog(req) # <<>>
              /\ Head(toClient \o Backlog(req)) = Head(toClient)
          BY <1>1, <3>2, <4>3, HeadFacts
        <4>6. toClient' # <<>> /\ Head(toClient') = Head(toClient \o Backlog(req))
          BY <4>1, <4>4, <4>5, HeadFacts
        <4> QED
          BY <1>5, <1>7, <2>1, <3>2, <4>5, <4>6
      <3>4. CASE req.t = "unsubscribe" /\ Unsubscribed(req)
        <4> DEFINE gone == [t |-> "gone", s |-> req.s]
        <4>1. toClient' = Append(toClient, gone) /\ gone \in ToClientMsg
          BY <3>1, <3>4 DEF Unsubscribed, ToClientMsg
        <4> HIDE DEF gone, req
        <4>2. toClient' # <<>> /\ Head(toClient') = Head(toClient)
          BY <1>1, <3>2, <4>1, HeadFacts
        <4> QED
          BY <1>5, <1>7, <2>1, <3>2, <4>2
      <3> QED
        BY <1>7, <2>3, <3>3, <3>4 DEF BrokerReceives
    <2> QED
      BY <2>2, <2>3
  <1>8. ASSUME NEW req \in ToBrokerMsg, Send(req), link = "hello",
               UNCHANGED <<toClient, subs, resumes>>
        PROVE  HandshakeAgrees'
    <2>1. toBroker' = Append(toBroker, req)
      BY <1>8 DEF Send
    <2>2. toBroker # <<>> => toBroker' # <<>> /\ Head(toBroker') = Head(toBroker)
      BY <1>1, <2>1, HeadFacts
    <2> QED
      BY <1>5, <1>8, <2>2
  <1>9. ASSUME NEW s \in Sub, NEW replay \in BOOLEAN, Subscribe(s, replay), link = "hello"
        PROVE  HandshakeAgrees'
    <2> DEFINE req == [t |-> "subscribe", s |-> s, by |-> "subscribe", since |-> Unset,
                       replay |-> replay]
    <2>1. req \in ToBrokerMsg
      BY DEF ToBrokerMsg, Mark
    <2>2. Send(req) /\ UNCHANGED <<toClient, subs, resumes>>
      BY <1>9 DEF Subscribe
    <2> HIDE DEF req
    <2> QED
      BY <1>8, <1>9, <2>1, <2>2
  <1>10. ASSUME NEW s \in Sub, Unsubscribe(s), link = "hello"
         PROVE  HandshakeAgrees'
    <2> DEFINE req == [t |-> "unsubscribe", s |-> s]
    <2>1. req \in ToBrokerMsg
      BY DEF ToBrokerMsg
    <2>2. Send(req) /\ UNCHANGED <<toClient, subs, resumes>>
      BY <1>10 DEF Unsubscribe
    <2> HIDE DEF req
    <2> QED
      BY <1>8, <1>10, <2>1, <2>2
  <1>11. ASSUME Compact \/ \E ch \in Channel : Prune(ch), link = "hello"
         PROVE  HandshakeAgrees'
    <2>1. UNCHANGED <<toBroker, toClient, subs, resumes>>
      BY <1>11 DEF Compact, Prune, clientVars
    <2> QED
      BY <1>5, <1>11, <2>1
  <1>12. ASSUME ClientReceives \/ (\E r \in resumes : Resume(r)) \/ Adopt \/ Replay \/ Break
                \/ Restart, link = "hello", link' = link
         PROVE  FALSE
    <2>1. resumes = {} /\ (toClient # <<>> => Head(toClient).t = "welcome")
      BY <1>1, <1>12 DEF HandshakeAgrees
    <2>2. ClientReceives => link' = "welcome"
      BY <2>1 DEF ClientReceives
    <2> QED
      BY <1>12, <2>1, <2>2 DEF Adopt, Replay, Break, Restart, LinkDown
  <1> QED
    BY <1>3, <1>4, <1>6, <1>7, <1>9, <1>10, <1>11, <1>12 DEF Next

-----------------------------------------------------------------------------
(* Subscriptions.                                                          *)

LEMMA RequestsSame ==
    ASSUME RequestsAgree, UNCHANGED <<subscriptions, subs, toBroker, visited>>,
           link' = link \/ link' \notin {"replaying", "up"}
    PROVE  RequestsAgree'
  BY DEF RequestsAgree, WillHave

LEMMA RequestsNext ==
    ASSUME IInv, Next
    PROVE  RequestsAgree'
  <1>1. TypeOK /\ LinkAgrees /\ RequestsAgree
    BY DEF IInv
  <1>2. ToSet(subscriptions) \subseteq Sub /\ subscriptions \in Seq(Sub)
    BY <1>1, MembersFacts DEF TypeOK
  <1>3. ASSUME \/ \E ch \in Channel : Prune(ch) \/ \E safe \in BOOLEAN : Publish(ch, safe)
               \/ Compact \/ ClientReceives \/ \E r \in resumes : Resume(r)
        PROVE  RequestsAgree'
    <2>1. /\ UNCHANGED <<subscriptions, subs, toBroker, visited>>
          /\ link' = link \/ link' = "welcome"
      BY <1>3 DEF Prune, Publish, Compact, ClientReceives, Resume, clientVars
    <2> QED
      BY <1>1, <2>1, RequestsSame
  <1>4. ASSUME BrokerReceives
        PROVE  RequestsAgree'
    <2>1. /\ toBroker # <<>> /\ toBroker' = Tail(toBroker)
          /\ \/ Head(toBroker).t = "subscribe" /\ subs' = subs \cup {Head(toBroker).s}
             \/ Head(toBroker).t = "unsubscribe" /\ subs' = subs \ {Head(toBroker).s}
             \/ Head(toBroker).t = "hello" /\ subs' = subs
      BY <1>4 DEF BrokerReceives, Subscribed, Unsubscribed, Greeted
    <2>2. \A s \in Sub : WillHave(s)' <=> WillHave(s)
      BY <1>1, <2>1, WillHaveServed
    <2>3. UNCHANGED <<subscriptions, link, visited>>
      BY <1>4 DEF BrokerReceives, clientVars
    <2> QED
      BY <1>1, <1>2, <2>2, <2>3 DEF RequestsAgree
  <1>5. ASSUME NEW s \in Sub, NEW replay \in BOOLEAN, Subscribe(s, replay)
        PROVE  RequestsAgree'
    <2> DEFINE req == [t |-> "subscribe", s |-> s, by |-> "subscribe", since |-> Unset,
                       replay |-> replay]
               n == Len(subscriptions)
    <2>1. /\ subscriptions' = Append(subscriptions, s) /\ s \notin ToSet(subscriptions)
          /\ Send(req) /\ UNCHANGED <<link, subs, visited>>
      BY <1>5 DEF Subscribe
    <2>2. req \in ToBrokerMsg /\ req.t = "subscribe" /\ req.s = s
      BY DEF ToBrokerMsg, Mark
    <2> HIDE DEF req
    <2>3. /\ subscriptions' \in Seq(Sub) /\ n \in Nat /\ Len(subscriptions') = n + 1
          /\ \A i \in 1 .. n : subscriptions'[i] = subscriptions[i]
          /\ subscriptions'[n + 1] = s
          /\ ToSet(subscriptions') = ToSet(subscriptions) \cup {s}
      BY <1>2, <2>1, AppendFacts
    <2>4. DOMAIN subscriptions = 1 .. n /\ DOMAIN subscriptions' = 1 .. n + 1
      BY <1>2, <2>3, LenProperties
    <2>5. \A i, j \in DOMAIN subscriptions' : subscriptions'[i] = subscriptions'[j] => i = j
      <3>1. \A i \in 1 .. n + 1 : i \in 1 .. n \/ i = n + 1
        BY <2>3
      <3>2. \A i \in 1 .. n : subscriptions[i] # s
        BY <2>1, <2>4 DEF ToSet
      <3>3. \A i, j \in 1 .. n : subscriptions[i] = subscriptions[j] => i = j
        BY <1>1, <2>4 DEF RequestsAgree
      <3> QED
        BY <2>3, <2>4, <3>1, <3>2, <3>3
    <2>6. CASE link = "down"
      <3>1. toBroker' = toBroker
        BY <2>1, <2>6 DEF Send
      <3>2. \A x \in Sub : WillHave(x)' <=> WillHave(x)
        BY <2>1, <3>1 DEF WillHave
      <3> QED
        BY <1>1, <2>1, <2>3, <2>5, <2>6, <3>2 DEF RequestsAgree
    <2>7. CASE link # "down"
      <3>1. toBroker' = Append(toBroker, req)
        BY <2>1, <2>7 DEF Send
      <3>2. \A x \in Sub : WillHave(x)' <=> WillHave(x) \/ x = s
        BY <1>1, <2>1, <2>2, <3>1, WillHaveSent
      <3> QED
        BY <1>1, <1>2, <2>1, <2>3, <2>5, <3>2 DEF RequestsAgree
    <2> QED
      BY <2>6, <2>7
  <1>6. ASSUME NEW s \in Sub, Unsubscribe(s)
        PROVE  RequestsAgree'
    <2> DEFINE req == [t |-> "unsubscribe", s |-> s]
    <2>1. PICK i \in DOMAIN subscriptions :
            subscriptions[i] = s /\ subscriptions' = RemoveAt(subscriptions, i)
      BY <1>6 DEF Unsubscribe
    <2>2. Send(req) /\ UNCHANGED <<link, subs>> /\ visited' = visited \ {s}
      BY <1>6 DEF Unsubscribe
    <2>3. req \in ToBrokerMsg /\ req.t = "unsubscribe" /\ req.s = s
      BY DEF ToBrokerMsg
    <2> HIDE DEF req
    <2>4. /\ ToSet(subscriptions') = ToSet(subscriptions) \ {s}
          /\ \A k, j \in DOMAIN subscriptions' : subscriptions'[k] = subscriptions'[j] => k = j
      BY <1>1, <1>2, <2>1, RemoveFacts DEF RequestsAgree
    <2>5. CASE link = "down"
      <3>1. /\ toBroker' = toBroker /\ subs = {} /\ toBroker = <<>>
        BY <1>1, <2>2, <2>5 DEF Send, LinkAgrees
      <3>2. \A x \in Sub : ~WillHave(x)'
        BY <2>2, <3>1 DEF WillHave
      <3> QED
        BY <2>2, <2>4, <2>5, <3>2 DEF RequestsAgree
    <2>6. CASE link # "down"
      <3>1. toBroker' = Append(toBroker, req)
        BY <2>2, <2>6 DEF Send
      <3>2. \A x \in Sub : WillHave(x)' <=> WillHave(x) /\ x # s
        BY <1>1, <2>2, <2>3, <3>1, WillHaveSent
      <3> QED
        BY <1>1, <1>2, <2>2, <2>4, <3>2 DEF RequestsAgree
    <2> QED
      BY <2>5, <2>6
  <1>7. ASSUME Adopt \/ Open
        PROVE  RequestsAgree'
    <2>1. CASE Adopt
      <3>1. /\ link' = "replaying" /\ visited' = {}
            /\ UNCHANGED <<subs, toBroker, subscriptions>>
        BY <2>1 DEF Adopt
      <3>2. \A x \in Sub : WillHave(x)' <=> WillHave(x)
        BY <3>1 DEF WillHave
      <3> QED
        BY <1>1, <3>1, <3>2 DEF RequestsAgree
    <2>2. CASE Open
      <3> DEFINE req == [t |-> "hello", s |-> NoSub]
      <3>1. /\ link' = "hello" /\ UNCHANGED <<subs, subscriptions>>
            /\ toBroker' = Append(toBroker, req) /\ req \in ToBrokerMsg /\ req.t = "hello"
        BY <2>2 DEF Open, ToBrokerMsg
      <3> HIDE DEF req
      <3>2. \A x \in Sub : WillHave(x)' <=> WillHave(x)
        BY <1>1, <3>1, WillHaveSent
      <3> QED
        BY <1>1, <3>1, <3>2 DEF RequestsAgree
    <2> QED
      BY <1>7, <2>1, <2>2
  <1>8. ASSUME Replay
        PROVE  RequestsAgree'
    <2>1. link = "replaying" /\ UNCHANGED <<subs, subscriptions>>
      BY <1>8 DEF Replay
    <2>2. CASE Left = {} /\ link' = "up" /\ UNCHANGED <<toBroker, visited, awaited>>
      <3>1. \A x \in Sub : WillHave(x)' <=> WillHave(x)
        BY <2>1, <2>2 DEF WillHave
      <3>2. \A x \in ToSet(subscriptions) : x \in visited
        BY <2>2 DEF Left
      <3> QED
        BY <1>1, <1>2, <2>1, <2>2, <3>1, <3>2 DEF RequestsAgree
    <2>3. ASSUME NEW i \in DOMAIN subscriptions, NEW b,
                 visited' = visited \cup {subscriptions[i]}, link' = link,
                 Send([t |-> "subscribe", s |-> subscriptions[i], by |-> "replay",
                       since |-> offsets[subscriptions[i]], replay |-> b]),
                 b \in BOOLEAN
          PROVE  RequestsAgree'
      <3> DEFINE s == subscriptions[i]
                 req == [t |-> "subscribe", s |-> s, by |-> "replay", since |-> offsets[s],
                         replay |-> b]
      <3>1. s \in Sub /\ s \in ToSet(subscriptions)
        BY <1>2 DEF ToSet
      <3>2. offsets[s] \in Mark
        BY <1>1, <3>1 DEF TypeOK
      <3>3. req \in ToBrokerMsg /\ req.t = "subscribe" /\ req.s = s
        <4> HIDE DEF s
        <4> QED
          BY <2>3, <3>1, <3>2 DEF ToBrokerMsg
      <3>4. toBroker' = Append(toBroker, req)
        BY <2>1, <2>3 DEF Send
      <3> HIDE DEF req
      <3>5. \A x \in Sub : WillHave(x)' <=> WillHave(x) \/ x = s
        BY <1>1, <2>1, <3>3, <3>4, WillHaveSent
      <3> QED
        BY <1>1, <1>2, <2>1, <2>3, <3>1, <3>5 DEF RequestsAgree
    <2>4. \A i \in DOMAIN subscriptions :
            (offsets[subscriptions[i]] = Unset /\ subscriptions[i] \in replayOpts) \in BOOLEAN
      OBVIOUS
    <2> QED
      BY <1>8, <2>2, <2>3, <2>4 DEF Replay
  <1>9. ASSUME Break \/ Restart
        PROVE  RequestsAgree'
    <2>1. /\ link' = "down" /\ toBroker' = <<>> /\ subs' = {} /\ UNCHANGED subscriptions
      BY <1>9 DEF Break, Restart, LinkDown
    <2>2. \A x \in Sub : ~WillHave(x)'
      BY <2>1 DEF WillHave
    <2> QED
      BY <1>1, <2>1, <2>2 DEF RequestsAgree
  <1> QED
    BY <1>3, <1>4, <1>5, <1>6, <1>7, <1>8, <1>9 DEF Next

-----------------------------------------------------------------------------
(* Offsets.                                                                *)

\* What is held shrinks with the record, and what is current when besides nothing else
\* comes under way.
LEMMA CurrentShrinks ==
    ASSUME \A ch \in Channel : Logged(ch)' \subseteq Logged(ch),
           \A m \in ToSet(toClient') : m.t = "message" => m \in Current
    PROVE  Current' \subseteq Current
  <1>1. \A f : f \in Held' => f \in Held
    <2> TAKE f
    <2> HAVE f \in Held'
    <2>1. \E ch \in Channel : \E m \in Logged(ch)' : f = Frame(ch, m)
      BY DEF Held, Frame
    <2> QED
      BY <2>1, HeldFacts
  <1> QED
    BY <1>1 DEF Current

LEMMA LoggedSame ==
    ASSUME UNCHANGED <<ring, trimmed>>, NEW ch
    PROVE  Logged(ch)' = Logged(ch)
  BY DEF Logged

\* Retention that runs out and a compaction leave less on record.
LEMMA LoggedShrinks ==
    ASSUME TypeOK, Compact \/ \E ch \in Channel : Prune(ch)
    PROVE  \A c \in Channel : /\ Logged(c)' \subseteq Logged(c)
                              /\ ToSet(ring'[c]) \subseteq ToSet(ring[c])
  <1>1. ring \in [Channel -> Seq(Message)] /\ trimmed \in [Channel -> Seq(Message)]
        /\ ToSet(<<>>) = {}
    BY DEF TypeOK, ToSet
  <1>2. CASE Compact
    <2>1. ring' = ring /\ trimmed' = [ch \in Channel |-> <<>>]
      BY <1>2 DEF Compact
    <2> QED
      BY <1>1, <2>1 DEF Logged
  <1>3. ASSUME NEW ch \in Channel, Prune(ch)
        PROVE  \A c \in Channel : /\ ToSet(trimmed'[c]) \subseteq ToSet(trimmed[c])
                                  /\ ToSet(ring'[c]) \subseteq ToSet(ring[c])
    <2>1. /\ ring[ch] \in Seq(Message) /\ ring[ch] # <<>> /\ ring' = [ring EXCEPT ![ch] = Tail(@)]
          /\ trimmed' = [trimmed EXCEPT ![ch] = <<>>]
      BY <1>1, <1>3 DEF Prune
    <2>2. ToSet(Tail(ring[ch])) \subseteq ToSet(ring[ch])
      BY <2>1, TailFacts
    <2> QED
      BY <1>1, <2>1, <2>2
  <1>4. ASSUME NEW ch \in Channel, Prune(ch)
        PROVE  \A c \in Channel : /\ Logged(c)' \subseteq Logged(c)
                                  /\ ToSet(ring'[c]) \subseteq ToSet(ring[c])
    BY <1>3, <1>4 DEF Logged
  <1> QED
    BY <1>2, <1>4

LEMMA AdoptedSame ==
    ASSUME UNCHANGED <<seenEpoch, epoch, offsets, offsetBase>>
    PROVE  Adopted' = Adopted
  BY DEF Adopted

LEMMA OffsetsKept ==
    ASSUME OffsetsAgree, nextOffset' <= reserved', published' = published,
           \A ch \in Channel : Logged(ch)' \subseteq Logged(ch),
           Current' \subseteq Current,
           nextOffset \in Nat, nextOffset' \in Nat,
           nextOffset <= nextOffset' \/ Current' = {},
           \A m \in ToSet(toClient') \cup resumes' : m.t = "ok" =>
               m.offset \in Nat /\ m.offset <= nextOffset',
           \A s \in Sub : Adopted'[s] <= nextOffset'
    PROVE  OffsetsAgree'
  <1>1. RingsAgree'
    BY DEF OffsetsAgree, RingsAgree
  <1>2. \A m \in Current' : m.offset \in 1 .. nextOffset' /\ m.id \in 1 .. published'
    BY DEF OffsetsAgree
  <1>3. \A l, m \in Current' : l.offset < m.offset => l.id < m.id
    BY DEF OffsetsAgree
  <1> QED
    BY <1>1, <1>2, <1>3 DEF OffsetsAgree

\* What the answers to SUBSCRIBE carry.
LEMMA AnswersTyped ==
    ASSUME TypeOK
    PROVE  \A m \in ToSet(toClient) \cup resumes : m.t = "ok" =>
               m.s \in Sub /\ m.offset \in Nat /\ m.from \in Nat
  <1>1. ToSet(toClient) \subseteq ToClientMsg /\ resumes \subseteq Answer
    BY MembersFacts DEF TypeOK
  <1>2. \A m \in ToSet(toClient) : m.t = "ok" => m.s \in Sub /\ m.offset \in Nat /\ m.from \in Nat
    BY <1>1, ToClientFacts
  <1>3. \A m \in resumes : m.s \in Sub /\ m.offset \in Nat /\ m.from \in Nat
    BY <1>1 DEF Answer
  <1> QED
    BY <1>2, <1>3

\* A message that is published is the newest and has the highest offset.
LEMMA PublishCurrent ==
    ASSUME IInv, NEW ch \in Channel, NEW safe \in BOOLEAN, Publish(ch, safe)
    PROVE  LET m == [offset |-> nextOffset + 1, id |-> published + 1, safe |-> safe]
           IN  /\ Current' \subseteq Current \cup {Frame(ch, m)}
               /\ \A c \in Channel :
                    \A l \in Logged(c)' : l \in Logged(c) \/ (c = ch /\ l = m)
               /\ \A l \in ToSet(toClient') : l \in ToSet(toClient) \/ l = Frame(ch, m)
  <1> DEFINE m == [offset |-> nextOffset + 1, id |-> published + 1, safe |-> safe]
  <1>1. /\ TypeOK /\ toClient \in Seq(ToClientMsg)
        /\ ring \in [Channel -> Seq(Message)] /\ trimmed \in [Channel -> Seq(Message)]
    BY DEF IInv, TypeOK
  <1>2. /\ m \in Message /\ ToSet(Retain(Append(ring[ch], m))) \subseteq ToSet(ring[ch]) \cup {m}
        /\ ToSet(trimmed[ch] \o Evicted(Append(ring[ch], m))) \subseteq Logged(ch) \cup {m}
    BY <1>1, MintFacts
  <1>3. /\ ring' = [ring EXCEPT ![ch] = Retain(Append(@, m))]
        /\ \/ trimmed' = [trimmed EXCEPT ![ch] = @ \o Evicted(Append(ring[ch], m))]
           \/ trimmed' = trimmed
    BY DEF Publish
  <1>4. toClient' = Append(toClient, Frame(ch, m)) \/ toClient' = toClient
    BY DEF Publish
  <1> HIDE DEF m
  <1>5. \A c \in Channel : \A l \in Logged(c)' : l \in Logged(c) \/ (c = ch /\ l = m)
    <2> TAKE c \in Channel
    <2> TAKE l \in Logged(c)'
    <2>1. l \in ToSet(trimmed'[c]) \/ l \in ToSet(ring'[c])
      BY DEF Logged
    <2>2. ToSet(trimmed[c]) \subseteq Logged(c) /\ ToSet(ring[c]) \subseteq Logged(c)
      BY DEF Logged
    <2>3. CASE l \in ToSet(ring'[c])
      BY <1>1, <1>2, <1>3, <2>2, <2>3
    <2>4. CASE l \in ToSet(trimmed'[c])
      BY <1>1, <1>2, <1>3, <2>2, <2>4
    <2> QED
      BY <2>1, <2>3, <2>4
  <1>6. \A l \in ToSet(toClient') : l \in ToSet(toClient) \/ l = Frame(ch, m)
    <2>1. Frame(ch, m) \in ToClientMsg
      BY <1>2, FrameFacts
    <2>2. ToSet(Append(toClient, Frame(ch, m))) = ToSet(toClient) \cup {Frame(ch, m)}
      BY <1>1, <2>1, AppendFacts
    <2> QED
      BY <1>4, <2>2
  <1>7. \A f \in Held' : f \in Held \/ f = Frame(ch, m)
    <2> TAKE f \in Held'
    <2>1. PICK c \in Channel : \E l \in Logged(c)' : f = Frame(c, l)
      BY DEF Held, Frame
    <2>2. PICK l \in Logged(c)' : f = Frame(c, l)
      BY <2>1
    <2> QED
      BY <1>5, <2>2, HeldFacts
  <1> QED
    BY <1>5, <1>6, <1>7 DEF m, Current

LEMMA PublishOffsets ==
    ASSUME IInv, NEW ch \in Channel, NEW safe \in BOOLEAN, Publish(ch, safe)
    PROVE  OffsetsAgree'
  <1> DEFINE m == [offset |-> nextOffset + 1, id |-> published + 1, safe |-> safe]
  <1>1. TypeOK /\ OffsetsAgree
    BY DEF IInv
  <1>2. /\ m \in Message /\ m.offset = nextOffset + 1 /\ m.id = published + 1
        /\ nextOffset \in Nat /\ published \in Nat /\ reserved \in Nat
    BY <1>1, MintFacts DEF TypeOK
  <1>3. /\ Current' \subseteq Current \cup {Frame(ch, m)}
        /\ \A c \in Channel :
             \A l \in Logged(c)' : l \in Logged(c) \/ (c = ch /\ l = m)
        /\ \A l \in ToSet(toClient') : l \in ToSet(toClient) \/ l = Frame(ch, m)
    BY PublishCurrent
  <1>4. /\ published' = published + 1 /\ nextOffset' = nextOffset + 1
        /\ reserved' = IF nextOffset + 1 > reserved THEN Ceiling(nextOffset + 1) ELSE reserved
        /\ UNCHANGED <<epoch, offsetBase, clientVars>>
    BY DEF Publish
  <1> HIDE DEF m
  <1>5. /\ Frame(ch, m).offset = nextOffset + 1 /\ Frame(ch, m).id = published + 1
        /\ Frame(ch, m).t = "message"
    BY <1>2, FrameFacts
  <1>6. \A l \in Current : l.offset \in 1 .. nextOffset /\ l.id \in 1 .. published
    BY <1>1 DEF OffsetsAgree
  <1>7. \A c \in Channel : \A l \in Logged(c) : l.offset \in 1 .. nextOffset
    <2> TAKE c \in Channel
    <2> TAKE l \in Logged(c)
    <2>1. l \in Message
      BY <1>1, LoggedFacts
    <2>2. Frame(c, l) \in Current /\ Frame(c, l).offset = l.offset
      BY <2>1, HeldFacts, FrameFacts DEF Current
    <2> QED
      BY <1>6, <2>2
  <1>8. RingsAgree'
    <2>1. \A c \in Channel : \A l \in Logged(c) : l.offset # m.offset
      BY <1>2, <1>7
    <2> QED
      BY <1>1, <1>3, <2>1 DEF OffsetsAgree, RingsAgree
  <1>9. \A l \in Current' : l.offset \in 1 .. nextOffset' /\ l.id \in 1 .. published'
    BY <1>2, <1>3, <1>4, <1>5, <1>6
  <1>10. \A k, l \in Current' : k.offset < l.offset => k.id < l.id
    <2> TAKE k, l \in Current'
    <2> HAVE k.offset < l.offset
    <2>1. k \in Current
      BY <1>2, <1>3, <1>4, <1>5, <1>9
    <2>2. CASE l \in Current
      BY <1>1, <2>1, <2>2 DEF OffsetsAgree
    <2>3. CASE l = Frame(ch, m)
      BY <1>2, <1>5, <1>6, <2>1, <2>3
    <2> QED
      BY <1>3, <2>2, <2>3
  <1>11. nextOffset' <= reserved'
    <2>1. nextOffset + 1 \in Nat /\ Ceiling(nextOffset + 1) \in Nat
          /\ nextOffset + 1 < Ceiling(nextOffset + 1)
      BY <1>2, CeilingFacts
    <2> QED
      BY <1>2, <1>4, <2>1
  <1>12. \A l \in ToSet(toClient') \cup resumes' : l.t = "ok" => l.offset <= nextOffset'
    <2>1. resumes' = resumes
      BY <1>4 DEF clientVars
    <2>2. \A l \in ToSet(toClient) \cup resumes : l.t = "ok" =>
            l.offset \in Nat /\ l.offset <= nextOffset
      BY <1>1, AnswersTyped DEF OffsetsAgree
    <2> QED
      BY <1>2, <1>3, <1>4, <1>5, <2>1, <2>2
  <1>13. \A s \in Sub : Adopted'[s] <= nextOffset'
    <2>1. Adopted' = Adopted
      BY <1>4, AdoptedSame DEF clientVars
    <2>2. \A s \in Sub : Adopted[s] \in Mark /\ Adopted[s] <= nextOffset
      BY <1>1, AdoptedFacts DEF OffsetsAgree
    <2> QED
      BY <1>2, <1>4, <2>1, <2>2 DEF Mark, Unset
  <1> QED
    BY <1>8, <1>9, <1>10, <1>11, <1>12, <1>13 DEF OffsetsAgree

\* The messages that come under way when the broker serves a request.
LEMMA ServedFacts ==
    ASSUME IInv, BrokerReceives
    PROVE  \A m \in ToSet(toClient') :
               \/ m \in ToSet(toClient)
               \/ m \in Held /\ m.t = "message"
               \/ m.t = "ok" /\ m.offset = nextOffset
               \/ m.t \in {"gone", "welcome"}
  <1> DEFINE req == Head(toBroker)
             ok  == [t |-> "ok", s |-> req.s, by |-> req.by, offset |-> nextOffset,
                     from |-> published]
             gone == [t |-> "gone", s |-> req.s]
             welcome == [t |-> "welcome", s |-> NoSub]
  <1>1. TypeOK /\ OffsetsAgree /\ toClient \in Seq(ToClientMsg)
    BY DEF IInv, TypeOK
  <1>2. Subscribed(req) \/ Unsubscribed(req) \/ Greeted
    BY DEF BrokerReceives
  <1>3. ok.t = "ok" /\ ok.offset = nextOffset /\ gone.t = "gone" /\ welcome.t = "welcome"
    OBVIOUS
  <1>4. CASE Subscribed(req)
    <2>1. toClient' = toClient \o Backlog(req) \o <<ok>>
      BY <1>4, Zenon DEF Subscribed
    <2> HIDE DEF ok, gone, welcome, req
    <2>2. Backlog(req) \in Seq(ToClientMsg) /\ ToSet(Backlog(req)) \subseteq Held
          /\ \A m \in ToSet(Backlog(req)) : m.t = "message"
      BY <1>1, BacklogFacts
    <2> DEFINE T == ToClientMsg \cup {ok}
    <2>3. Backlog(req) \in Seq(T) /\ toClient \in Seq(T) /\ <<ok>> \in Seq(T)
      <3>1. ToClientMsg \subseteq T /\ ok \in T
        OBVIOUS
      <3> HIDE DEF T
      <3>2. <<ok>> \in Seq(T)
        BY <3>1
      <3> QED
        BY <1>1, <2>2, <3>1, <3>2, SeqMonotonic
    <2> HIDE DEF T
    <2>4. /\ toClient \o Backlog(req) \in Seq(T)
          /\ ToSet(toClient \o Backlog(req)) \subseteq ToSet(toClient) \cup ToSet(Backlog(req))
      BY <2>3, ConcatFacts
    <2>5. ToSet(toClient \o Backlog(req) \o <<ok>>)
            \subseteq ToSet(toClient \o Backlog(req)) \cup ToSet(<<ok>>)
      BY <2>3, <2>4, ConcatFacts
    <2>6. ToSet(<<ok>>) = {ok}
      BY DEF ToSet
    <2> QED
      BY <1>3, <2>1, <2>2, <2>4, <2>5, <2>6
  <1>5. ASSUME NEW a, toClient' = Append(toClient, a)
        PROVE  \A m \in ToSet(toClient') : m \in ToSet(toClient) \/ m = a
    <2> DEFINE T == ToClientMsg \cup {a}
    <2>1. toClient \in Seq(T) /\ a \in T
      <3>1. ToClientMsg \subseteq T /\ a \in T
        OBVIOUS
      <3> HIDE DEF T
      <3> QED
        BY <1>1, <3>1, SeqMonotonic
    <2> HIDE DEF T
    <2>2. ToSet(toClient') = ToSet(toClient) \cup {a}
      BY <1>5, <2>1, AppendFacts
    <2> QED
      BY <2>2
  <1>6. CASE Unsubscribed(req)
    <2>1. toClient' = Append(toClient, gone)
      BY <1>6, Zenon DEF Unsubscribed
    <2> HIDE DEF gone, ok, welcome, req
    <2> QED
      BY <1>3, <1>5, <2>1
  <1>7. CASE Greeted
    <2>1. toClient' = Append(toClient, welcome)
      BY <1>7, Zenon DEF Greeted
    <2> HIDE DEF gone, ok, welcome, req
    <2> QED
      BY <1>3, <1>5, <2>1
  <1> QED
    BY <1>2, <1>4, <1>6, <1>7

\* What the client receives was on its way, and no watermark that stays is lowered.
LEMMA ReceivedFacts ==
    ASSUME IInv, ClientReceives
    PROVE  /\ ToSet(toClient') \subseteq ToSet(toClient)
           /\ Head(toClient) \in ToSet(toClient) /\ Head(toClient) \in ToClientMsg
           /\ link # "down"
           /\ \A s \in Sub : /\ Adopted'[s] \in Mark /\ Adopted'[s] <= offsets'[s]
                             /\ offsets'[s] = offsets[s] => Adopted'[s] = Adopted[s]
                             /\ seenEpoch \in {Unset, epoch} =>
                                  Adopted[s] = offsets[s] /\ Adopted'[s] = offsets'[s]
  <1>1. /\ TypeOK /\ LinkAgrees /\ toClient # <<>> /\ toClient' = Tail(toClient)
        /\ toClient \in Seq(ToClientMsg)
    BY DEF IInv, ClientReceives, TypeOK
  <1>2. link # "down" /\ UNCHANGED <<seenEpoch, epoch, offsetBase>>
    BY <1>1 DEF LinkAgrees, ClientReceives, brokerVars
  <1>3. offsetBase \in Nat /\ offsets' \in [Sub -> Mark]
    BY <1>1, ClientReceivesTypes DEF TypeOK
  <1>4. ASSUME NEW s \in Sub
        PROVE  /\ Adopted'[s] \in Mark /\ Adopted'[s] <= offsets'[s]
               /\ offsets'[s] = offsets[s] => Adopted'[s] = Adopted[s]
               /\ seenEpoch \in {Unset, epoch} =>
                    Adopted[s] = offsets[s] /\ Adopted'[s] = offsets'[s]
    <2>1. /\ Adopted[s] = IF seenEpoch \notin {Unset, epoch} /\ offsets[s] > offsetBase
                          THEN offsetBase ELSE offsets[s]
          /\ Adopted'[s] = IF seenEpoch \notin {Unset, epoch} /\ offsets'[s] > offsetBase
                           THEN offsetBase ELSE offsets'[s]
      BY <1>2 DEF Adopted
    <2>2. offsets'[s] \in Mark
      BY <1>3
    <2> QED
      BY <1>3, <2>1, <2>2 DEF Mark, Unset
  <1> QED
    BY <1>1, <1>2, <1>4, TailFacts

LEMMA OffsetsNext ==
    ASSUME IInv, Next
    PROVE  OffsetsAgree'
  <1>1. TypeOK /\ LinkAgrees /\ HandshakeAgrees /\ OffsetsAgree /\ TypeOK'
    BY NextTypes DEF IInv
  <1>2. nextOffset \in Nat /\ nextOffset' \in Nat /\ nextOffset <= reserved
    BY <1>1 DEF TypeOK, OffsetsAgree
  <1>3. \A m \in ToSet(toClient) \cup resumes : m.t = "ok" =>
          m.s \in Sub /\ m.offset \in Nat /\ m.offset <= nextOffset
    BY <1>1, AnswersTyped DEF OffsetsAgree
  <1>4. \A s \in Sub : Adopted[s] \in Mark /\ Adopted[s] <= nextOffset
    BY <1>1, AdoptedFacts DEF OffsetsAgree
  <1>5. \A m \in ToSet(toClient) : m.t = "message" => m \in Current
    BY DEF Current
  \* Steps at the client and on its link: the broker keeps what it has.
  <1>6. ASSUME UNCHANGED <<nextOffset, reserved, published, ring, trimmed, trimmed>>,
               \A m \in ToSet(toClient') : m.t = "message" => m \in Current,
               \A m \in ToSet(toClient') \cup resumes' : m.t = "ok" =>
                   m \in ToSet(toClient) \cup resumes \/ m.offset = nextOffset,
               \A s \in Sub : Adopted'[s] <= nextOffset
        PROVE  OffsetsAgree'
    <2>1. Current' \subseteq Current
      BY <1>6, LoggedSame, CurrentShrinks
    <2>2. \A m \in ToSet(toClient') \cup resumes' : m.t = "ok" =>
            m.offset \in Nat /\ m.offset <= nextOffset'
      BY <1>2, <1>3, <1>6
    <2> QED
      BY <1>1, <1>2, <1>6, <2>1, <2>2, LoggedSame, OffsetsKept
  <1>7. ASSUME Compact \/ \E ch \in Channel : Prune(ch)
        PROVE  OffsetsAgree'
    <2>1. \A c \in Channel : Logged(c)' \subseteq Logged(c)
      BY <1>1, <1>7, LoggedShrinks
    <2>2. UNCHANGED <<nextOffset, reserved, published, toClient, resumes>> /\ Adopted' = Adopted
      BY <1>7, AdoptedSame DEF Prune, Compact, clientVars
    <2>3. Current' \subseteq Current
      BY <1>5, <2>1, <2>2, CurrentShrinks
    <2> QED
      BY <1>1, <1>2, <1>3, <1>4, <2>1, <2>2, <2>3, OffsetsKept
  <1>8. ASSUME BrokerReceives
        PROVE  OffsetsAgree'
    <2>1. UNCHANGED <<nextOffset, reserved, published, ring, trimmed,
                      resumes>> /\ Adopted' = Adopted
      BY <1>8, AdoptedSame DEF BrokerReceives, brokerVars, clientVars
    <2>2. \A m \in ToSet(toClient') :
            \/ m \in ToSet(toClient)
            \/ m \in Held /\ m.t = "message"
            \/ m.t = "ok" /\ m.offset = nextOffset
            \/ m.t \in {"gone", "welcome"}
      BY <1>8, ServedFacts
    <2>3. \A m \in ToSet(toClient') : m.t = "message" => m \in Current
      BY <2>2 DEF Current
    <2>4. \A m \in ToSet(toClient') \cup resumes' : m.t = "ok" =>
            m \in ToSet(toClient) \cup resumes \/ m.offset = nextOffset
      BY <2>1, <2>2
    <2> QED
      BY <1>4, <1>6, <2>1, <2>3, <2>4
  <1>9. ASSUME ClientReceives
        PROVE  OffsetsAgree'
    <2> DEFINE m == Head(toClient)
    <2>1. UNCHANGED <<nextOffset, reserved, published, ring, trimmed>>
      BY <1>9 DEF ClientReceives, brokerVars
    <2>2. /\ ToSet(toClient') \subseteq ToSet(toClient) /\ m \in ToSet(toClient)
          /\ \A s \in Sub : /\ Adopted'[s] \in Mark /\ Adopted'[s] <= offsets'[s]
                            /\ offsets'[s] = offsets[s] => Adopted'[s] = Adopted[s]
      BY <1>9, ReceivedFacts
    <2>3. resumes' = resumes \/ resumes' = resumes \cup {m}
      BY <1>9 DEF ClientReceives, Deliver
    <2>4. \A s \in Sub : offsets'[s] = offsets[s] \/ (m.t = "message" /\ offsets'[s] = m.offset)
      BY <1>9 DEF ClientReceives, Deliver
    <2> HIDE DEF m
    <2>5. m.t = "message" => m.offset <= nextOffset
      BY <1>1, <1>2, <1>5, <2>2 DEF OffsetsAgree
    <2>6. \A s \in Sub : Adopted'[s] <= nextOffset
      <3> TAKE s \in Sub
      <3>1. CASE offsets'[s] = offsets[s]
        BY <1>4, <2>2, <3>1
      <3>2. CASE m.t = "message" /\ offsets'[s] = m.offset
        <4>1. Adopted'[s] \in Mark /\ offsets'[s] \in Mark
          BY <1>1, <2>2 DEF TypeOK
        <4> QED
          BY <1>2, <2>2, <2>5, <3>2, <4>1 DEF Mark, Unset
      <3> QED
        BY <2>4, <3>1, <3>2
    <2> QED
      BY <1>5, <1>6, <2>1, <2>2, <2>3, <2>6
  <1>10. ASSUME NEW r \in resumes, Resume(r)
         PROVE  OffsetsAgree'
    <2>1. UNCHANGED <<nextOffset, reserved, published, ring, trimmed, toClient, seenEpoch, epoch>>
          /\ resumes' = resumes \ {r}
      BY <1>10 DEF Resume, brokerVars
    <2>2. seenEpoch = epoch
      BY <1>1, <1>10 DEF LinkAgrees, HandshakeAgrees, Resume, TypeOK
    <2>3. r.t = "ok" /\ r.offset <= nextOffset
      BY <1>1, <1>3, <1>10 DEF TypeOK, Answer
    <2>4. \A s \in Sub : offsets'[s] = offsets[s] \/ offsets'[s] = r.offset
      BY <1>1, <1>10 DEF Resume, Baseline, TypeOK
    <2>5. \A s \in Sub : Adopted[s] = offsets[s] /\ Adopted'[s] = offsets'[s]
      BY <2>1, <2>2 DEF Adopted
    <2>6. \A s \in Sub : Adopted'[s] <= nextOffset
      BY <1>4, <2>3, <2>4, <2>5
    <2> QED
      BY <1>5, <1>6, <2>1, <2>6
  <1>11. ASSUME \/ \E s \in Sub : \E replay \in BOOLEAN : Subscribe(s, replay)
                \/ Open \/ Replay
         PROVE  OffsetsAgree'
    <2>1. UNCHANGED <<nextOffset, reserved, published, ring, trimmed, toClient, resumes,
                      seenEpoch, epoch, offsets, offsetBase>>
      BY <1>11 DEF Subscribe, Open, Replay, brokerVars
    <2>2. Adopted' = Adopted
      BY <2>1, AdoptedSame
    <2> QED
      BY <1>4, <1>5, <1>6, <2>1, <2>2
  <1>12. ASSUME NEW s \in Sub, Unsubscribe(s)
         PROVE  OffsetsAgree'
    <2>1. UNCHANGED <<nextOffset, reserved, published, ring, trimmed, toClient, resumes,
                      seenEpoch, epoch, offsetBase>> /\ offsets' = [offsets EXCEPT ![s] = Unset]
      BY <1>12 DEF Unsubscribe, brokerVars
    <2>2. offsetBase \in Nat /\ offsets \in [Sub -> Mark]
      BY <1>1 DEF TypeOK
    <2>3. \A x \in Sub : Adopted'[x] = Adopted[x] \/ Adopted'[x] = Unset
      BY <2>1, <2>2 DEF Adopted, Unset
    <2>4. \A x \in Sub : Adopted'[x] <= nextOffset
      BY <1>2, <1>4, <2>3 DEF Unset
    <2> QED
      BY <1>5, <1>6, <2>1, <2>4
  <1>13. ASSUME Adopt
         PROVE  OffsetsAgree'
    <2>1. /\ UNCHANGED <<nextOffset, reserved, published, ring, trimmed, toClient, resumes, epoch>>
          /\ seenEpoch' = epoch /\ offsets' = Adopted
      BY <1>13 DEF Adopt, brokerVars
    <2>2. \A s \in Sub : Adopted'[s] = Adopted[s]
      BY <2>1 DEF Adopted
    <2> QED
      BY <1>4, <1>5, <1>6, <2>1, <2>2
  <1>14. ASSUME Break
         PROVE  OffsetsAgree'
    <2>1. /\ UNCHANGED <<nextOffset, reserved, published, ring, trimmed, resumes, seenEpoch,
                         epoch, offsets, offsetBase>> /\ toClient' = <<>>
      BY <1>14 DEF Break, LinkDown, brokerVars
    <2>2. Adopted' = Adopted /\ ToSet(toClient') = {}
      BY <2>1, AdoptedSame DEF ToSet
    <2> QED
      BY <1>4, <1>6, <2>1, <2>2
  <1>15. ASSUME Restart
         PROVE  OffsetsAgree'
    <2>1. /\ \A ch \in Channel : Logged(ch)' \subseteq Logged(ch)
          /\ nextOffset' <= reserved' /\ offsetBase' = nextOffset' /\ epoch' = epoch + 1
          /\ \/ nextOffset <= nextOffset'
             \/ \A ch \in Channel : Logged(ch)' = {}
      BY <1>1, <1>15, RestartFacts
    <2>2. /\ toClient' = <<>> /\ resumes' = {} /\ link # "welcome"
          /\ UNCHANGED <<seenEpoch, offsets, published>>
      BY <1>15 DEF Restart, LinkDown
    <2>3. ToSet(toClient') = {}
      BY <2>2 DEF ToSet
    <2>4. Current' \subseteq Current
      BY <2>1, <2>3, CurrentShrinks
    <2>5. (\A ch \in Channel : Logged(ch)' = {}) => Current' = {}
      BY <2>3 DEF Current, Held
    <2>6. \A s \in Sub : Adopted'[s] <= nextOffset'
      <3> TAKE s \in Sub
      <3>1. Adopted'[s] = IF seenEpoch \notin {Unset, epoch + 1} /\ offsets[s] > nextOffset'
                          THEN nextOffset' ELSE offsets[s]
        BY <2>1, <2>2 DEF Adopted
      <3>2. epoch \in Nat /\ seenEpoch \in Mark /\ seenEpoch <= epoch /\ offsets[s] \in Mark
            /\ (seenEpoch = Unset => offsets[s] = Unset)
        BY <1>1, <2>2 DEF TypeOK, LinkAgrees
      <3>3. seenEpoch # epoch + 1
        BY <3>2 DEF Mark, Unset
      <3>4. CASE seenEpoch = Unset
        BY <1>2, <3>1, <3>2, <3>4 DEF Unset
      <3>5. CASE seenEpoch # Unset
        BY <1>2, <3>1, <3>2, <3>3, <3>5 DEF Mark, Unset
      <3> QED
        BY <3>4, <3>5
    <2> QED
      BY <1>1, <1>2, <2>1, <2>2, <2>3, <2>4, <2>5, <2>6, OffsetsKept
  <1> QED
    BY <1>7, <1>8, <1>9, <1>10, <1>11, <1>12, <1>13, <1>14, <1>15, PublishOffsets DEF Next

-----------------------------------------------------------------------------
(* The order of delivery.                                                  *)

\* Every step but a delivery: what a watermark does not cover was not covered before, or
\* has just been published.
LEMMA OrderKept ==
    ASSUME WatermarksAgree, InOrderOnce, TypeOK, TypeOK', OffsetsAgree',
           published <= published',
           \A s \in Sub : delivered'[s] = delivered[s] \/ delivered'[s] = <<>>,
           \A s \in Sub \ early' : s \notin early \/ delivered'[s] = <<>>,
           \A s \in ToSet(subscriptions') :
               s \in ToSet(subscriptions) \/ delivered'[s] = <<>>,
           \A s \in Sub : \A m \in Current' : m.offset > Adopted'[s] =>
               \/ s \notin ToSet(subscriptions')
               \/ m \in Current /\ m.offset > Adopted[s]
               \/ m.id > published
    PROVE  WatermarksAgree' /\ InOrderOnce'
  <1>1. DOMAIN <<>> = {}
    OBVIOUS
  <1>2. \A s \in Sub \ early' : \A i \in DOMAIN delivered'[s] :
          delivered'[s] = delivered[s] /\ i \in DOMAIN delivered[s] /\ s \notin early
    BY <1>1
  <1>3. \A s \in Sub : \A i \in DOMAIN delivered[s] : delivered[s][i] \in Nat
    <2>1. \A s \in Sub : delivered[s] \in Seq(Nat)
      BY DEF TypeOK
    <2> QED
      BY <2>1, LenProperties
  <1>4. published \in Nat /\ published' \in Nat /\ \A m \in Current' : m.id \in Nat
    <2>1. published \in Nat /\ published' \in Nat
      BY DEF TypeOK
    <2>2. \A m \in Current' : m.id \in 1 .. published'
      BY DEF OffsetsAgree
    <2> QED
      BY <2>1, <2>2
  <1>5. InOrderOnce'
    BY <1>2 DEF InOrderOnce
  <1>6. ASSUME NEW s \in Sub \ early', NEW i \in DOMAIN delivered'[s]
        PROVE  /\ delivered'[s][i] <= published'
               /\ s \in ToSet(subscriptions') =>
                    \A m \in Current' : m.offset > Adopted'[s] => delivered'[s][i] < m.id
    <2>1. /\ delivered'[s][i] = delivered[s][i] /\ i \in DOMAIN delivered[s]
          /\ delivered'[s] # <<>> /\ s \notin early
      BY <1>1, <1>2
    <2>2. delivered[s][i] \in Nat /\ delivered[s][i] <= published
      BY <1>3, <2>1 DEF WatermarksAgree
    <2>3. ASSUME s \in ToSet(subscriptions'), NEW m \in Current', m.offset > Adopted'[s]
          PROVE  delivered[s][i] < m.id
      <3>1. s \in ToSet(subscriptions)
        BY <2>1, <2>3
      <3>2. CASE m \in Current /\ m.offset > Adopted[s]
        BY <2>1, <3>1, <3>2 DEF WatermarksAgree
      <3>3. CASE m.id > published
        BY <1>4, <2>2, <3>3
      <3> QED
        BY <2>3, <3>2, <3>3
    <2> QED
      BY <1>4, <2>1, <2>2, <2>3
  <1>7. WatermarksAgree'
    BY <1>6 DEF WatermarksAgree
  <1> QED
    BY <1>5, <1>7

\* A delivery: the message is later than what the handlers that get it were given, and
\* covered by their watermarks from then on.
LEMMA DeliverOrder ==
    ASSUME IInv, ClientReceives
    PROVE  WatermarksAgree' /\ InOrderOnce'
  <1> DEFINE m == Head(toClient)
             takers == {s \in ToSet(subscriptions) : m.ch \in MatchedBy(s) /\ Fresh(s, m)}
  <1>1. /\ TypeOK /\ TypeOK' /\ OffsetsAgree /\ OffsetsAgree' /\ WatermarksAgree /\ InOrderOnce
        /\ UNCHANGED <<ring, trimmed, published, subscriptions>>
    <2>1. Next
      BY DEF Next
    <2> QED
      BY <2>1, NextTypes, OffsetsNext DEF IInv, ClientReceives, brokerVars
  <1>2. /\ ToSet(toClient') \subseteq ToSet(toClient) /\ m \in ToSet(toClient)
        /\ m \in ToClientMsg
        /\ \A s \in Sub : /\ offsets'[s] = offsets[s] => Adopted'[s] = Adopted[s]
                          /\ seenEpoch \in {Unset, epoch} =>
                               Adopted[s] = offsets[s] /\ Adopted'[s] = offsets'[s]
    BY ReceivedFacts
  <1>3. Current' \subseteq Current
    <2>1. \A l \in ToSet(toClient') : l.t = "message" => l \in Current
      BY <1>2 DEF Current
    <2> QED
      BY <1>1, <2>1, LoggedSame, CurrentShrinks
  <1>4. CASE UNCHANGED <<delivered, offsets, early>>
    <2>1. published \in Nat /\ ToSet(subscriptions) \subseteq Sub
      BY <1>1, MembersFacts DEF TypeOK
    <2>2. published <= published' /\ subscriptions' = subscriptions
      BY <1>1, <2>1
    <2>3. \A s \in Sub : delivered'[s] = delivered[s] /\ Adopted'[s] = Adopted[s]
      BY <1>2, <1>4
    <2> HIDE DEF m, takers
    <2> QED
      BY <1>1, <1>3, <1>4, <2>2, <2>3, OrderKept
  <1>5. CASE m.t = "message" /\ Deliver(m)
    <2>1. /\ delivered' = [s \in Sub |->
                IF s \in takers THEN Append(delivered[s], m.id) ELSE delivered[s]]
          /\ offsets' = [s \in Sub |->
                IF s \in takers /\ m.offset > offsets[s] THEN m.offset ELSE offsets[s]]
          /\ early' = IF seenEpoch \in {Unset, epoch} THEN early ELSE early \cup takers
      BY <1>5, Zenon DEF Deliver
    <2>2. m \in Current /\ m.offset \in Nat \ {0} /\ m.id \in Nat /\ m.id <= published
      <3>1. m \in Current
        BY <1>2, <1>5 DEF Current
      <3> HIDE DEF m
      <3>2. m.offset \in 1 .. nextOffset /\ m.id \in 1 .. published
        BY <1>1, <3>1 DEF OffsetsAgree
      <3>3. nextOffset \in Nat /\ published \in Nat
        BY <1>1 DEF TypeOK
      <3> QED
        BY <3>1, <3>2, <3>3
    <2>3. \A s \in takers : s \in ToSet(subscriptions) /\ m.offset > offsets[s]
      BY <2>2 DEF Fresh, Unset
    <2>4. \A l \in Current' : /\ l \in Current /\ l.offset \in Nat /\ l.id \in Nat
                              /\ m.offset < l.offset => m.id < l.id
      BY <1>1, <1>3, <2>2, CurrentFacts DEF OffsetsAgree
    <2> HIDE DEF m, takers
    <2>5. ASSUME NEW s \in Sub \ early'
          PROVE  /\ \A i, j \in DOMAIN delivered'[s] :
                      i < j => delivered'[s][i] < delivered'[s][j]
                 /\ \A i \in DOMAIN delivered'[s] :
                      /\ delivered'[s][i] <= published
                      /\ s \in ToSet(subscriptions) =>
                           \A l \in Current' : l.offset > Adopted'[s] => delivered'[s][i] < l.id
      <3> DEFINE q == delivered[s]
                 n == Len(q)
      <3>1. /\ q \in Seq(Nat) /\ n \in Nat /\ DOMAIN q = 1 .. n
            /\ \A i \in 1 .. n : q[i] \in Nat /\ q[i] <= published
            /\ \A i, j \in 1 .. n : i < j => q[i] < q[j]
            /\ s \in ToSet(subscriptions) =>
                 \A i \in 1 .. n : \A l \in Current : l.offset > Adopted[s] => q[i] < l.id
            /\ s \notin early
        <4>1. q \in Seq(Nat)
          BY <1>1 DEF TypeOK
        <4>2. n \in Nat /\ DOMAIN q = 1 .. n /\ \A i \in 1 .. n : q[i] \in Nat
          BY <4>1, LenProperties
        <4>3. s \notin early
          BY <2>1
        <4> QED
          BY <1>1, <4>1, <4>2, <4>3 DEF WatermarksAgree, InOrderOnce
      <3>2. CASE s \notin takers
        <4>1. delivered'[s] = q /\ Adopted'[s] = Adopted[s]
          BY <1>2, <2>1, <3>2
        <4> HIDE DEF q, n
        <4> QED
          BY <2>4, <3>1, <4>1
      <3>3. CASE s \in takers
        <4>1. /\ delivered'[s] = Append(q, m.id) /\ Adopted'[s] = m.offset
              /\ s \in ToSet(subscriptions) /\ m.offset > Adopted[s]
          <5>1. seenEpoch \in {Unset, epoch}
            BY <2>1, <3>3
          <5>2. /\ delivered'[s] = Append(q, m.id) /\ offsets'[s] = m.offset
                /\ s \in ToSet(subscriptions) /\ m.offset > offsets[s]
            BY <2>1, <2>3, <3>3
          <5> QED
            BY <1>2, <5>1, <5>2
        <4> HIDE DEF q, n
        <4>2. /\ Len(Append(q, m.id)) = n + 1 /\ Append(q, m.id)[n + 1] = m.id
              /\ Append(q, m.id) \in Seq(Nat)
              /\ \A i \in 1 .. n : Append(q, m.id)[i] = q[i]
          BY <2>2, <3>1, AppendFacts DEF n
        <4>3. DOMAIN Append(q, m.id) = 1 .. n + 1
          BY <4>2, LenProperties
        <4>4. \A i \in 1 .. n : q[i] < m.id
          BY <2>2, <3>1, <4>1
        <4>5. \A i \in 1 .. n + 1 : /\ i \in 1 .. n \/ i = n + 1
                                    /\ \A j \in 1 .. n + 1 : i < j => i \in 1 .. n
          BY <3>1
        <4>6. \A i, j \in 1 .. n + 1 : i < j => Append(q, m.id)[i] < Append(q, m.id)[j]
          <5> TAKE i, j \in 1 .. n + 1
          <5> HAVE i < j
          <5>1. i \in 1 .. n /\ Append(q, m.id)[i] = q[i]
            BY <4>2, <4>5
          <5>2. CASE j \in 1 .. n
            BY <3>1, <4>2, <5>1, <5>2
          <5>3. CASE j = n + 1
            BY <4>2, <4>4, <5>1, <5>3
          <5> QED
            BY <4>5, <5>2, <5>3
        <4>7. \A i \in 1 .. n + 1 :
                /\ Append(q, m.id)[i] <= published
                /\ \A l \in Current' : l.offset > m.offset => Append(q, m.id)[i] < l.id
          <5> TAKE i \in 1 .. n + 1
          <5>1. Append(q, m.id)[i] \in Nat /\ Append(q, m.id)[i] <= m.id
            <6>1. CASE i \in 1 .. n
              BY <2>2, <3>1, <4>2, <4>4, <6>1
            <6>2. CASE i = n + 1
              BY <2>2, <4>2, <6>2
            <6> QED
              BY <4>5, <6>1, <6>2
          <5> DEFINE x == Append(q, m.id)[i]
          <5> HIDE DEF x
          <5>2. x \in Nat /\ x <= m.id
            BY <5>1 DEF x
          <5>3. x <= published
            <6>1. published \in Nat
              BY <1>1 DEF TypeOK
            <6> QED
              BY <2>2, <5>2, <6>1
          <5>4. \A l \in Current' : l.offset > m.offset => x < l.id
            BY <2>2, <2>4, <5>2
          <5> QED
            BY <5>3, <5>4 DEF x
        <4> QED
          BY <4>1, <4>3, <4>6, <4>7
      <3> QED
        BY <3>2, <3>3
    <2>6. InOrderOnce'
      BY <2>5 DEF InOrderOnce
    <2>7. WatermarksAgree'
      BY <1>1, <2>5 DEF WatermarksAgree
    <2> QED
      BY <2>6, <2>7
  <1> QED
    BY <1>4, <1>5 DEF ClientReceives

LEMMA OrderNext ==
    ASSUME IInv, Next
    PROVE  WatermarksAgree' /\ InOrderOnce'
  <1>1. /\ TypeOK /\ TypeOK' /\ LinkAgrees /\ HandshakeAgrees /\ OffsetsAgree /\ OffsetsAgree'
        /\ WatermarksAgree /\ InOrderOnce
    BY NextTypes, OffsetsNext DEF IInv
  <1>2. published \in Nat /\ nextOffset \in Nat
    BY <1>1 DEF TypeOK
  <1>3. \A s \in Sub : Adopted[s] \in Mark
    BY <1>1, AdoptedFacts
  <1>4. \A m \in Current' : m.offset \in Nat
    <2>1. nextOffset' \in Nat /\ \A m \in Current' : m.offset \in 1 .. nextOffset'
      BY <1>1 DEF TypeOK, OffsetsAgree
    <2> QED
      BY <2>1
  \* Steps that publish and deliver nothing.
  <1>5. ASSUME published' = published,
               \A s \in Sub : delivered'[s] = delivered[s] \/ delivered'[s] = <<>>,
               \A s \in Sub \ early' : s \notin early \/ delivered'[s] = <<>>,
               \A s \in ToSet(subscriptions') :
                   s \in ToSet(subscriptions) \/ delivered'[s] = <<>>,
               Current' \subseteq Current,
               \A s \in ToSet(subscriptions') : Adopted'[s] = Adopted[s]
        PROVE  WatermarksAgree' /\ InOrderOnce'
    BY <1>1, <1>2, <1>5, OrderKept
  <1>6. ASSUME UNCHANGED <<ring, trimmed, toClient>>
        PROVE  Current' \subseteq Current
    BY <1>6, LoggedSame, CurrentShrinks DEF Current
  <1>7. ASSUME NEW ch \in Channel, NEW safe \in BOOLEAN, Publish(ch, safe)
        PROVE  WatermarksAgree' /\ InOrderOnce'
    <2> DEFINE m == [offset |-> nextOffset + 1, id |-> published + 1, safe |-> safe]
    <2>1. Current' \subseteq Current \cup {Frame(ch, m)}
      BY <1>7, PublishCurrent DEF IInv
    <2>2. Frame(ch, m).id = published + 1
      BY <1>1, MintFacts, FrameFacts
    <2>3. /\ UNCHANGED <<delivered, subscriptions, early>> /\ published' = published + 1
          /\ Adopted' = Adopted
      BY <1>7, AdoptedSame DEF Publish, clientVars
    <2> HIDE DEF m
    <2>4. \A l \in Current' : l \in Current \/ l.id > published
      BY <1>2, <2>1, <2>2
    <2>5. published <= published'
      BY <1>2, <2>3
    <2> QED
      BY <1>1, <2>3, <2>4, <2>5, OrderKept
  <1>8. ASSUME Compact \/ \E ch \in Channel : Prune(ch)
        PROVE  WatermarksAgree' /\ InOrderOnce'
    <2>1. \A c \in Channel : Logged(c)' \subseteq Logged(c)
      BY <1>1, <1>8, LoggedShrinks
    <2>2. UNCHANGED <<delivered, early, subscriptions, published, toClient>> /\ Adopted' = Adopted
      BY <1>8, AdoptedSame DEF Prune, Compact, clientVars, ghosts
    <2>3. Current' \subseteq Current
      BY <2>1, <2>2, CurrentShrinks DEF Current
    <2> QED
      BY <1>5, <2>2, <2>3
  <1>9. ASSUME BrokerReceives
        PROVE  WatermarksAgree' /\ InOrderOnce'
    <2>1. /\ UNCHANGED <<delivered, early, subscriptions, published, ring,
                         trimmed>> /\ Adopted' = Adopted
      BY <1>9, AdoptedSame DEF BrokerReceives, brokerVars, clientVars, ghosts
    <2>2. \A m \in ToSet(toClient') : m.t = "message" => m \in Current
      BY <1>9, ServedFacts DEF Current
    <2>3. Current' \subseteq Current
      BY <2>1, <2>2, LoggedSame, CurrentShrinks
    <2> QED
      BY <1>5, <2>1, <2>3
  <1>10. ASSUME NEW r \in resumes, Resume(r)
         PROVE  WatermarksAgree' /\ InOrderOnce'
    <2>1. /\ UNCHANGED <<delivered, early, subscriptions, published, ring, trimmed, toClient,
                         seenEpoch, epoch>>
      BY <1>10 DEF Resume, brokerVars
    <2>2. seenEpoch = epoch
      BY <1>1, <1>10 DEF LinkAgrees, HandshakeAgrees, Resume, TypeOK
    <2>3. r.offset \in Nat
      BY <1>1 DEF TypeOK, Answer
    <2>4. \A s \in Sub : \/ offsets'[s] = offsets[s]
                         \/ offsets[s] = Unset /\ offsets'[s] = r.offset
      BY <1>1, <1>10 DEF Resume, Baseline, TypeOK
    <2>5. \A s \in Sub : Adopted[s] = offsets[s] /\ Adopted'[s] = offsets'[s]
      BY <2>1, <2>2 DEF Adopted
    <2>6. \A s \in Sub : \A m \in Current' : m.offset > Adopted'[s] => m.offset > Adopted[s]
      BY <1>4, <2>3, <2>4, <2>5 DEF Unset
    <2>7. Current' \subseteq Current
      BY <1>6, <2>1
    <2> QED
      BY <1>1, <1>2, <2>1, <2>6, <2>7, OrderKept
  <1>11. ASSUME NEW s \in Sub, NEW replay \in BOOLEAN, Subscribe(s, replay)
         PROVE  WatermarksAgree' /\ InOrderOnce'
    <2>1. /\ UNCHANGED <<published, ring, trimmed, toClient, seenEpoch, epoch, offsets,
                         offsetBase>>
          /\ delivered' = [delivered EXCEPT ![s] = <<>>]
          /\ subscriptions' = Append(subscriptions, s) /\ early' = early \ {s}
      BY <1>11 DEF Subscribe, brokerVars
    <2>2. ToSet(subscriptions') = ToSet(subscriptions) \cup {s}
      BY <1>1, <2>1, AppendFacts DEF TypeOK
    <2>3. \A x \in Sub : delivered'[x] = IF x = s THEN <<>> ELSE delivered[x]
      BY <1>1, <2>1 DEF TypeOK
    <2>4. Adopted' = Adopted /\ Current' \subseteq Current
      BY <1>6, <2>1, AdoptedSame
    <2> QED
      BY <1>5, <2>1, <2>2, <2>3, <2>4
  <1>12. ASSUME NEW s \in Sub, Unsubscribe(s)
         PROVE  WatermarksAgree' /\ InOrderOnce'
    <2>1. /\ UNCHANGED <<published, ring, trimmed, toClient, seenEpoch, epoch, offsetBase,
                         delivered, early>>
          /\ offsets' = [offsets EXCEPT ![s] = Unset]
      BY <1>12 DEF Unsubscribe, brokerVars, ghosts
    <2>2. ToSet(subscriptions') = ToSet(subscriptions) \ {s}
      <3>1. PICK i \in DOMAIN subscriptions :
              subscriptions[i] = s /\ subscriptions' = RemoveAt(subscriptions, i)
        BY <1>12 DEF Unsubscribe
      <3>2. /\ subscriptions \in Seq(Sub)
            /\ \A k, j \in DOMAIN subscriptions : subscriptions[k] = subscriptions[j] => k = j
        BY <1>1 DEF TypeOK, IInv, RequestsAgree
      <3> QED
        BY <3>1, <3>2, RemoveFacts
    <2>3. ToSet(subscriptions) \subseteq Sub
      BY <1>1, MembersFacts DEF TypeOK
    <2>4. \A x \in Sub : x # s => offsets'[x] = offsets[x]
      BY <1>1, <2>1 DEF TypeOK
    <2>5. \A x \in Sub : x # s => Adopted'[x] = Adopted[x]
      BY <2>1, <2>4 DEF Adopted
    <2>6. Current' \subseteq Current
      BY <1>6, <2>1
    <2> QED
      BY <1>5, <2>1, <2>2, <2>3, <2>5, <2>6
  <1>13. ASSUME Adopt
         PROVE  WatermarksAgree' /\ InOrderOnce'
    <2>1. /\ UNCHANGED <<delivered, early, subscriptions, published, ring, trimmed, toClient,
                         epoch>>
          /\ seenEpoch' = epoch /\ offsets' = Adopted
      BY <1>13 DEF Adopt, brokerVars, ghosts
    <2>2. \A s \in Sub : Adopted'[s] = Adopted[s]
      BY <2>1 DEF Adopted
    <2>3. Current' \subseteq Current /\ ToSet(subscriptions) \subseteq Sub
      BY <1>1, <1>6, <2>1, MembersFacts DEF TypeOK
    <2> QED
      BY <1>5, <2>1, <2>2, <2>3
  <1>14. ASSUME Open \/ Replay
         PROVE  WatermarksAgree' /\ InOrderOnce'
    <2>1. UNCHANGED <<delivered, early, subscriptions, published, ring, trimmed, toClient,
                      seenEpoch, epoch, offsets, offsetBase>>
      BY <1>14 DEF Open, Replay, brokerVars, ghosts
    <2>2. Adopted' = Adopted /\ Current' \subseteq Current
      BY <1>6, <2>1, AdoptedSame
    <2> QED
      BY <1>5, <2>1, <2>2
  <1>15. ASSUME Break
         PROVE  WatermarksAgree' /\ InOrderOnce'
    <2>1. /\ UNCHANGED <<delivered, early, subscriptions, published, ring, trimmed, seenEpoch,
                         epoch, offsets, offsetBase>> /\ toClient' = <<>>
      BY <1>15 DEF Break, LinkDown, brokerVars
    <2>2. Adopted' = Adopted
      BY <2>1, AdoptedSame
    <2>3. ToSet(toClient') = {}
      BY <2>1 DEF ToSet
    <2>4. Current' \subseteq Current
      BY <2>1, <2>3, LoggedSame, CurrentShrinks
    <2> QED
      BY <1>5, <2>1, <2>2, <2>4
  \* Offsets go on above all that is retained, or start over with nothing retained.
  <1>16. ASSUME Restart
         PROVE  WatermarksAgree' /\ InOrderOnce'
    <2>1. /\ \A ch \in Channel : Logged(ch)' \subseteq Logged(ch)
          /\ offsetBase' = nextOffset' /\ nextOffset' \in Nat /\ epoch' = epoch + 1
          /\ \/ nextOffset <= nextOffset'
             \/ \A ch \in Channel : Logged(ch)' = {}
      BY <1>1, <1>16, RestartFacts
    <2>2. toClient' = <<>>
          /\ UNCHANGED <<seenEpoch, offsets, published, subscriptions, delivered, early>>
      BY <1>16 DEF Restart, LinkDown
    <2>3. ToSet(toClient') = {}
      BY <2>2 DEF ToSet
    <2>4. Current' \subseteq Current
      BY <2>1, <2>3, CurrentShrinks
    <2>5. ASSUME NEW s \in Sub, NEW m \in Current', m.offset > Adopted'[s]
          PROVE  m \in Current /\ m.offset > Adopted[s]
      <3>1. m \in Current /\ m.offset \in Nat /\ m.offset <= nextOffset
        BY <1>1, <1>2, <1>4, <2>4 DEF OffsetsAgree
      <3>2. nextOffset <= nextOffset'
        <4>1. (\A ch \in Channel : Logged(ch)' = {}) => Current' = {}
          BY <2>3 DEF Current, Held
        <4> QED
          BY <2>1, <4>1
      <3>3. Adopted'[s] = IF seenEpoch \notin {Unset, epoch'} /\ offsets[s] > nextOffset'
                          THEN nextOffset' ELSE offsets[s]
        BY <2>1, <2>2 DEF Adopted
      <3>4. Adopted'[s] = offsets[s]
        BY <1>2, <2>1, <2>5, <3>1, <3>2, <3>3
      <3>5. Adopted[s] <= offsets[s]
        BY <1>1, AdoptedFacts
      <3>6. offsets[s] \in Mark
        BY <1>1 DEF TypeOK
      <3> QED
        BY <1>3, <2>5, <3>1, <3>4, <3>5, <3>6 DEF Mark, Unset
    <2>6. published <= published'
      BY <1>2, <2>2
    <2> QED
      BY <1>1, <2>2, <2>5, <2>6, OrderKept
  <1> QED
    BY <1>7, <1>8, <1>9, <1>10, <1>11, <1>12, <1>13, <1>14, <1>15, <1>16, DeliverOrder DEF Next

-----------------------------------------------------------------------------
(* What a subscription is owed.  A client that does not interrupt _replay, with         *)
(* subscriptions that do not overlap, keeps CaughtInv.                                  *)

\* The numbers of a message that is retained.
LEMMA RetainedFacts ==
    ASSUME TypeOK, OffsetsAgree, NEW s \in Sub, NEW m \in Retained(s)
    PROVE  /\ m \in Message /\ m.offset \in Nat /\ m.id \in Nat
           /\ m.offset \in 1 .. nextOffset /\ m.id \in 1 .. published
           /\ \E ch \in MatchedBy(s) : ch \in Channel /\ m \in ToSet(ring[ch])
  <1>1. PICK ch \in MatchedBy(s) : ch \in Channel /\ m \in ToSet(ring[ch])
    BY DEF Retained, MatchedBy
  <1>2. m \in Message
    BY <1>1, MembersFacts DEF TypeOK
  <1>3. m \in Logged(ch)
    BY <1>1, LoggedFacts
  <1>4. /\ Frame(ch, m) \in Current /\ Frame(ch, m).offset = m.offset /\ Frame(ch, m).id = m.id
        /\ m.offset \in Nat /\ m.id \in Nat
    BY <1>1, <1>2, <1>3, HeldFacts, FrameFacts DEF Current
  <1> QED
    BY <1>1, <1>2, <1>4 DEF OffsetsAgree

\* What is due to a subscription is retained, and due by an answer or by what it is owed.
LEMMA DueFacts ==
    ASSUME NEW s \in Sub, NEW m
    PROVE  m \in Due(s) <=>
               /\ m \in Retained(s)
               /\ m.id \notin dropped \cup returned /\ m.id \notin ToSet(delivered[s])
               /\ IF from[s] # Unset THEN m.id > from[s] ELSE \E r \in AnswersFor(s) : m.id > r.from
  BY Zenon DEF Due

LEMMA RetainedShrinks ==
    ASSUME \A ch \in Channel : \A l \in ToSet(ring'[ch]) :
               l \in ToSet(ring[ch]) \/ l.id \in returned',
           NEW s \in Sub
    PROVE  \A m \in Retained(s)' : m \in Retained(s) \/ m.id \in returned'
  <1>1. MatchedBy(s) \subseteq Channel
    BY DEF MatchedBy
  <1> QED
    BY <1>1 DEF Retained

\* What is due after a step was due before it, where the step retains nothing new but what
\* it brings back, gives no more to it and answers nothing that is owed a message published
\* before.
LEMMA DueKept ==
    ASSUME TypeOK, OffsetsAgree, NEW s \in Sub, NEW m \in Due(s)',
           \A ch \in Channel : \A l \in ToSet(ring'[ch]) :
               l \in ToSet(ring[ch]) \/ l.id \in returned',
           dropped \subseteq dropped', returned \subseteq returned',
           ToSet(delivered[s]) \subseteq ToSet(delivered'[s]), from'[s] = from[s],
           \A r \in AnswersFor(s)' : r \in AnswersFor(s) \/ r.from = published
    PROVE  m \in Due(s)
  <1>1. /\ m \in Retained(s)' /\ m.id \notin dropped' /\ m.id \notin returned'
        /\ m.id \notin ToSet(delivered'[s])
        /\ IF from'[s] # Unset THEN m.id > from'[s]
           ELSE \E r \in AnswersFor(s)' : m.id > r.from
    BY Zenon DEF Due
  <1>2. m \in Retained(s)
    BY <1>1, RetainedShrinks
  <1>3. published \in Nat /\ m.id \in Nat /\ ~(m.id > published)
    BY <1>2, RetainedFacts DEF TypeOK
  <1>4. \A r \in AnswersFor(s)' : m.id > r.from => r \in AnswersFor(s)
    BY <1>3
  <1>5. m.id \notin dropped \cup returned /\ m.id \notin ToSet(delivered[s])
    BY <1>1
  <1> QED
    BY <1>1, <1>2, <1>4, <1>5, DueFacts

\* What is on its way stays so while the stream grows at its end.
LEMMA OnItsWayKept ==
    ASSUME TypeOK, TypeOK', NEW s \in Sub, NEW m, OnItsWay(s, m),
           Len(toClient) <= Len(toClient'),
           \A i \in 1 .. Len(toClient) : toClient'[i] = toClient[i],
           \A r \in resumes' : r.s = s => r \in resumes
    PROVE  OnItsWay(s, m)'
  <1>1. /\ Len(toClient) \in Nat /\ DOMAIN toClient = 1 .. Len(toClient)
        /\ Len(toClient') \in Nat /\ DOMAIN toClient' = 1 .. Len(toClient')
    BY LenProperties DEF TypeOK
  <1>2. PICK i \in 1 .. Len(toClient) :
          /\ IsFor(s, toClient[i]) /\ toClient[i].offset = m.offset /\ toClient[i].id = m.id
          /\ \A j \in 1 .. i - 1 :
               IsFor(s, toClient[j]) \/ (toClient[j].t = "ok" /\ toClient[j].s = s)
                   => toClient[j].offset < m.offset
    BY <1>1 DEF OnItsWay
  <1>3. i \in 1 .. Len(toClient') /\ \A j \in 1 .. i - 1 : j \in 1 .. Len(toClient)
    BY <1>1
  <1>4. toClient'[i] = toClient[i] /\ \A j \in 1 .. i - 1 : toClient'[j] = toClient[j]
    BY <1>3
  <1>5. \A f : IsFor(s, f)' <=> IsFor(s, f)
    BY DEF IsFor
  <1>6. \A r \in resumes' : r.s = s => r.offset < m.offset
    BY DEF OnItsWay
  <1> DEFINE way(k) ==
               /\ IsFor(s, toClient'[k]) /\ toClient'[k].offset = m.offset
               /\ toClient'[k].id = m.id
               /\ \A j \in 1 .. k - 1 :
                    IsFor(s, toClient'[j]) \/ (toClient'[j].t = "ok" /\ toClient'[j].s = s)
                        => toClient'[j].offset < m.offset
  <1>7. way(i)
    BY <1>2, <1>4
  <1> HIDE DEF way
  <1>8. \E k \in DOMAIN toClient' : way(k)
    BY <1>1, <1>3, <1>7
  <1> QED
    BY <1>6, <1>8 DEF OnItsWay, IsFor, way

\* ... and when the client takes its head, unless that is the message itself.
LEMMA OnItsWayTaken ==
    ASSUME TypeOK, NEW s \in Sub, NEW m, OnItsWay(s, m),
           toClient # <<>>, toClient' = Tail(toClient),
           ~(/\ IsFor(s, Head(toClient))
             /\ Head(toClient).offset = m.offset /\ Head(toClient).id = m.id),
           \A r \in resumes' : r \in resumes \/ (r = Head(toClient) /\ r.t = "ok")
    PROVE  /\ OnItsWay(s, m)'
           /\ IsFor(s, Head(toClient)) \/ (Head(toClient).t = "ok" /\ Head(toClient).s = s)
                  => Head(toClient).offset < m.offset
  <1> DEFINE q == toClient
             n == Len(toClient)
             w == toClient'
  <1>1. /\ w \in Seq(ToClientMsg) /\ Len(w) = n - 1 /\ n \in Nat \ {0}
        /\ \A i \in 1 .. n - 1 : w[i] = q[i + 1]
        /\ Head(q) = q[1] /\ DOMAIN q = 1 .. n
    BY TailFacts, LenProperties DEF TypeOK
  <1>2. DOMAIN w = 1 .. n - 1
    BY <1>1, LenProperties
  <1>3. PICK i \in 1 .. n :
          /\ IsFor(s, q[i]) /\ q[i].offset = m.offset /\ q[i].id = m.id
          /\ \A j \in 1 .. i - 1 :
               IsFor(s, q[j]) \/ (q[j].t = "ok" /\ q[j].s = s) => q[j].offset < m.offset
    BY <1>1 DEF OnItsWay
  <1> HIDE DEF q, n, w
  <1>4. i # 1
    BY <1>1, <1>3 DEF q
  <1>5. /\ i - 1 \in 1 .. n - 1 /\ i - 1 + 1 = i /\ 1 \in 1 .. i - 1
        /\ \A j \in 1 .. i - 1 - 1 : j \in 1 .. n - 1 /\ j + 1 \in 1 .. i - 1
    BY <1>1, <1>4
  <1>6. w[i - 1] = q[i] /\ \A j \in 1 .. i - 1 - 1 : w[j] = q[j + 1]
    <2>1. w[i - 1] = q[i - 1 + 1]
      BY <1>1, <1>5
    <2> QED
      BY <1>1, <1>5, <2>1
  <1> DEFINE way(k) ==
               /\ IsFor(s, w[k]) /\ w[k].offset = m.offset /\ w[k].id = m.id
               /\ \A j \in 1 .. k - 1 :
                    IsFor(s, w[j]) \/ (w[j].t = "ok" /\ w[j].s = s) => w[j].offset < m.offset
  <1>7. way(i - 1)
    BY <1>3, <1>5, <1>6
  <1> HIDE DEF way
  <1>8. \E k \in DOMAIN w : way(k)
    BY <1>2, <1>5, <1>7
  <1>9. IsFor(s, q[1]) \/ (q[1].t = "ok" /\ q[1].s = s) => q[1].offset < m.offset
    BY <1>3, <1>5
  <1>10. \A r \in resumes' : r.s = s => r.offset < m.offset
    <2>1. \A r \in resumes : r.s = s => r.offset < m.offset
      BY DEF OnItsWay
    <2> QED
      BY <1>1, <1>9, <2>1 DEF q
  <1> QED
    BY <1>1, <1>8, <1>9, <1>10 DEF OnItsWay, IsFor, way, q, w

\* Calls agree while new requests and answers are for subscriptions, and what says that a
\* subscription is gone is not for one of them.
LEMMA CallsKept ==
    ASSUME CallsAgree, subscriptions' = subscriptions,
           \A m \in ToSet(toBroker') : \/ m \in ToSet(toBroker)
                                       \/ m.t = "subscribe" /\ m.s \in ToSet(subscriptions)
                                       \/ m.s \notin Sub,
           \A m \in ToSet(toClient') : m.t = "gone" =>
               m \in ToSet(toClient) \/ m.s \notin ToSet(subscriptions),
           \A m \in ToSet(toClient') \cup resumes' : m.t = "ok" =>
               \/ m \in ToSet(toClient) \cup resumes
               \/ m.s \in ToSet(subscriptions) /\ m.s \in subs',
           \A s \in ToSet(subscriptions) : s \in subs => s \in subs' \/ AnswersFor(s)' = {},
           \A s \in Sub : s \notin ToSet(subscriptions) /\ offsets[s] = Unset =>
               offsets'[s] = Unset
    PROVE  CallsAgree'
  <1>1. ASSUME NEW s \in Sub, s \in ToSet(subscriptions)
        PROVE  /\ \A m \in ToSet(toBroker') : m.s = s => m.t = "subscribe"
               /\ \A m \in ToSet(toClient') : m.t = "gone" => m.s # s
               /\ s \notin subs' => AnswersFor(s)' = {}
    <2>1. /\ \A m \in ToSet(toBroker) : m.s = s => m.t = "subscribe"
          /\ \A m \in ToSet(toClient) : m.t = "gone" => m.s # s
          /\ s \notin subs => AnswersFor(s) = {}
      BY <1>1 DEF CallsAgree
    <2>2. ASSUME s \notin subs', s \notin subs, NEW r \in AnswersFor(s)'
          PROVE  FALSE
      <3>1. r \in ToSet(toClient') \cup resumes' /\ r.t = "ok" /\ r.s = s
        BY <2>2 DEF AnswersFor
      <3>2. r \in ToSet(toClient) \cup resumes
        BY <2>2, <3>1
      <3> QED
        BY <2>1, <2>2, <3>1, <3>2 DEF AnswersFor
    <2> QED
      BY <1>1, <2>1, <2>2
  <1>2. ASSUME NEW s \in Sub, s \notin ToSet(subscriptions)
        PROVE  Requests(s)' = {} /\ AnswersFor(s)' = {} /\ offsets'[s] = Unset
    <2>1. Requests(s) = {} /\ AnswersFor(s) = {} /\ offsets[s] = Unset
      BY <1>2 DEF CallsAgree
    <2>2. Requests(s)' = {}
      BY <1>2, <2>1 DEF Requests
    <2>3. AnswersFor(s)' = {}
      BY <1>2, <2>1 DEF AnswersFor
    <2> QED
      BY <1>2, <2>1, <2>2, <2>3
  <1> QED
    BY <1>1, <1>2 DEF CallsAgree

\* Frames end while none is sent to a subscription that the broker does not have.
LEMMA FramesKept ==
    ASSUME FramesEnd, TypeOK, TypeOK', Len(toClient) <= Len(toClient'),
           \A i \in 1 .. Len(toClient) : toClient'[i] = toClient[i],
           \A s \in Sub \ subs' : \A i \in 1 .. Len(toClient') : IsFor(s, toClient'[i]) =>
               \/ s \notin subs /\ i \in 1 .. Len(toClient)
               \/ \E j \in i + 1 .. Len(toClient') : toClient'[j].t = "gone" /\ toClient'[j].s = s
    PROVE  FramesEnd'
  <1>1. /\ Len(toClient) \in Nat /\ DOMAIN toClient = 1 .. Len(toClient)
        /\ Len(toClient') \in Nat /\ DOMAIN toClient' = 1 .. Len(toClient')
    BY LenProperties DEF TypeOK
  <1>2. ASSUME NEW s \in Sub \ subs', NEW i \in 1 .. Len(toClient'), IsFor(s, toClient'[i])
        PROVE  \E j \in i + 1 .. Len(toClient') : toClient'[j].t = "gone" /\ toClient'[j].s = s
    <2>1. CASE s \notin subs /\ i \in 1 .. Len(toClient)
      <3>1. IsFor(s, toClient[i])
        BY <1>2, <2>1
      <3>2. PICK j \in i + 1 .. Len(toClient) : toClient[j].t = "gone" /\ toClient[j].s = s
        BY <1>1, <2>1, <3>1 DEF FramesEnd
      <3>3. j \in 1 .. Len(toClient) /\ j \in i + 1 .. Len(toClient')
        BY <1>1, <2>1, <3>2
      <3> QED
        BY <3>2, <3>3
    <2> QED
      BY <1>2, <2>1
  <1> QED
    BY <1>1, <1>2 DEF FramesEnd, IsFor

\* ... and while the client takes them from the front.
LEMMA FramesTaken ==
    ASSUME FramesEnd, TypeOK, toClient # <<>>, toClient' = Tail(toClient), subs' = subs
    PROVE  FramesEnd'
  <1> DEFINE q == toClient
             n == Len(toClient)
             w == toClient'
  <1>1. /\ w \in Seq(ToClientMsg) /\ Len(w) = n - 1 /\ n \in Nat \ {0}
        /\ \A i \in 1 .. n - 1 : w[i] = q[i + 1]
        /\ DOMAIN q = 1 .. n
    BY TailFacts, LenProperties DEF TypeOK
  <1>2. DOMAIN w = 1 .. n - 1
    BY <1>1, LenProperties
  <1>3. \A s \in Sub \ subs : \A i \in 1 .. n : IsFor(s, q[i]) =>
          \E j \in i + 1 .. n : q[j].t = "gone" /\ q[j].s = s
    BY <1>1 DEF FramesEnd
  <1> HIDE DEF q, n, w
  <1>4. ASSUME NEW s \in Sub \ subs, NEW i \in 1 .. n - 1, IsFor(s, w[i])
        PROVE  \E j \in i + 1 .. n - 1 : w[j].t = "gone" /\ w[j].s = s
    <2>1. i + 1 \in 1 .. n /\ IsFor(s, q[i + 1])
      BY <1>1, <1>4
    <2>2. PICK j \in i + 1 + 1 .. n : q[j].t = "gone" /\ q[j].s = s
      BY <1>3, <2>1
    <2>3. j - 1 \in i + 1 .. n - 1 /\ j - 1 \in 1 .. n - 1 /\ j - 1 + 1 = j
      BY <1>1, <2>2
    <2>4. w[j - 1] = q[j]
      BY <1>1, <2>3
    <2> QED
      BY <2>2, <2>3, <2>4
  <1>5. \A s \in Sub \ subs' : \A i \in DOMAIN w : IsFor(s, w[i]) =>
          \E j \in i + 1 .. Len(w) : w[j].t = "gone" /\ w[j].s = s
    BY <1>1, <1>2, <1>4
  <1> QED
    BY <1>5 DEF FramesEnd, IsFor, w

\* The client asks for what it is owed while nothing new is owed or asked for.
LEMMA AsksKept ==
    ASSUME AsksAgree, subscriptions' = subscriptions, from' = from, replayOpts' = replayOpts,
           \A s \in ToSet(subscriptions) :
               OwnMark(s)' =>
                   \/ OwnMark(s) /\ (offsets[s] <= nextOffset => offsets'[s] <= nextOffset')
                   \/ offsets'[s] <= nextOffset',
           \A s \in ToSet(subscriptions) : offsets'[s] = Unset => offsets[s] = Unset,
           \A s \in ToSet(subscriptions) : \A q \in Requests(s)' :
               /\ q \in Requests(s) /\ (s \in subs => s \in subs')
               /\ q.since <= nextOffset => q.since <= nextOffset'
    PROVE  AsksAgree'
  <1>1. \A s \in ToSet(subscriptions) :
          offsets'[s] = Unset /\ s \notin replayOpts => from[s] = Unset
    BY DEF AsksAgree
  <1>2. \A s \in ToSet(subscriptions) : \A q \in Requests(s)' :
          /\ q.since <= nextOffset'
          /\ s \notin subs' /\ q.since = Unset /\ ~q.replay => from[s] = Unset
    <2>1. \A s \in ToSet(subscriptions) : \A q \in Requests(s) :
            /\ q.since <= nextOffset
            /\ s \notin subs /\ q.since = Unset /\ ~q.replay => from[s] = Unset
      BY DEF AsksAgree
    <2> QED
      BY <2>1, Zenon
  <1>3. \A s \in ToSet(subscriptions) : OwnMark(s)' => offsets'[s] <= nextOffset'
    <2>1. \A s \in ToSet(subscriptions) : OwnMark(s) => offsets[s] <= nextOffset
      BY DEF AsksAgree
    <2> QED
      BY <2>1, Zenon
  <1>4. ToSet(subscriptions') = ToSet(subscriptions)
    OBVIOUS
  <1> QED
    BY <1>1, <1>2, <1>3, <1>4 DEF AsksAgree

\* Where the handshake is over, watermarks are as the incarnation has them.
LEMMA AdoptedNow ==
    ASSUME LinkAgrees, link \in {"replaying", "up"}, TypeOK
    PROVE  \A s \in Sub : Adopted[s] = offsets[s] /\ offsets[s] \in Mark
  BY AdoptedFacts DEF TypeOK

\* A subscription that the broker does not have is owed by what the client knows.
LEMMA OwedKnown ==
    ASSUME CallsAgree, NEW s \in Sub, s \in ToSet(subscriptions), s \notin subs, NEW m \in Due(s)
    PROVE  from[s] # Unset
  BY DueFacts DEF CallsAgree

LEMMA SentFacts ==
    ASSUME TypeOK, NEW req \in ToBrokerMsg
    PROVE  ToSet(Append(toBroker, req)) = ToSet(toBroker) \cup {req}
  <1>1. toBroker \in Seq(ToBrokerMsg)
    BY DEF TypeOK
  <1> QED
    BY <1>1, AppendFacts

\* Retention and compaction only take messages off the record.
LEMMA PruneCaught ==
    ASSUME IInv, IInv', CaughtInv, Compact \/ \E ch \in Channel : Prune(ch)
    PROVE  CaughtInv'
  <1>1. /\ TypeOK /\ TypeOK' /\ OffsetsAgree
        /\ DueAgrees /\ CallsAgree /\ FramesEnd /\ AsksAgree
    BY DEF IInv, CaughtInv
  <1>2. UNCHANGED <<durable, epoch, offsetBase, nextOffset, subs, toBroker, toClient,
                    clientVars, published, delivered, from, dropped, returned>>
    BY DEF Prune, Compact, ghosts
  <1>3. /\ UNCHANGED <<link, seenEpoch, subscriptions, offsets, replayOpts, resumes>>
        /\ Adopted' = Adopted /\ ToSet(subscriptions) \subseteq Sub
    BY <1>1, <1>2, AdoptedSame, MembersFacts DEF clientVars, TypeOK
  <1>4. \A c \in Channel : ToSet(ring'[c]) \subseteq ToSet(ring[c])
    BY <1>1, LoggedShrinks
  <1>5. /\ \A s \in Sub : Requests(s)' = Requests(s) /\ AnswersFor(s)' = AnswersFor(s)
        /\ \A s \in Sub : OwnMark(s)' <=> OwnMark(s)
    BY <1>2, <1>3 DEF Requests, AnswersFor, OwnMark
  <1>6. ASSUME NEW s \in ToSet(subscriptions), NEW m \in Due(s)'
        PROVE  /\ m.offset > Adopted[s]
               /\ OwnMark(s) => m.offset > offsets[s]
               /\ link # "down" =>
                      IF s \in subs THEN OnItsWay(s, m)' ELSE \A q \in Requests(s) : Asked(m, q)
    <2>1. s \in Sub /\ m \in Due(s)
      <3>1. s \in Sub
        BY <1>3
      <3> QED
        BY <1>1, <1>2, <1>4, <1>5, <3>1, DueKept
    <2>2. OnItsWay(s, m)' <=> OnItsWay(s, m)
      BY <1>2, <1>3 DEF OnItsWay, IsFor
    <2> QED
      BY <1>1, <2>1, <2>2 DEF DueAgrees
  <1>7. DueAgrees'
    BY <1>2, <1>3, <1>5, <1>6 DEF DueAgrees
  <1>8. CallsAgree' /\ FramesEnd'
    BY <1>1, <1>2, <1>3, <1>5 DEF CallsAgree, FramesEnd, IsFor
  <1>9. AsksAgree'
    BY <1>1, <1>2, <1>3, <1>5 DEF AsksAgree
  <1> QED
    BY <1>7, <1>8, <1>9 DEF CaughtInv

\* With its link a client loses what is under way, and what it is owed stays above its
\* watermarks: a broker that recovers its offsets goes on above them.
LEMMA LinkDownCaught ==
    ASSUME IInv, IInv', CaughtInv, LinkDown, durable' = durable,
           \A ch \in Channel : \A l \in ToSet(ring'[ch]) :
               l \in ToSet(ring[ch]) \/ l.id \in returned',
           returned \subseteq returned',
           \/ UNCHANGED <<epoch, offsetBase, nextOffset>>
           \/ durable /\ nextOffset <= nextOffset'
           \/ ~durable /\ \A ch \in Channel : ToSet(ring'[ch]) = {}
    PROVE  CaughtInv'
  <1>1. /\ TypeOK /\ TypeOK' /\ OffsetsAgree
        /\ DueAgrees /\ CallsAgree /\ FramesEnd /\ AsksAgree
    BY DEF IInv, CaughtInv
  <1>2. /\ UNCHANGED <<seenEpoch, subscriptions, offsets, replayOpts, published, delivered, from,
                       dropped>>
        /\ link' = "down" /\ toBroker' = <<>> /\ toClient' = <<>> /\ subs' = {} /\ resumes' = {}
    BY DEF LinkDown
  <1>3. ToSet(subscriptions) \subseteq Sub
    BY <1>1, MembersFacts DEF TypeOK
  <1>4. ToSet(toBroker') = {} /\ ToSet(toClient') = {}
    BY <1>2 DEF ToSet
  <1>5. \A s \in Sub : /\ Requests(s)' = {} /\ AnswersFor(s)' = {}
                       /\ OwnMark(s)' <=> durable
    <2>1. \A s \in Sub : Requests(s)' = {} /\ AnswersFor(s)' = {}
      BY <1>2, <1>4 DEF Requests, AnswersFor
    <2> QED
      BY <1>2, <2>1 DEF OwnMark
  <1>6. \A s \in Sub : Adopted'[s] \in Mark /\ Adopted'[s] <= offsets[s] /\ offsets[s] \in Mark
    <2> TAKE s \in Sub
    <2>1. /\ seenEpoch' \notin {Unset, epoch'} /\ offsets'[s] > offsetBase'
                 => Adopted'[s] = offsetBase'
          /\ ~(seenEpoch' \notin {Unset, epoch'} /\ offsets'[s] > offsetBase')
                 => Adopted'[s] = offsets'[s]
      BY DEF Adopted
    <2>2. offsetBase' \in Mark /\ offsets'[s] \in Mark /\ offsets'[s] = offsets[s]
      BY <1>1, <1>2 DEF TypeOK, Mark
    <2> QED
      BY <2>1, <2>2 DEF Mark, Unset
  <1>7. ASSUME NEW s \in ToSet(subscriptions), NEW m \in Due(s)'
        PROVE  m.offset > Adopted'[s] /\ (durable => m.offset > offsets'[s])
    <2>1. s \in Sub
      BY <1>3
    <2>2. m \in Due(s)
      BY <1>1, <1>2, <1>5, <2>1, DueKept
    <2>3. m.offset > Adopted[s] /\ (durable => m.offset > offsets[s])
      BY <1>1, <2>2 DEF DueAgrees, OwnMark
    <2>4. CASE UNCHANGED <<epoch, offsetBase, nextOffset>>
      BY <1>2, <2>3, <2>4 DEF Adopted
    <2>5. CASE durable
      <3>1. m.offset \in Nat
        BY <1>1, <2>1, <2>2, DueFacts, RetainedFacts
      <3> QED
        BY <1>2, <1>6, <2>1, <2>3, <2>5, <3>1 DEF Mark, Unset
    <2>6. ~\A ch \in Channel : ToSet(ring'[ch]) = {}
      <3>1. m \in Retained(s)'
        BY DEF Due
      <3> QED
        BY <3>1 DEF Retained, MatchedBy
    <2> QED
      BY <2>4, <2>5, <2>6
  <1>8. DueAgrees'
    BY <1>2, <1>3, <1>5, <1>7 DEF DueAgrees
  <1>9. CallsAgree'
    <2>1. \A s \in Sub : s \notin ToSet(subscriptions) => offsets'[s] = Unset
      BY <1>1, <1>2 DEF CallsAgree
    <2> QED
      BY <1>2, <1>4, <1>5, <2>1 DEF CallsAgree
  <1>10. FramesEnd'
    BY <1>2 DEF FramesEnd
  <1>11. AsksAgree'
    <2>1. \A s \in ToSet(subscriptions) : \A q \in Requests(s)' : FALSE
      BY <1>3, <1>5
    <2>2. ASSUME NEW s \in ToSet(subscriptions), OwnMark(s)'
          PROVE  OwnMark(s) /\ (offsets[s] <= nextOffset => offsets'[s] <= nextOffset')
      <3>1. s \in Sub /\ durable
        BY <1>3, <1>5, <2>2
      <3>2. nextOffset <= nextOffset' /\ nextOffset \in Nat /\ nextOffset' \in Nat
        BY <1>1, <3>1 DEF TypeOK
      <3> QED
        BY <1>2, <1>6, <3>1, <3>2 DEF OwnMark, Mark, Unset
    <2> QED
      BY <1>1, <1>2, <2>1, <2>2, AsksKept
  <1> QED
    BY <1>8, <1>9, <1>10, <1>11 DEF CaughtInv

LEMMA BreakCaught ==
    ASSUME IInv, IInv', CaughtInv, Break
    PROVE  CaughtInv'
  <1>1. LinkDown /\ UNCHANGED <<durable, ring, epoch, offsetBase, nextOffset, returned>>
    BY DEF Break, LinkDown, brokerVars
  <1> QED
    BY <1>1, LinkDownCaught

LEMMA RestartCaught ==
    ASSUME IInv, IInv', CaughtInv, Restart
    PROVE  CaughtInv'
  <1>1. TypeOK /\ OffsetsAgree
    BY DEF IInv
  <1>2. /\ returned \subseteq returned'
        /\ \A ch \in Channel : \A l \in ToSet(ring'[ch]) :
             l \in ToSet(ring[ch]) \/ l.id \in returned'
    BY <1>1, ReturnedFacts
  <1>3. LinkDown /\ durable' = durable
    BY DEF Restart, LinkDown
  <1>4. durable => nextOffset <= nextOffset'
    BY <1>1 DEF Restart, OffsetsAgree
  <1>5. ~durable => \A ch \in Channel : ToSet(ring'[ch]) = {}
    BY DEF Restart, ToSet
  <1> QED
    BY <1>2, <1>3, <1>4, <1>5, LinkDownCaught

\* A client whose link was down has asked the broker for nothing when its socket opens.
LEMMA OpenCaught ==
    ASSUME IInv, IInv', CaughtInv, Open
    PROVE  CaughtInv'
  <1>1. /\ TypeOK /\ TypeOK' /\ OffsetsAgree /\ LinkAgrees
        /\ DueAgrees /\ CallsAgree /\ FramesEnd /\ AsksAgree
    BY DEF IInv, CaughtInv
  <1>2. /\ UNCHANGED <<durable, epoch, offsetBase, nextOffset, ring, subs, toClient, seenEpoch,
                       subscriptions, offsets, replayOpts, resumes, published, delivered, from,
                       dropped, returned>>
        /\ link = "down" /\ toBroker' = Append(toBroker, [t |-> "hello", s |-> NoSub])
    BY DEF Open, brokerVars, ghosts
  <1>3. ToSet(subscriptions) \subseteq Sub /\ Adopted' = Adopted
    BY <1>1, <1>2, AdoptedSame, MembersFacts DEF TypeOK
  <1>4. ToSet(toBroker) = {} /\ ToSet(toClient) = {} /\ subs = {} /\ resumes = {}
    BY <1>1, <1>2 DEF LinkAgrees, ToSet
  <1>5. ToSet(toBroker') = ToSet(toBroker) \cup {[t |-> "hello", s |-> NoSub]}
    BY <1>1, <1>2, SentFacts DEF ToBrokerMsg
  <1>6. \A m \in ToSet(toBroker') : m.t = "hello" /\ m.s \notin Sub
    BY <1>4, <1>5, PubSubAssumption
  <1>7. \A s \in Sub : /\ Requests(s)' = {} /\ AnswersFor(s)' = {} /\ Requests(s) = {}
                       /\ OwnMark(s)' <=> OwnMark(s)
    <2>1. \A s \in Sub : Requests(s)' = {} /\ AnswersFor(s)' = {} /\ Requests(s) = {}
      BY <1>2, <1>4, <1>6 DEF Requests, AnswersFor
    <2> QED
      BY <1>2, <2>1 DEF OwnMark
  <1>8. DueAgrees'
    <2>1. ASSUME NEW s \in ToSet(subscriptions), NEW m \in Due(s)'
          PROVE  m.offset > Adopted'[s] /\ (OwnMark(s)' => m.offset > offsets'[s])
      <3>1. s \in Sub
        BY <1>3
      <3>2. m \in Due(s)
        BY <1>1, <1>2, <1>7, <3>1, DueKept
      <3> QED
        BY <1>1, <1>2, <1>3, <1>7, <3>1, <3>2 DEF DueAgrees
    <2> QED
      BY <1>2, <1>3, <1>4, <1>7, <2>1 DEF DueAgrees
  <1>9. CallsAgree'
    BY <1>1, <1>2, <1>4, <1>6, CallsKept
  <1>10. FramesEnd'
    BY <1>1, <1>2 DEF FramesEnd, IsFor
  <1>11. AsksAgree'
    <2>1. \A s \in ToSet(subscriptions) : \A q \in Requests(s)' : FALSE
      BY <1>3, <1>7
    <2>2. \A s \in ToSet(subscriptions) :
            OwnMark(s)' => OwnMark(s) /\ (offsets[s] <= nextOffset => offsets'[s] <= nextOffset')
      BY <1>2, <1>3, <1>7
    <2> QED
      BY <1>1, <1>2, <2>1, <2>2, AsksKept
  <1> QED
    BY <1>8, <1>9, <1>10, <1>11 DEF CaughtInv

\* What is due is above the watermarks as they are adopted, whatever is under way by then.
LEMMA AdoptCaught ==
    ASSUME IInv, IInv', CaughtInv, Adopt
    PROVE  CaughtInv'
  <1>1. /\ TypeOK /\ TypeOK' /\ OffsetsAgree
        /\ DueAgrees /\ CallsAgree /\ FramesEnd /\ AsksAgree
    BY DEF IInv, CaughtInv
  <1>2. /\ UNCHANGED <<durable, epoch, offsetBase, nextOffset, ring, subs, toBroker, toClient,
                       subscriptions, replayOpts, resumes, published, delivered, from, dropped,
                       returned>>
        /\ link = "welcome" /\ link' = "replaying" /\ seenEpoch' = epoch /\ offsets' = Adopted
    BY DEF Adopt, brokerVars, ghosts
  <1>3. ToSet(subscriptions) \subseteq Sub
    BY <1>1, MembersFacts DEF TypeOK
  <1>4. /\ \A s \in Sub : Requests(s)' = Requests(s) /\ AnswersFor(s)' = AnswersFor(s)
        /\ \A s \in Sub : OwnMark(s)' <=> OwnMark(s)
    BY <1>2 DEF Requests, AnswersFor, OwnMark
  <1>5. \A s \in Sub : Adopted'[s] = Adopted[s] /\ Adopted[s] <= nextOffset
    BY <1>1, <1>2 DEF Adopted, OffsetsAgree
  <1>6. \A s \in Sub : Adopted[s] = Unset <=> offsets[s] = Unset
    <2> TAKE s \in Sub
    <2>1. offsetBase \in Nat /\ offsets[s] \in Mark
      BY <1>1 DEF TypeOK
    <2> QED
      BY <2>1, AdoptedFacts DEF Mark, Unset
  <1>7. ASSUME NEW s \in ToSet(subscriptions), NEW m \in Due(s)'
        PROVE  /\ m.offset > Adopted'[s] /\ m.offset > offsets'[s]
               /\ IF s \in subs THEN OnItsWay(s, m)' ELSE \A q \in Requests(s) : Asked(m, q)
    <2>1. s \in Sub /\ m \in Due(s)
      <3>1. s \in Sub
        BY <1>3
      <3> QED
        BY <1>1, <1>2, <1>4, <3>1, DueKept
    <2>2. OnItsWay(s, m)' <=> OnItsWay(s, m)
      BY <1>2 DEF OnItsWay, IsFor
    <2> QED
      BY <1>1, <1>2, <1>5, <2>1, <2>2 DEF DueAgrees
  <1>8. DueAgrees'
    BY <1>2, <1>3, <1>4, <1>7 DEF DueAgrees
  <1>9. CallsAgree'
    BY <1>1, <1>2, <1>6, CallsKept
  <1>10. FramesEnd'
    BY <1>1, <1>2 DEF FramesEnd, IsFor
  <1>11. AsksAgree'
    <2>1. \A s \in ToSet(subscriptions) :
            /\ offsets'[s] = Unset => offsets[s] = Unset
            /\ offsets'[s] <= nextOffset'
      BY <1>2, <1>3, <1>5, <1>6
    <2>2. \A s \in ToSet(subscriptions) : \A q \in Requests(s)' :
            /\ q \in Requests(s) /\ (s \in subs => s \in subs')
            /\ q.since <= nextOffset => q.since <= nextOffset'
      BY <1>2, <1>3, <1>4
    <2> QED
      BY <1>1, <1>2, <2>1, <2>2, AsksKept
  <1> QED
    BY <1>8, <1>9, <1>10, <1>11 DEF CaughtInv

\* An answer that the client goes on with is for a subscription the broker has, and what
\* is due to that is above the watermark it sets.
LEMMA ResumeCaught ==
    ASSUME IInv, IInv', CaughtInv, NEW r \in resumes, Resume(r)
    PROVE  CaughtInv'
  <1>1. /\ TypeOK /\ TypeOK' /\ OffsetsAgree /\ OffsetsAgree' /\ LinkAgrees /\ LinkAgrees'
        /\ HandshakeAgrees
        /\ DueAgrees /\ CallsAgree /\ FramesEnd /\ AsksAgree
    BY DEF IInv, CaughtInv
  <1>2. /\ UNCHANGED <<durable, epoch, offsetBase, nextOffset, ring, subs, toBroker, toClient,
                       link, seenEpoch, subscriptions, published, delivered, dropped,
                       returned>>
        /\ resumes' = resumes \ {r} /\ replayOpts' = replayOpts \ {r.s}
        /\ offsets' = [offsets EXCEPT ![r.s] = IF @ = Unset THEN r.offset ELSE @]
        /\ from' = [from EXCEPT ![r.s] =
             IF @ = Unset /\ r.s \in ToSet(subscriptions) THEN r.from ELSE @]
    BY DEF Resume, Baseline, brokerVars
  <1>3. r \in Answer /\ r.t = "ok" /\ r.s \in Sub /\ r.offset \in Nat /\ r.from \in Nat
    BY <1>1 DEF TypeOK, Answer
  <1>4. link \in {"replaying", "up"} /\ ToSet(subscriptions) \subseteq Sub
    <2>1. link \notin {"down", "hello", "welcome"}
      BY <1>1 DEF LinkAgrees, HandshakeAgrees, Resume
    <2> QED
      BY <1>1, <2>1, MembersFacts DEF TypeOK
  <1>5. /\ \A s \in Sub : Adopted[s] = offsets[s] /\ offsets[s] \in Mark
        /\ \A s \in Sub : Adopted'[s] = offsets'[s]
    <2>1. link' \in {"replaying", "up"}
      BY <1>2, <1>4
    <2> QED
      BY <1>1, <1>4, <2>1, AdoptedNow, AdoptedFacts DEF Adopted, LinkAgrees
  <1>6. r \in AnswersFor(r.s) /\ r.s \in ToSet(subscriptions) /\ r.s \in subs
    <2>1. r \in AnswersFor(r.s)
      BY <1>3 DEF AnswersFor
    <2> QED
      BY <1>1, <1>3, <2>1 DEF CallsAgree
  <1>7. /\ \A s \in Sub : Requests(s)' = Requests(s) /\ AnswersFor(s)' \subseteq AnswersFor(s)
        /\ \A s \in Sub : s # r.s => /\ from'[s] = from[s] /\ offsets'[s] = offsets[s]
                                     /\ s \in replayOpts' <=> s \in replayOpts
        /\ from'[r.s] = IF from[r.s] = Unset THEN r.from ELSE from[r.s]
        /\ offsets'[r.s] = IF offsets[r.s] = Unset THEN r.offset ELSE offsets[r.s]
    <2>1. from \in [Sub -> Mark] /\ offsets \in [Sub -> Mark]
      BY <1>1 DEF TypeOK
    <2>2. \A s \in Sub : Requests(s)' = Requests(s) /\ AnswersFor(s)' \subseteq AnswersFor(s)
      BY <1>2 DEF Requests, AnswersFor
    <2> QED
      BY <1>2, <1>3, <1>6, <2>1, <2>2
  <1>8. ASSUME NEW s \in Sub, NEW m \in Due(s)'
        PROVE  m \in Due(s)
    <2>1. CASE from'[s] = from[s]
      BY <1>1, <1>2, <1>7, <2>1, DueKept
    <2>2. CASE from'[s] # from[s]
      <3>1. s = r.s /\ from[s] = Unset /\ from'[s] = r.from /\ r.from # Unset
        BY <1>3, <1>7, <2>2 DEF Unset
      <3>2. /\ m \in Retained(s)'
            /\ m.id \notin dropped' \cup returned' /\ m.id \notin ToSet(delivered'[s])
            /\ m.id > r.from
        BY <3>1 DEF Due
      <3>3. m \in Retained(s)
        BY <1>2, <3>2 DEF Retained
      <3> QED
        BY <1>2, <1>6, <3>1, <3>2, <3>3, DueFacts
    <2> QED
      BY <2>1, <2>2
  <1>9. ASSUME NEW s \in ToSet(subscriptions), NEW m \in Due(s)'
        PROVE  /\ m.offset > Adopted'[s] /\ m.offset > offsets'[s]
               /\ IF s \in subs THEN OnItsWay(s, m)' ELSE \A q \in Requests(s) : Asked(m, q)
    <2>1. s \in Sub /\ m \in Due(s)
      BY <1>4, <1>8
    <2>2. /\ m.offset > offsets[s]
          /\ IF s \in subs THEN OnItsWay(s, m) ELSE \A q \in Requests(s) : Asked(m, q)
      BY <1>1, <1>4, <1>5, <2>1 DEF DueAgrees
    <2>3. OnItsWay(s, m) => OnItsWay(s, m)'
      BY <1>2 DEF OnItsWay, IsFor
    <2>4. s = r.s => r.offset < m.offset
      BY <1>6, <2>2 DEF OnItsWay
    <2>5. m.offset \in Nat
      <3>1. m \in Retained(s)
        BY <2>1, DueFacts
      <3> QED
        BY <1>1, <2>1, <3>1, RetainedFacts
    <2>6. m.offset > offsets'[s]
      BY <1>3, <1>7, <2>1, <2>2, <2>4, <2>5
    <2> QED
      BY <1>5, <2>1, <2>2, <2>3, <2>6
  <1>10. DueAgrees'
    BY <1>2, <1>4, <1>7, <1>9 DEF DueAgrees
  <1>11. CallsAgree'
    <2>1. \A s \in Sub : s \notin ToSet(subscriptions) => offsets'[s] = offsets[s]
      BY <1>6, <1>7
    <2> QED
      BY <1>1, <1>2, <2>1, CallsKept
  <1>12. FramesEnd'
    BY <1>1, <1>2 DEF FramesEnd, IsFor
  <1>13. AsksAgree'
    <2>1. ASSUME NEW s \in ToSet(subscriptions), offsets'[s] = Unset, s \notin replayOpts'
          PROVE  from'[s] = Unset
      <3>1. s \in Sub /\ s # r.s
        BY <1>3, <1>4, <1>7, <2>1 DEF Unset
      <3> QED
        BY <1>1, <1>7, <2>1, <3>1 DEF AsksAgree
    <2>2. ASSUME NEW s \in ToSet(subscriptions), NEW q \in Requests(s)'
          PROVE  /\ q.since <= nextOffset'
                 /\ s \notin subs' /\ q.since = Unset /\ ~q.replay => from'[s] = Unset
      <3>1. s \in Sub /\ q \in Requests(s)
        BY <1>4, <1>7, <2>2
      <3>2. /\ q.since <= nextOffset
            /\ s \notin subs /\ q.since = Unset /\ ~q.replay => from[s] = Unset
        BY <1>1, <3>1 DEF AsksAgree
      <3>3. s \notin subs => from'[s] = from[s]
        BY <1>6, <1>7, <3>1
      <3> QED
        BY <1>2, <3>2, <3>3
    <2>3. \A s \in ToSet(subscriptions) : offsets'[s] <= nextOffset'
      BY <1>1, <1>4, <1>5 DEF OffsetsAgree
    <2> QED
      BY <1>2, <2>1, <2>2, <2>3 DEF AsksAgree
  <1> QED
    BY <1>10, <1>11, <1>12, <1>13 DEF CaughtInv

\* _replay asks for what follows the watermark, or for all where { replay: true } has not
\* been answered: either way for what is due.
LEMMA ReplayCaught ==
    ASSUME IInv, IInv', CaughtInv, Replay
    PROVE  CaughtInv'
  <1>1. /\ TypeOK /\ TypeOK' /\ OffsetsAgree /\ LinkAgrees
        /\ DueAgrees /\ CallsAgree /\ FramesEnd /\ AsksAgree
    BY DEF IInv, CaughtInv
  <1>2. /\ UNCHANGED <<durable, epoch, offsetBase, nextOffset, ring, subs, toClient, seenEpoch,
                       subscriptions, offsets, replayOpts, resumes, published, delivered, from,
                       dropped, returned>>
        /\ link = "replaying" /\ link' # "down"
    BY DEF Replay, brokerVars, ghosts
  <1>3. /\ ToSet(subscriptions) \subseteq Sub
        /\ Adopted' = Adopted /\ \A s \in Sub : Adopted[s] = offsets[s] /\ offsets[s] \in Mark
    BY <1>1, <1>2, AdoptedSame, AdoptedNow, MembersFacts DEF TypeOK
  <1>4. \A s \in Sub : AnswersFor(s)' = AnswersFor(s)
    BY <1>2 DEF AnswersFor
  \* The request that it may send.
  <1> DEFINE req(s) == [t |-> "subscribe", s |-> s, by |-> "replay", since |-> offsets[s],
                        replay |-> offsets[s] = Unset /\ s \in replayOpts]
  <1>5. \/ toBroker' = toBroker
        \/ \E s \in ToSet(subscriptions) : ToSet(toBroker') = ToSet(toBroker) \cup {req(s)}
    <2>1. CASE UNCHANGED toBroker
      BY <2>1
    <2>2. ASSUME NEW i \in DOMAIN subscriptions, Send(req(subscriptions[i]))
          PROVE  \E s \in ToSet(subscriptions) : ToSet(toBroker') = ToSet(toBroker) \cup {req(s)}
      <3> DEFINE s == subscriptions[i]
      <3>1. s \in ToSet(subscriptions)
        BY DEF ToSet
      <3>2. offsets[s] \in Mark /\ s \in Sub
        BY <1>3, <3>1
      <3>3. req(s) \in ToBrokerMsg
        BY <3>2 DEF ToBrokerMsg
      <3>4. toBroker' = Append(toBroker, req(s))
        BY <1>2, <2>2, Zenon DEF Send
      <3> HIDE DEF req, s
      <3>5. ToSet(toBroker') = ToSet(toBroker) \cup {req(s)}
        BY <1>1, <3>3, <3>4, SentFacts
      <3> QED
        BY <3>1, <3>5
    <2> QED
      BY <2>1, <2>2, Zenon DEF Replay
  <1>6. \A s : /\ req(s).t = "subscribe" /\ req(s).s = s /\ req(s).since = offsets[s]
               /\ req(s).replay <=> offsets[s] = Unset /\ s \in replayOpts
    OBVIOUS
  <1> HIDE DEF req
  <1>7. /\ \A m \in ToSet(toBroker') : \/ m \in ToSet(toBroker)
                                       \/ \E s \in ToSet(subscriptions) : m = req(s)
        /\ \A s \in Sub : \A q \in Requests(s)' : q \in Requests(s) \/ q = req(s)
    <2>1. \A m \in ToSet(toBroker') : \/ m \in ToSet(toBroker)
                                      \/ \E s \in ToSet(subscriptions) : m = req(s)
      BY <1>5
    <2> QED
      BY <1>6, <2>1 DEF Requests
  <1>8. ASSUME NEW s \in ToSet(subscriptions), NEW m \in Due(s)'
        PROVE  /\ m.offset > Adopted[s] /\ m.offset > offsets[s]
               /\ IF s \in subs THEN OnItsWay(s, m)' ELSE \A q \in Requests(s)' : Asked(m, q)
    <2>1. s \in Sub /\ m \in Due(s)
      <3>1. s \in Sub
        BY <1>3
      <3> QED
        BY <1>1, <1>2, <1>4, <3>1, DueKept
    <2>2. /\ m.offset > offsets[s]
          /\ IF s \in subs THEN OnItsWay(s, m) ELSE \A q \in Requests(s) : Asked(m, q)
      BY <1>1, <1>2, <1>3, <2>1 DEF DueAgrees
    <2>3. OnItsWay(s, m)' <=> OnItsWay(s, m)
      BY <1>2 DEF OnItsWay, IsFor
    <2>4. ASSUME s \notin subs
          PROVE  Asked(m, req(s))
      <3>1. from[s] # Unset
        BY <1>1, <2>1, <2>4, OwedKnown
      <3>2. offsets[s] = Unset => s \in replayOpts
        BY <1>1, <3>1 DEF AsksAgree
      <3> QED
        BY <1>6, <2>2, <3>2 DEF Asked
    <2> QED
      BY <1>3, <1>7, <2>1, <2>2, <2>3, <2>4
  <1>9. DueAgrees'
    BY <1>2, <1>3, <1>8 DEF DueAgrees
  <1>10. CallsAgree'
    <2>1. \A m \in ToSet(toBroker') : \/ m \in ToSet(toBroker)
                                      \/ m.t = "subscribe" /\ m.s \in ToSet(subscriptions)
      BY <1>6, <1>7
    <2> QED
      BY <1>1, <1>2, <2>1, CallsKept
  <1>11. FramesEnd'
    BY <1>1, <1>2 DEF FramesEnd, IsFor
  <1>12. AsksAgree'
    <2>1. ASSUME NEW s \in ToSet(subscriptions), NEW q \in Requests(s)'
          PROVE  /\ q.since <= nextOffset'
                 /\ s \notin subs' /\ q.since = Unset /\ ~q.replay => from'[s] = Unset
      <3>1. s \in Sub /\ (q \in Requests(s) \/ q = req(s))
        BY <1>3, <1>7, <2>1
      <3>2. CASE q \in Requests(s)
        BY <1>1, <1>2, <3>2 DEF AsksAgree
      <3>3. CASE q = req(s)
        <4>1. offsets[s] <= nextOffset
          BY <1>1, <1>3, <3>1 DEF OffsetsAgree
        <4>2. offsets[s] = Unset /\ s \notin replayOpts => from[s] = Unset
          BY <1>1 DEF AsksAgree
        <4> QED
          BY <1>2, <1>6, <3>3, <4>1, <4>2
      <3> QED
        BY <3>1, <3>2, <3>3
    <2>2. \A s \in ToSet(subscriptions) : offsets'[s] <= nextOffset'
      BY <1>1, <1>2, <1>3 DEF OffsetsAgree
    <2> QED
      BY <1>1, <1>2, <1>3, <2>1, <2>2 DEF AsksAgree
  <1> QED
    BY <1>9, <1>10, <1>11, <1>12 DEF CaughtInv

\* subscribe() starts from nothing: no request for it is under way, the broker does not
\* have it, and it is owed all if it asks for all.
LEMMA SubscribeCaught ==
    ASSUME IInv, IInv', CaughtInv, NEW x \in Sub, NEW replay \in BOOLEAN, Subscribe(x, replay)
    PROVE  CaughtInv'
  <1> DEFINE req == [t |-> "subscribe", s |-> x, by |-> "subscribe", since |-> Unset,
                     replay |-> replay]
  <1>1. /\ TypeOK /\ TypeOK' /\ OffsetsAgree /\ RequestsAgree
        /\ DueAgrees /\ CallsAgree /\ FramesEnd /\ AsksAgree
    BY DEF IInv, CaughtInv
  <1>2. /\ UNCHANGED <<durable, epoch, offsetBase, nextOffset, ring, subs, toClient, link,
                       seenEpoch, offsets, resumes, published, dropped,
                       returned>>
        /\ x \notin ToSet(subscriptions) /\ Unanswered(x) = {}
        /\ subscriptions' = Append(subscriptions, x)
        /\ replayOpts' = IF replay THEN replayOpts \cup {x} ELSE replayOpts
        /\ delivered' = [delivered EXCEPT ![x] = <<>>]
        /\ from' = [from EXCEPT ![x] = IF replay THEN 0 ELSE Unset]
    BY DEF Subscribe, brokerVars
  <1>3. toBroker' = IF link = "down" THEN toBroker ELSE Append(toBroker, req)
    BY Zenon DEF Subscribe, Send
  <1>4. /\ req \in ToBrokerMsg /\ req.t = "subscribe" /\ req.s = x /\ req.since = Unset
        /\ req.replay = replay
    BY DEF ToBrokerMsg, Mark
  <1> HIDE DEF req
  <1>5. /\ ToSet(subscriptions') = ToSet(subscriptions) \cup {x}
        /\ ToSet(subscriptions) \subseteq Sub
    BY <1>1, <1>2, AppendFacts, MembersFacts DEF TypeOK
  <1>6. ToSet(toBroker') \subseteq ToSet(toBroker) \cup {req}
    BY <1>1, <1>3, <1>4, SentFacts
  <1>7. /\ \A m \in ToSet(toBroker) : m.s # x
        /\ \A m \in ToSet(toClient) : m.t # "message" => m.s # x
        /\ \A r \in resumes : r.s # x
    BY <1>2 DEF Unanswered
  <1>8. /\ \A q \in Requests(x)' : q = req
        /\ AnswersFor(x)' = {}
        /\ \A s \in Sub : s # x => Requests(s)' \subseteq Requests(s)
        /\ \A s \in Sub : AnswersFor(s)' = AnswersFor(s)
        /\ \A s \in Sub : s # x /\ OwnMark(s)' => OwnMark(s)
    <2>1. AnswersFor(x)' = {}
      BY <1>2, <1>7 DEF AnswersFor
    <2>2. \A s \in Sub : AnswersFor(s)' = AnswersFor(s)
      BY <1>2 DEF AnswersFor
    <2>3. \A q \in Requests(x)' : q = req
      BY <1>6, <1>7 DEF Requests
    <2>4. \A s \in Sub : s # x => Requests(s)' \subseteq Requests(s)
      BY <1>4, <1>6 DEF Requests
    <2>5. \A s \in Sub : s # x /\ OwnMark(s)' => OwnMark(s)
      BY <1>2, <2>4 DEF OwnMark
    <2> QED
      BY <2>1, <2>2, <2>3, <2>4, <2>5
  <1>9. x \notin subs
    <2>1. DOMAIN toBroker = 1 .. Len(toBroker)
      BY <1>1, LenProperties DEF TypeOK
    <2>2. \A j \in DOMAIN toBroker : toBroker[j].s # x
      BY <1>7 DEF ToSet
    <2>3. x \in subs => WillHave(x)
      BY <2>2 DEF WillHave
    <2> QED
      BY <1>1, <1>2, <2>3 DEF RequestsAgree
  <1>10. offsets[x] = Unset /\ Adopted[x] = Unset /\ Adopted' = Adopted
    <2>1. offsets[x] = Unset /\ offsetBase \in Nat
      BY <1>1, <1>2 DEF CallsAgree, TypeOK
    <2> QED
      BY <1>2, <2>1, AdoptedSame, AdoptedFacts DEF Unset
  <1>11. /\ from'[x] = IF replay THEN 0 ELSE Unset
         /\ \A s \in Sub : s # x => from'[s] = from[s] /\ delivered'[s] = delivered[s]
    BY <1>1, <1>2 DEF TypeOK
  <1>12. ASSUME NEW s \in ToSet(subscriptions'), NEW m \in Due(s)'
         PROVE  /\ m.offset > Adopted[s]
                /\ OwnMark(s)' => m.offset > offsets[s]
                /\ link # "down" =>
                       IF s \in subs THEN OnItsWay(s, m)' ELSE \A q \in Requests(s)' : Asked(m, q)
    <2>1. CASE s = x
      <3>1. m \in Retained(x) /\ from'[x] # Unset
        <4>1. m \in Retained(x)' /\ (from'[x] = Unset => \E r \in AnswersFor(x)' : m.id > r.from)
          BY <2>1 DEF Due
        <4> QED
          BY <1>2, <1>8, <4>1 DEF Retained
      <3>2. m.offset \in Nat
        BY <1>1, <3>1, RetainedFacts
      <3>3. req.replay
        BY <1>4, <1>11, <3>1
      <3> QED
        BY <1>4, <1>8, <1>9, <1>10, <2>1, <3>2, <3>3 DEF Asked, Unset
    <2>2. CASE s # x
      <3>1. s \in ToSet(subscriptions) /\ s \in Sub
        BY <1>5, <2>2
      <3>2. m \in Due(s)
        BY <1>1, <1>2, <1>8, <1>11, <2>2, <3>1, DueKept
      <3>3. OnItsWay(s, m)' <=> OnItsWay(s, m)
        BY <1>2 DEF OnItsWay, IsFor
      <3> QED
        BY <1>1, <1>8, <2>2, <3>1, <3>2, <3>3 DEF DueAgrees
    <2> QED
      BY <2>1, <2>2
  <1>13. DueAgrees'
    BY <1>2, <1>10, <1>12 DEF DueAgrees
  <1>14. CallsAgree'
    <2>1. ASSUME NEW s \in Sub, s \in ToSet(subscriptions')
          PROVE  /\ \A m \in ToSet(toBroker') : m.s = s => m.t = "subscribe"
                 /\ \A m \in ToSet(toClient') : m.t = "gone" => m.s # s
                 /\ s \notin subs' => AnswersFor(s)' = {}
      <3>1. CASE s = x
        BY <1>2, <1>4, <1>6, <1>7, <1>8, <3>1
      <3>2. CASE s # x
        <4>1. s \in ToSet(subscriptions)
          BY <1>5, <2>1, <3>2
        <4> QED
          BY <1>1, <1>2, <1>4, <1>6, <1>8, <4>1 DEF CallsAgree
      <3> QED
        BY <3>1, <3>2
    <2>2. ASSUME NEW s \in Sub, s \notin ToSet(subscriptions')
          PROVE  Requests(s)' = {} /\ AnswersFor(s)' = {} /\ offsets'[s] = Unset
      <3>1. s # x /\ s \notin ToSet(subscriptions)
        BY <1>5, <2>2
      <3> QED
        BY <1>1, <1>2, <1>8, <3>1 DEF CallsAgree
    <2> QED
      BY <2>1, <2>2 DEF CallsAgree
  <1>15. FramesEnd'
    BY <1>1, <1>2 DEF FramesEnd, IsFor
  <1>16. AsksAgree'
    <2>1. ASSUME NEW s \in ToSet(subscriptions'), offsets'[s] = Unset, s \notin replayOpts'
          PROVE  from'[s] = Unset
      <3>1. CASE s = x
        BY <1>2, <1>11, <2>1, <3>1
      <3>2. CASE s # x
        <4>1. s \in ToSet(subscriptions) /\ s \in Sub /\ s \notin replayOpts
          BY <1>2, <1>5, <2>1, <3>2
        <4> QED
          BY <1>1, <1>2, <1>11, <2>1, <3>2, <4>1 DEF AsksAgree
      <3> QED
        BY <3>1, <3>2
    <2>2. ASSUME NEW s \in ToSet(subscriptions'), NEW q \in Requests(s)'
          PROVE  /\ q.since <= nextOffset'
                 /\ s \notin subs' /\ q.since = Unset /\ ~q.replay => from'[s] = Unset
      <3>1. CASE s = x
        <4>1. q = req /\ nextOffset \in Nat
          BY <1>1, <1>8, <2>2, <3>1 DEF TypeOK
        <4> QED
          BY <1>2, <1>4, <1>11, <3>1, <4>1 DEF Unset
      <3>2. CASE s # x
        <4>1. s \in ToSet(subscriptions) /\ s \in Sub /\ q \in Requests(s)
          BY <1>5, <1>8, <2>2, <3>2
        <4> QED
          BY <1>1, <1>2, <1>11, <3>2, <4>1 DEF AsksAgree
      <3> QED
        BY <3>1, <3>2
    <2>3. ASSUME NEW s \in ToSet(subscriptions'), OwnMark(s)'
          PROVE  offsets'[s] <= nextOffset'
      <3>1. CASE s = x
        <4>1. nextOffset \in Nat
          BY <1>1 DEF TypeOK
        <4> QED
          BY <1>2, <1>10, <3>1, <4>1 DEF Unset
      <3>2. CASE s # x
        <4>1. s \in ToSet(subscriptions) /\ s \in Sub
          BY <1>5, <2>3, <3>2
        <4> QED
          BY <1>1, <1>2, <1>8, <2>3, <3>2, <4>1 DEF AsksAgree
      <3> QED
        BY <3>1, <3>2
    <2> QED
      BY <2>1, <2>2, <2>3 DEF AsksAgree
  <1> QED
    BY <1>13, <1>14, <1>15, <1>16 DEF CaughtInv

\* A program that does not interrupt _replay unsubscribes when nothing is under way.
LEMMA UnsubscribeCaught ==
    ASSUME IInv, IInv', CaughtInv, ~Interrupts, NEW x \in Sub, Unsubscribe(x)
    PROVE  CaughtInv'
  <1> DEFINE req == [t |-> "unsubscribe", s |-> x]
  <1>1. /\ TypeOK /\ TypeOK' /\ OffsetsAgree /\ RequestsAgree
        /\ DueAgrees /\ CallsAgree /\ FramesEnd /\ AsksAgree
    BY DEF IInv, CaughtInv
  <1>2. /\ UNCHANGED <<durable, epoch, offsetBase, nextOffset, ring, subs, toClient, link,
                       seenEpoch, resumes, published, delivered, from, dropped,
                       returned>>
        /\ Unanswered(x) = {}
        /\ offsets' = [offsets EXCEPT ![x] = Unset] /\ replayOpts' = replayOpts \ {x}
    BY DEF Unsubscribe, brokerVars, ghosts
  <1>3. toBroker' = IF link = "down" THEN toBroker ELSE Append(toBroker, req)
    BY Zenon DEF Unsubscribe, Send
  <1>4. req \in ToBrokerMsg /\ req.t = "unsubscribe" /\ req.s = x
    BY DEF ToBrokerMsg
  <1> HIDE DEF req
  <1>5. /\ ToSet(subscriptions') = ToSet(subscriptions) \ {x}
        /\ ToSet(subscriptions) \subseteq Sub
    <2>1. PICK i \in DOMAIN subscriptions :
            subscriptions[i] = x /\ subscriptions' = RemoveAt(subscriptions, i)
      BY DEF Unsubscribe
    <2>2. /\ subscriptions \in Seq(Sub)
          /\ \A k, j \in DOMAIN subscriptions : subscriptions[k] = subscriptions[j] => k = j
      BY <1>1 DEF TypeOK, RequestsAgree
    <2> QED
      BY <2>1, <2>2, RemoveFacts, MembersFacts
  <1>6. ToSet(toBroker') \subseteq ToSet(toBroker) \cup {req}
    BY <1>1, <1>3, <1>4, SentFacts
  <1>7. /\ \A m \in ToSet(toBroker) : m.s # x
        /\ \A m \in ToSet(toClient) : m.t # "message" => m.s # x
        /\ \A r \in resumes : r.s # x
    BY <1>2 DEF Unanswered
  <1>8. /\ \A s \in Sub : Requests(s)' \subseteq Requests(s)
        /\ \A s \in Sub : AnswersFor(s)' = AnswersFor(s)
        /\ Requests(x) = {} /\ AnswersFor(x) = {}
        /\ \A s \in Sub : OwnMark(s)' => OwnMark(s)
    <2>1. \A s \in Sub : AnswersFor(s)' = AnswersFor(s)
      BY <1>2 DEF AnswersFor
    <2>2. AnswersFor(x) = {}
      BY <1>7 DEF AnswersFor
    <2>3. Requests(x) = {}
      BY <1>7 DEF Requests
    <2>4. \A s \in Sub : Requests(s)' \subseteq Requests(s)
      BY <1>4, <1>6 DEF Requests
    <2>5. \A s \in Sub : OwnMark(s)' => OwnMark(s)
      BY <1>2, <2>4 DEF OwnMark
    <2> QED
      BY <2>1, <2>2, <2>3, <2>4, <2>5
  <1>9. /\ offsets'[x] = Unset
        /\ \A s \in Sub : s # x => offsets'[s] = offsets[s] /\ Adopted'[s] = Adopted[s]
        /\ Adopted'[x] = Unset
    <2>1. offsets'[x] = Unset /\ \A s \in Sub : s # x => offsets'[s] = offsets[s]
      BY <1>1, <1>2 DEF TypeOK
    <2>2. \A s \in Sub : s # x => Adopted'[s] = Adopted[s]
      BY <1>2, <2>1 DEF Adopted
    <2>3. Adopted'[x] = Unset
      <3>1. offsetBase' \in Nat
        BY <1>1 DEF TypeOK
      <3>2. ~(offsets'[x] > offsetBase')
        BY <2>1, <3>1 DEF Unset
      <3> QED
        BY <2>1, <3>2 DEF Adopted
    <2> QED
      BY <2>1, <2>2, <2>3
  <1>10. ASSUME NEW s \in ToSet(subscriptions'), NEW m \in Due(s)'
         PROVE  /\ m.offset > Adopted'[s]
                /\ OwnMark(s)' => m.offset > offsets'[s]
                /\ link # "down" =>
                       IF s \in subs THEN OnItsWay(s, m)' ELSE \A q \in Requests(s)' : Asked(m, q)
    <2>1. s \in ToSet(subscriptions) /\ s \in Sub /\ s # x
      BY <1>5
    <2>2. m \in Due(s)
      BY <1>1, <1>2, <1>8, <2>1, DueKept
    <2>3. OnItsWay(s, m)' <=> OnItsWay(s, m)
      BY <1>2 DEF OnItsWay, IsFor
    <2> QED
      BY <1>1, <1>8, <1>9, <2>1, <2>2, <2>3 DEF DueAgrees
  <1>11. DueAgrees'
    BY <1>2, <1>10 DEF DueAgrees
  <1>12. CallsAgree'
    <2>1. ASSUME NEW s \in Sub, s \in ToSet(subscriptions')
          PROVE  /\ \A m \in ToSet(toBroker') : m.s = s => m.t = "subscribe"
                 /\ \A m \in ToSet(toClient') : m.t = "gone" => m.s # s
                 /\ s \notin subs' => AnswersFor(s)' = {}
      <3>1. s \in ToSet(subscriptions) /\ s # x
        BY <1>5, <2>1
      <3> QED
        BY <1>1, <1>2, <1>4, <1>6, <1>8, <3>1 DEF CallsAgree
    <2>2. ASSUME NEW s \in Sub, s \notin ToSet(subscriptions')
          PROVE  Requests(s)' = {} /\ AnswersFor(s)' = {} /\ offsets'[s] = Unset
      <3>1. CASE s = x
        BY <1>8, <1>9, <3>1
      <3>2. CASE s # x
        <4>1. s \notin ToSet(subscriptions)
          BY <1>5, <2>2, <3>2
        <4> QED
          BY <1>1, <1>8, <1>9, <3>2, <4>1 DEF CallsAgree
      <3> QED
        BY <3>1, <3>2
    <2> QED
      BY <2>1, <2>2 DEF CallsAgree
  <1>13. FramesEnd'
    BY <1>1, <1>2 DEF FramesEnd, IsFor
  <1>14. AsksAgree'
    <2>1. ASSUME NEW s \in ToSet(subscriptions')
          PROVE  /\ OwnMark(s)' => offsets'[s] <= nextOffset'
                 /\ offsets'[s] = Unset /\ s \notin replayOpts' => from'[s] = Unset
                 /\ \A q \in Requests(s)' :
                      /\ q.since <= nextOffset'
                      /\ s \notin subs' /\ q.since = Unset /\ ~q.replay => from'[s] = Unset
      <3>1. s \in ToSet(subscriptions) /\ s \in Sub /\ s # x
        BY <1>5
      <3>2. /\ OwnMark(s) => offsets[s] <= nextOffset
            /\ offsets[s] = Unset /\ s \notin replayOpts => from[s] = Unset
            /\ \A q \in Requests(s) :
                 /\ q.since <= nextOffset
                 /\ s \notin subs /\ q.since = Unset /\ ~q.replay => from[s] = Unset
        BY <1>1, <3>1 DEF AsksAgree
      <3> QED
        BY <1>2, <1>8, <1>9, <3>1, <3>2
    <2> QED
      BY <2>1 DEF AsksAgree
  <1> QED
    BY <1>11, <1>12, <1>13, <1>14 DEF CaughtInv

\* A message that is published is the only one that its channel retains anew.
LEMMA PublishRings ==
    ASSUME TypeOK, NEW ch \in Channel, NEW safe \in BOOLEAN, Publish(ch, safe)
    PROVE  \A c \in Channel : \A l \in ToSet(ring'[c]) :
               \/ l \in ToSet(ring[c])
               \/ c = ch /\ l = [offset |-> nextOffset + 1, id |-> published + 1, safe |-> safe]
  <1> DEFINE m == [offset |-> nextOffset + 1, id |-> published + 1, safe |-> safe]
  <1>1. ring' = [ring EXCEPT ![ch] = Retain(Append(@, m))] /\ ring \in [Channel -> Seq(Message)]
    BY DEF Publish, TypeOK
  <1>2. ToSet(Retain(Append(ring[ch], m))) \subseteq ToSet(ring[ch]) \cup {m}
    BY MintFacts
  <1> HIDE DEF m
  <1>3. \A c \in Channel :
          ring'[c] = IF c = ch THEN Retain(Append(ring[ch], m)) ELSE ring[c]
    BY <1>1
  <1>4. \A c \in Channel : \A l \in ToSet(ring'[c]) : l \in ToSet(ring[c]) \/ (c = ch /\ l = m)
    BY <1>2, <1>3
  <1> QED
    BY <1>4 DEF m

\* A message that is published is above every watermark and every answer.  It goes out
\* to the subscription that matches, is dropped, or is asked for by the requests on their
\* way.
LEMMA PublishCaught ==
    ASSUME IInv, IInv', CaughtInv, Apart, NEW ch \in Channel, NEW safe \in BOOLEAN,
           Publish(ch, safe)
    PROVE  CaughtInv'
  <1> DEFINE m == [offset |-> nextOffset + 1, id |-> published + 1, safe |-> safe]
             f == Frame(ch, m)
             n == Len(toClient)
  <1>1. /\ TypeOK /\ TypeOK' /\ OffsetsAgree
        /\ DueAgrees /\ CallsAgree /\ FramesEnd /\ AsksAgree
    BY DEF IInv, CaughtInv
  <1>2. /\ UNCHANGED <<durable, epoch, offsetBase, subs, toBroker, link, seenEpoch, subscriptions,
                       offsets, replayOpts, resumes, delivered, from, returned>>
        /\ nextOffset' = nextOffset + 1
    BY DEF Publish, clientVars
  <1>3. \/ /\ toClient' = Append(toClient, f) /\ \E s \in subs : ch \in MatchedBy(s)
           /\ UNCHANGED dropped
        \/ /\ toClient' = toClient
           /\ \/ m.id \in dropped' /\ dropped \subseteq dropped'
              \/ UNCHANGED dropped /\ ~\E s \in subs : ch \in MatchedBy(s)
    BY Zenon DEF Publish
  <1>4. /\ f \in ToClientMsg /\ f.t = "message" /\ f.ch = ch /\ f.offset = nextOffset + 1
        /\ f.id = m.id /\ m.offset = nextOffset + 1 /\ m.id = published + 1
        /\ nextOffset \in Nat /\ published \in Nat /\ n \in Nat
        /\ DOMAIN toClient = 1 .. n /\ \A i \in 1 .. n : toClient[i] \in ToSet(toClient)
    <2>1. m \in Message /\ m.offset = nextOffset + 1 /\ m.id = published + 1
      BY <1>1, MintFacts
    <2> HIDE DEF m
    <2>2. /\ f \in ToClientMsg /\ f.t = "message" /\ f.ch = ch /\ f.offset = m.offset
          /\ f.id = m.id
      BY <2>1, FrameFacts
    <2> HIDE DEF f
    <2>3. nextOffset \in Nat /\ published \in Nat /\ toClient \in Seq(ToClientMsg)
      BY <1>1 DEF TypeOK
    <2>4. n \in Nat /\ DOMAIN toClient = 1 .. n /\ \A i \in 1 .. n : toClient[i] \in ToSet(toClient)
      BY <2>3, LenProperties, MembersFacts
    <2> QED
      BY <2>1, <2>2, <2>3, <2>4
  <1>5. \A s \in Sub : \A l \in Retained(s)' :
          l \in Retained(s) \/ (ch \in MatchedBy(s) /\ l = m)
    <2>1. \A c \in Channel : \A l \in ToSet(ring'[c]) : l \in ToSet(ring[c]) \/ (c = ch /\ l = m)
      BY <1>1, PublishRings
    <2> HIDE DEF m
    <2> QED
      BY <2>1 DEF Retained, MatchedBy
  <1> HIDE DEF m, f, n
  <1>6. /\ n <= Len(toClient') /\ \A i \in 1 .. n : toClient'[i] = toClient[i]
        /\ toClient' # toClient =>
               Len(toClient') = n + 1 /\ toClient'[n + 1] = f
        /\ ToSet(toClient') \subseteq ToSet(toClient) \cup {f}
    <2>1. toClient \in Seq(ToClientMsg)
      BY <1>1 DEF TypeOK
    <2>2. CASE toClient' = toClient
      BY <1>4, <2>2 DEF n
    <2>3. CASE toClient' = Append(toClient, f)
      <3>1. f \in ToClientMsg
        BY <1>4
      <3>2. /\ Len(Append(toClient, f)) = n + 1 /\ Append(toClient, f)[n + 1] = f
            /\ \A i \in 1 .. n : Append(toClient, f)[i] = toClient[i]
            /\ ToSet(Append(toClient, f)) = ToSet(toClient) \cup {f}
        BY <2>1, <3>1, AppendFacts DEF n
      <3> QED
        BY <1>4, <2>3, <3>2
    <2> QED
      BY <1>3, <2>2, <2>3
  <1>7. /\ ToSet(subscriptions) \subseteq Sub /\ Adopted' = Adopted
        /\ \A s \in Sub : Requests(s)' = Requests(s)
        /\ \A s \in Sub : AnswersFor(s)' \subseteq AnswersFor(s)
        /\ \A s \in Sub : OwnMark(s)' <=> OwnMark(s)
    <2>1. \A s \in Sub : Requests(s)' = Requests(s)
      BY <1>2 DEF Requests
    <2>2. \A s \in Sub : AnswersFor(s)' \subseteq AnswersFor(s)
      BY <1>2, <1>4, <1>6 DEF AnswersFor
    <2>3. \A s \in Sub : OwnMark(s)' <=> OwnMark(s)
      BY <1>2, <2>1 DEF OwnMark
    <2> QED
      BY <1>1, <1>2, <2>1, <2>2, <2>3, AdoptedSame, MembersFacts DEF TypeOK
  \* What was due before.
  <1>8. ASSUME NEW s \in ToSet(subscriptions), NEW l \in Due(s)', l \in Retained(s)
        PROVE  /\ l.offset > Adopted[s] /\ (OwnMark(s) => l.offset > offsets[s])
               /\ link # "down" =>
                      IF s \in subs THEN OnItsWay(s, l)' ELSE \A q \in Requests(s) : Asked(l, q)
    <2>1. s \in Sub /\ l \in Due(s)
      <3>1. s \in Sub /\ dropped \subseteq dropped'
        BY <1>3, <1>7
      <3>2. /\ l.id \notin dropped' \cup returned' /\ l.id \notin ToSet(delivered'[s])
            /\ IF from'[s] # Unset THEN l.id > from'[s]
               ELSE \E r \in AnswersFor(s)' : l.id > r.from
        BY Zenon DEF Due
      <3> QED
        BY <1>2, <1>7, <1>8, <3>1, <3>2, DueFacts
    <2>2. OnItsWay(s, l) => OnItsWay(s, l)'
      BY <1>1, <1>2, <1>6, <2>1, OnItsWayKept DEF n
    <2> QED
      BY <1>1, <2>1, <2>2 DEF DueAgrees
  \* The message itself.
  <1>9. ASSUME NEW s \in ToSet(subscriptions), NEW l \in Due(s)', l = m, ch \in MatchedBy(s)
        PROVE  /\ l.offset > Adopted[s] /\ (OwnMark(s) => l.offset > offsets[s])
               /\ link # "down" =>
                      IF s \in subs THEN OnItsWay(s, l)' ELSE \A q \in Requests(s) : Asked(l, q)
    <2>1. s \in Sub /\ Adopted[s] \in Mark /\ Adopted[s] <= nextOffset
      BY <1>1, <1>7, AdoptedFacts DEF OffsetsAgree
    <2>2. l.offset > Adopted[s] /\ (OwnMark(s) => l.offset > offsets[s])
      <3>1. OwnMark(s) => offsets[s] <= nextOffset
        BY <1>1 DEF AsksAgree
      <3>2. offsets[s] \in Mark
        BY <1>1, <2>1 DEF TypeOK
      <3> QED
        BY <1>4, <1>9, <2>1, <3>1, <3>2 DEF Mark, Unset
    <2>3. ASSUME s \in subs
          PROVE  OnItsWay(s, l)'
      <3>1. l.id \notin dropped'
        BY <1>9 DEF Due
      <3>2. toClient' = Append(toClient, f)
        BY <1>3, <1>9, <2>3, <3>1
      <3>3. /\ DOMAIN toClient' = 1 .. n + 1 /\ toClient'[n + 1] = f
            /\ \A i \in 1 .. n : toClient'[i] = toClient[i]
        <4>1. toClient \in Seq(ToClientMsg)
          BY <1>1 DEF TypeOK
        <4>2. /\ toClient' \in Seq(ToClientMsg) /\ Len(toClient') = n + 1
              /\ toClient'[n + 1] = f
          BY <1>4, <3>2, <4>1, AppendFacts DEF n
        <4> QED
          BY <1>6, <4>2, LenProperties
      <3>4. \A k \in ToSet(toClient) :
              k.t = "message" \/ k.t = "ok" => k.offset \in Nat /\ k.offset < l.offset
        <4>1. \A k \in ToSet(toClient) : k \in ToClientMsg
          BY <1>1, MembersFacts DEF TypeOK
        <4>2. \A k \in ToSet(toClient) : k.t = "message" \/ k.t = "ok" => k.offset \in Nat
          BY <4>1, ToClientFacts
        <4>3. \A k \in ToSet(toClient) : k.t = "message" => k.offset <= nextOffset
          BY <1>1 DEF OffsetsAgree, Current
        <4>4. \A k \in ToSet(toClient) : k.t = "ok" => k.offset <= nextOffset
          BY <1>1 DEF OffsetsAgree
        <4> QED
          BY <1>4, <1>9, <4>2, <4>3, <4>4
      <3>5. \A r \in resumes' : r.offset < l.offset
        <4>1. \A r \in resumes : r.t = "ok" /\ r.offset \in Nat
          BY <1>1 DEF TypeOK, Answer
        <4>2. \A r \in resumes : r.offset <= nextOffset
          BY <1>1, <4>1 DEF OffsetsAgree
        <4> QED
          BY <1>2, <1>4, <1>9, <4>1, <4>2
      <3>6. n + 1 \in 1 .. n + 1 /\ \A j \in 1 .. n + 1 - 1 : j \in 1 .. n
        BY <1>4
      <3> DEFINE way(k) ==
                   /\ IsFor(s, toClient'[k]) /\ toClient'[k].offset = l.offset
                   /\ toClient'[k].id = l.id
                   /\ \A j \in 1 .. k - 1 :
                        IsFor(s, toClient'[j]) \/ (toClient'[j].t = "ok" /\ toClient'[j].s = s)
                            => toClient'[j].offset < l.offset
      <3>7. way(n + 1)
        <4>1. \A j \in 1 .. n + 1 - 1 : /\ toClient'[j] = toClient[j]
                                        /\ toClient[j] \in ToSet(toClient)
          BY <1>4, <3>3, <3>6
        <4>2. \A j \in 1 .. n + 1 - 1 :
                IsFor(s, toClient'[j]) \/ (toClient'[j].t = "ok" /\ toClient'[j].s = s)
                    => toClient'[j].offset < l.offset
          BY <3>4, <4>1 DEF IsFor
        <4> QED
          BY <1>4, <1>9, <3>3, <4>2 DEF IsFor
      <3> HIDE DEF way
      <3>8. \E k \in DOMAIN toClient' : way(k)
        BY <3>3, <3>6, <3>7
      <3> QED
        BY <3>5, <3>8 DEF OnItsWay, IsFor, way
    <2>4. ASSUME s \notin subs, NEW q \in Requests(s)
          PROVE  Asked(l, q)
      <3>1. from[s] # Unset
        <4>1. AnswersFor(s)' = {}
          BY <1>1, <1>7, <2>1, <2>4 DEF CallsAgree
        <4>2. from'[s] = Unset => \E r \in AnswersFor(s)' : l.id > r.from
          BY <1>9 DEF Due
        <4> QED
          BY <1>2, <4>1, <4>2
      <3>2. q.since <= nextOffset /\ (q.since = Unset => q.replay)
        BY <1>1, <2>4, <3>1 DEF AsksAgree
      <3>3. q.since \in Mark
        BY <1>1, MembersFacts, ToBrokerFacts DEF TypeOK, Requests
      <3> QED
        BY <1>4, <1>9, <3>2, <3>3 DEF Asked, Mark, Unset
    <2> QED
      BY <2>2, <2>3, <2>4
  <1>10. DueAgrees'
    <2>1. ASSUME NEW s \in ToSet(subscriptions), NEW l \in Due(s)'
          PROVE  /\ l.offset > Adopted[s] /\ (OwnMark(s) => l.offset > offsets[s])
                 /\ link # "down" =>
                        IF s \in subs THEN OnItsWay(s, l)' ELSE \A q \in Requests(s) : Asked(l, q)
      <3>1. s \in Sub /\ l \in Retained(s)'
        BY <1>7 DEF Due
      <3> QED
        BY <1>5, <1>8, <1>9, <3>1
    <2> QED
      BY <1>2, <1>7, <2>1 DEF DueAgrees
  <1>11. CallsAgree'
    <2>1. /\ \A k \in ToSet(toClient') : k.t = "gone" => k \in ToSet(toClient)
          /\ \A k \in ToSet(toClient') \cup resumes' : k.t = "ok" =>
               k \in ToSet(toClient) \cup resumes
      BY <1>2, <1>4, <1>6
    <2> QED
      BY <1>1, <1>2, <2>1, CallsKept
  <1>12. FramesEnd'
    <2>1. ASSUME NEW s \in Sub \ subs, NEW i \in 1 .. Len(toClient'), IsFor(s, toClient'[i])
          PROVE  i \in 1 .. n
      <3>1. CASE toClient' = toClient
        BY <3>1 DEF n
      <3>2. CASE toClient' # toClient
        <4>1. PICK t \in subs : ch \in MatchedBy(t)
          BY <1>3, <3>2
        <4>2. t \in Sub /\ t # s
          BY <1>1, <4>1 DEF TypeOK
        <4>3. ch \notin MatchedBy(s)
          BY <4>1, <4>2 DEF Apart
        <4>4. ~IsFor(s, f)
          BY <1>4, <4>3 DEF IsFor
        <4>5. i # n + 1 /\ i \in 1 .. n + 1
          BY <1>6, <2>1, <3>2, <4>4
        <4> QED
          BY <1>4, <4>5
      <3> QED
        BY <3>1, <3>2
    <2> QED
      BY <1>1, <1>2, <1>6, <2>1, FramesKept DEF n
  <1>13. AsksAgree'
    <2>1. \A s \in ToSet(subscriptions) : \A q \in Requests(s) :
            q.since <= nextOffset => q.since <= nextOffset'
      <3>1. \A s \in Sub : \A q \in Requests(s) : q.since \in Mark
        BY <1>1, MembersFacts, ToBrokerFacts DEF TypeOK, Requests
      <3> QED
        BY <1>2, <1>4, <1>7, <3>1 DEF Mark, Unset
    <2>2. ASSUME NEW s \in ToSet(subscriptions), OwnMark(s)'
          PROVE  OwnMark(s) /\ (offsets[s] <= nextOffset => offsets'[s] <= nextOffset')
      <3>1. s \in Sub /\ offsets[s] \in Mark
        BY <1>1, <1>7 DEF TypeOK
      <3> QED
        BY <1>2, <1>4, <1>7, <2>2, <3>1 DEF Mark, Unset
    <2>3. \A s \in ToSet(subscriptions) : Requests(s)' = Requests(s)
      BY <1>7
    <2> QED
      BY <1>1, <1>2, <2>1, <2>2, <2>3, AsksKept
  <1> QED
    BY <1>10, <1>11, <1>12, <1>13 DEF CaughtInv

\* What the client takes from the stream is due no longer, or is below what is due: the
\* watermark it sets covers nothing that is still on its way.
LEMMA ReceivesCaught ==
    ASSUME IInv, IInv', CaughtInv, ClientReceives
    PROVE  CaughtInv'
  <1> DEFINE h == Head(toClient)
             takers == {s \in ToSet(subscriptions) : h.ch \in MatchedBy(s) /\ Fresh(s, h)}
  <1>1. /\ TypeOK /\ TypeOK' /\ OffsetsAgree
        /\ DueAgrees /\ CallsAgree /\ FramesEnd /\ AsksAgree
    BY DEF IInv, CaughtInv
  <1>2. /\ UNCHANGED <<durable, epoch, offsetBase, nextOffset, ring, subs, toBroker,
                       seenEpoch, subscriptions, replayOpts, published, from, dropped, returned>>
        /\ toClient # <<>> /\ toClient' = Tail(toClient)
    BY DEF ClientReceives, brokerVars
  <1>3. /\ ToSet(toClient') \subseteq ToSet(toClient) /\ h \in ToSet(toClient)
        /\ h \in ToClientMsg /\ link # "down"
        /\ \A s \in Sub : /\ Adopted'[s] \in Mark /\ Adopted'[s] <= offsets'[s]
                          /\ offsets'[s] = offsets[s] => Adopted'[s] = Adopted[s]
    BY ReceivedFacts
  <1>4. \/ /\ h.t = "message" /\ resumes' = resumes
           /\ delivered' = [s \in Sub |->
                IF s \in takers THEN Append(delivered[s], h.id) ELSE delivered[s]]
           /\ offsets' = [s \in Sub |->
                IF s \in takers /\ h.offset > offsets[s] THEN h.offset ELSE offsets[s]]
        \/ h.t = "ok" /\ resumes' = resumes \cup {h} /\ UNCHANGED <<delivered, offsets>>
        \/ h.t \in {"gone", "welcome"} /\ UNCHANGED <<delivered, offsets, resumes>>
    BY Zenon DEF ClientReceives, Deliver
  <1>5. /\ ToSet(subscriptions) \subseteq Sub
        /\ \A s \in Sub : offsets[s] \in Mark /\ delivered[s] \in Seq(Nat)
        /\ h.t = "message" => h.offset \in Nat /\ h.id \in Nat
        /\ h.t = "message" => h.t # "ok"
    BY <1>1, <1>3, MembersFacts, ToClientFacts DEF TypeOK
  <1>6. \A s \in takers : s \in ToSet(subscriptions) /\ (h.t = "message" => IsFor(s, h))
    BY DEF IsFor
  <1>7. \A s \in ToSet(subscriptions) : h.t = "message" /\ IsFor(s, h) /\ h.offset > offsets[s]
          => s \in takers
    BY DEF IsFor, Fresh
  <1> HIDE DEF h, takers
  <1>8. ASSUME NEW s \in Sub
        PROVE  /\ ToSet(delivered[s]) \subseteq ToSet(delivered'[s])
               /\ h.t = "message" /\ s \in takers => h.id \in ToSet(delivered'[s])
               /\ s \notin takers \/ h.t # "message" => offsets'[s] = offsets[s]
               /\ \/ offsets'[s] = offsets[s]
                  \/ offsets'[s] = h.offset /\ h.t = "message" /\ s \in takers
    <2>1. CASE h.t = "message" /\ s \in takers
      <3>1. /\ delivered'[s] = Append(delivered[s], h.id)
            /\ offsets'[s] = IF h.offset > offsets[s] THEN h.offset ELSE offsets[s]
        BY <1>4, <2>1
      <3>2. ToSet(Append(delivered[s], h.id)) = ToSet(delivered[s]) \cup {h.id}
        BY <1>5, <2>1, AppendFacts
      <3> QED
        BY <2>1, <3>1, <3>2
    <2>2. CASE ~(h.t = "message" /\ s \in takers)
      <3>1. delivered'[s] = delivered[s] /\ offsets'[s] = offsets[s]
        BY <1>4, <2>2
      <3> QED
        BY <2>2, <3>1
    <2> QED
      BY <2>1, <2>2
  <1>9. \A m \in ToSet(toClient') \cup resumes' : m.t = "ok" => m \in ToSet(toClient) \cup resumes
    BY <1>3, <1>4
  <1>10. /\ \A s \in Sub : Requests(s)' = Requests(s) /\ AnswersFor(s)' \subseteq AnswersFor(s)
         /\ \A s \in Sub : OwnMark(s)' <=> OwnMark(s)
    BY <1>2, <1>9 DEF Requests, AnswersFor, OwnMark
  \* The broker has the subscriptions whose frames the client gets.
  <1>11. \A s \in takers : h.t = "message" => s \in subs
    <2>1. ASSUME NEW s \in takers, h.t = "message", s \notin subs
          PROVE  FALSE
      <3>1. s \in ToSet(subscriptions) /\ s \in Sub /\ IsFor(s, h)
        BY <1>5, <1>6, <2>1
      <3>2. /\ DOMAIN toClient = 1 .. Len(toClient) /\ 1 \in DOMAIN toClient
            /\ toClient[1] = h /\ Len(toClient) \in Nat
        BY <1>1, <1>2, TailFacts, LenProperties DEF TypeOK, h
      <3>3. PICK j \in 1 + 1 .. Len(toClient) : toClient[j].t = "gone" /\ toClient[j].s = s
        BY <1>1, <2>1, <3>1, <3>2 DEF FramesEnd
      <3>4. toClient[j] \in ToSet(toClient)
        BY <3>2, <3>3 DEF ToSet
      <3> QED
        BY <1>1, <3>1, <3>3, <3>4 DEF CallsAgree
    <2> QED
      BY <2>1
  <1>12. ASSUME NEW s \in ToSet(subscriptions), NEW m \in Due(s)'
         PROVE  /\ m.offset > Adopted'[s] /\ (OwnMark(s) => m.offset > offsets'[s])
                /\ IF s \in subs THEN OnItsWay(s, m)' ELSE \A q \in Requests(s) : Asked(m, q)
    <2>1. s \in Sub
      BY <1>5
    <2>2. m \in Due(s)
      BY <1>1, <1>2, <1>8, <1>10, <2>1, DueKept
    <2>3. /\ m.offset > Adopted[s] /\ (OwnMark(s) => m.offset > offsets[s])
          /\ IF s \in subs THEN OnItsWay(s, m) ELSE \A q \in Requests(s) : Asked(m, q)
      BY <1>1, <1>3, <2>1, <2>2 DEF DueAgrees
    <2>4. m.id \notin ToSet(delivered'[s])
      BY DEF Due
    <2>5. s \in subs => ~(IsFor(s, h) /\ h.offset = m.offset /\ h.id = m.id)
      <3>1. ASSUME s \in subs, IsFor(s, h), h.offset = m.offset, h.id = m.id
            PROVE  FALSE
        <4>1. h.t = "message" /\ m.offset > offsets[s]
          BY <2>3, <3>1 DEF IsFor, OwnMark
        <4>2. s \in takers
          BY <1>7, <3>1, <4>1
        <4> QED
          BY <1>8, <2>1, <2>4, <3>1, <4>1, <4>2
      <3> QED
        BY <3>1
    <2>6. ASSUME s \in subs
          PROVE  OnItsWay(s, m)' /\ (IsFor(s, h) => h.offset < m.offset)
      <3>1. \A r \in resumes' : r \in resumes \/ (r = h /\ r.t = "ok")
        BY <1>4
      <3> QED
        BY <1>1, <1>2, <2>1, <2>3, <2>5, <2>6, <3>1, OnItsWayTaken DEF h
    <2>7. m.offset \in Nat
      BY <1>1, <2>1, <2>2, DueFacts, RetainedFacts
    <2>8. m.offset > Adopted'[s] /\ (OwnMark(s) => m.offset > offsets'[s])
      <3>1. CASE offsets'[s] = offsets[s]
        <4>1. Adopted'[s] = Adopted[s]
          BY <1>3, <2>1, <3>1
        <4> QED
          BY <2>3, <3>1, <4>1
      <3>2. CASE offsets'[s] = h.offset /\ h.t = "message" /\ s \in takers
        <4>1. h.offset < m.offset /\ h.offset \in Nat
          BY <1>5, <1>6, <1>11, <2>6, <3>2
        <4>2. Adopted'[s] \in Mark /\ Adopted'[s] <= offsets'[s]
          BY <1>3, <2>1
        <4> QED
          BY <2>7, <3>2, <4>1, <4>2 DEF Mark, Unset
      <3> QED
        BY <1>8, <2>1, <3>1, <3>2
    <2> QED
      BY <2>3, <2>6, <2>8
  <1>13. DueAgrees'
    BY <1>2, <1>3, <1>5, <1>10, <1>12 DEF DueAgrees
  <1>14. CallsAgree'
    <2>1. \A s \in Sub : s \notin ToSet(subscriptions) => offsets'[s] = offsets[s]
      BY <1>6, <1>8
    <2> QED
      BY <1>1, <1>2, <1>3, <1>9, <2>1, CallsKept
  <1>15. FramesEnd'
    BY <1>1, <1>2, FramesTaken
  <1>16. AsksAgree'
    <2>1. \A s \in ToSet(subscriptions) : offsets'[s] = Unset => offsets[s] = Unset
      BY <1>5, <1>8 DEF Unset
    <2>2. \A s \in ToSet(subscriptions) : Requests(s)' = Requests(s)
      BY <1>5, <1>10
    <2>3. ASSUME NEW s \in ToSet(subscriptions), OwnMark(s)'
          PROVE  \/ OwnMark(s) /\ (offsets[s] <= nextOffset => offsets'[s] <= nextOffset')
                 \/ offsets'[s] <= nextOffset'
      <3>1. s \in Sub
        BY <1>5
      <3>2. h.t = "message" => h.offset <= nextOffset
        BY <1>1, <1>3 DEF OffsetsAgree, Current
      <3> QED
        BY <1>2, <1>8, <1>10, <2>3, <3>1, <3>2
    <2> QED
      BY <1>1, <1>2, <2>1, <2>2, <2>3, AsksKept
  <1> QED
    BY <1>13, <1>14, <1>15, <1>16 DEF CaughtInv

\* A sequence that two others follow.
LEMMA FollowedFacts ==
    ASSUME NEW S, NEW q \in Seq(S), NEW b \in Seq(S), NEW x \in S
    PROVE  /\ Len(q \o b \o <<x>>) = Len(q) + Len(b) + 1 /\ Len(q) \in Nat /\ Len(b) \in Nat
           /\ \A i \in 1 .. Len(q) : (q \o b \o <<x>>)[i] = q[i]
           /\ \A i \in 1 .. Len(b) : (q \o b \o <<x>>)[Len(q) + i] = b[i]
           /\ (q \o b \o <<x>>)[Len(q) + Len(b) + 1] = x
  <1> DEFINE p == q \o b
             y == <<x>>
             w == p \o y
             n == Len(q)
             k == Len(b)
  <1>1. n \in Nat /\ k \in Nat
    BY LenProperties
  <1>2. /\ p \in Seq(S) /\ Len(p) = n + k
        /\ \A i \in 1 .. n + k : p[i] = IF i <= n THEN q[i] ELSE b[i - n]
    BY ConcatProperties
  <1>3. y \in Seq(S) /\ Len(y) = 1 /\ y[1] = x
    OBVIOUS
  <1> HIDE DEF p, n, k, y
  <1>4. /\ Len(w) = Len(p) + Len(y)
        /\ \A i \in 1 .. Len(p) + Len(y) : w[i] = IF i <= Len(p) THEN p[i] ELSE y[i - Len(p)]
    BY <1>2, <1>3, ConcatProperties
  <1> HIDE DEF w
  <1>5. /\ Len(w) = n + k + 1
        /\ \A i \in 1 .. n + k + 1 : w[i] = IF i <= n + k THEN p[i] ELSE y[i - (n + k)]
    BY <1>2, <1>3, <1>4
  <1>6. \A i \in 1 .. n : w[i] = q[i]
    <2>1. \A i \in 1 .. n : i \in 1 .. n + k /\ i \in 1 .. n + k + 1 /\ i <= n + k /\ i <= n
      BY <1>1
    <2> QED
      BY <1>2, <1>5, <2>1
  <1>7. ASSUME NEW i \in 1 .. k
        PROVE  w[n + i] = b[i]
    <2> DEFINE l == n + i
    <2>1. l \in 1 .. n + k /\ l \in 1 .. n + k + 1 /\ l <= n + k /\ ~(l <= n) /\ l - n = i
      BY <1>1
    <2> HIDE DEF l
    <2>2. w[l] = p[l] /\ p[l] = b[i]
      BY <1>2, <1>5, <2>1
    <2> QED
      BY <2>2 DEF l
  <1>8. w[n + k + 1] = x
    <2> DEFINE l == n + k + 1
    <2>1. l \in 1 .. n + k + 1 /\ ~(l <= n + k) /\ l - (n + k) = 1
      BY <1>1
    <2> HIDE DEF l
    <2>2. w[l] = y[1]
      BY <1>5, <2>1
    <2> QED
      BY <1>3, <2>2 DEF l
  <1> QED
    BY <1>1, <1>5, <1>6, <1>7, <1>8 DEF w, p, n, k, y

\* A SUBSCRIBE of a subscription that the broker did not have puts all that is due on its
\* way: the request asked for it, and nothing before it in the stream is for the subscription.
LEMMA SubscribedCaught ==
    ASSUME IInv, IInv', CaughtInv, Apart, BrokerReceives, Head(toBroker).t = "subscribe",
           Subscribed(Head(toBroker))
    PROVE  CaughtInv'
  <1> DEFINE req == Head(toBroker)
             ok == [t |-> "ok", s |-> req.s, by |-> req.by, offset |-> nextOffset,
                    from |-> published]
             b == Backlog(req)
             n == Len(toClient)
             k == Len(b)
  <1>1. /\ TypeOK /\ TypeOK' /\ OffsetsAgree /\ LinkAgrees
        /\ DueAgrees /\ CallsAgree /\ FramesEnd /\ AsksAgree
    BY DEF IInv, CaughtInv
  <1>2. /\ UNCHANGED <<durable, epoch, offsetBase, nextOffset, ring, link, seenEpoch,
                       subscriptions, offsets, replayOpts, resumes, published, delivered, from,
                       dropped, returned>>
        /\ toBroker # <<>> /\ toBroker' = Tail(toBroker)
    BY DEF BrokerReceives, brokerVars, clientVars, ghosts
  <1>3. /\ req \in ToBrokerMsg /\ req \in ToSet(toBroker) /\ req.t = "subscribe" /\ req.s \in Sub
        /\ req.by \in {"subscribe", "replay"}
        /\ ToSet(toBroker') \subseteq ToSet(toBroker)
    BY <1>1, <1>2, TailFacts, ToBrokerFacts DEF TypeOK
  <1>4. subs' = subs \cup {req.s} /\ toClient' = toClient \o b \o <<ok>>
    BY Zenon DEF Subscribed
  <1> HIDE DEF req
  <1>5. /\ ok \in ToClientMsg /\ ok.t = "ok" /\ ok.s = req.s /\ ok.from = published
    BY <1>1, <1>3 DEF ToClientMsg, Answer, TypeOK
  <1> HIDE DEF ok
  <1>6. /\ b \in Seq(ToClientMsg)
        /\ \A f \in ToSet(b) : f.t = "message" /\ f.ch \in MatchedBy(req.s)
    BY <1>1, BacklogFacts, BacklogOrder
  <1>7. \A m \in Retained(req.s) : Asked(m, req) =>
          \E i \in 1 .. k :
            /\ IsFor(req.s, b[i]) /\ b[i].offset = m.offset /\ b[i].id = m.id
            /\ \A j \in 1 .. i - 1 : b[j].offset < m.offset
    BY <1>1, BacklogOrder
  <1> HIDE DEF b
  <1>8. toClient \in Seq(ToClientMsg)
    BY <1>1 DEF TypeOK
  <1>9. /\ Len(toClient') = n + k + 1 /\ n \in Nat /\ k \in Nat
        /\ \A i \in 1 .. n : toClient'[i] = toClient[i]
        /\ \A i \in 1 .. k : toClient'[n + i] = b[i]
        /\ toClient'[n + k + 1] = ok
    BY <1>4, <1>5, <1>6, <1>8, FollowedFacts
  <1>10. /\ DOMAIN toClient' = 1 .. n + k + 1 /\ DOMAIN toClient = 1 .. n
         /\ \A i \in 1 .. n : toClient[i] \in ToSet(toClient)
         /\ \A i \in 1 .. k : b[i] \in ToSet(b)
    BY <1>1, <1>6, <1>8, <1>9, LenProperties, MembersFacts DEF TypeOK
  <1> HIDE DEF n, k
  <1>11. \A i \in 1 .. n + k + 1 :
           i \in 1 .. n \/ (i - n \in 1 .. k /\ n + (i - n) = i) \/ i = n + k + 1
    BY <1>9
  <1>12. \A m \in ToSet(toClient') : m \in ToSet(toClient) \/ m \in ToSet(b) \/ m = ok
    <2>1. \A i \in 1 .. n + k + 1 :
            toClient'[i] \in ToSet(toClient) \/ toClient'[i] \in ToSet(b) \/ toClient'[i] = ok
      <3> TAKE i \in 1 .. n + k + 1
      <3>1. CASE i \in 1 .. n
        BY <1>9, <1>10, <3>1
      <3>2. CASE i - n \in 1 .. k /\ n + (i - n) = i
        <4>1. toClient'[n + (i - n)] = b[i - n]
          BY <1>9, <3>2
        <4> QED
          BY <1>10, <3>2, <4>1
      <3>3. CASE i = n + k + 1
        BY <1>9, <3>3
      <3> QED
        BY <1>11, <3>1, <3>2, <3>3
    <2>2. \A m \in ToSet(toClient') : \E i \in 1 .. n + k + 1 : m = toClient'[i]
      BY <1>10, Zenon DEF ToSet
    <2> QED
      BY <2>1, <2>2
  <1>13. req \in Requests(req.s) /\ req.s \in ToSet(subscriptions)
    <2>1. req \in Requests(req.s)
      BY <1>3 DEF Requests
    <2> QED
      BY <1>1, <1>3, <2>1 DEF CallsAgree
  <1>14. /\ ToSet(subscriptions) \subseteq Sub /\ Adopted' = Adopted
         /\ link # "down" /\ subs \subseteq Sub
         /\ \A s \in Sub : Requests(s)' \subseteq Requests(s) /\ (OwnMark(s)' => OwnMark(s))
    <2>1. \A s \in Sub : Requests(s)' \subseteq Requests(s)
      BY <1>3 DEF Requests
    <2>2. \A s \in Sub : OwnMark(s)' => OwnMark(s)
      BY <1>2, <1>4, <1>13, <2>1 DEF OwnMark
    <2> QED
      BY <1>1, <1>2, <2>1, <2>2, AdoptedSame, MembersFacts DEF TypeOK, LinkAgrees
  <1>15. \A m \in ToSet(toClient') \cup resumes' : m.t = "ok" =>
           m \in ToSet(toClient) \cup resumes \/ m = ok
    BY <1>2, <1>6, <1>12
  <1>16. \A s \in Sub : \A r \in AnswersFor(s)' : r \in AnswersFor(s) \/ r.from = published
    BY <1>5, <1>15 DEF AnswersFor
  \* What the request asked for.
  <1>17. ASSUME req.s \notin subs, NEW m \in Due(req.s)
         PROVE  \E i \in DOMAIN toClient' :
                  /\ IsFor(req.s, toClient'[i])
                  /\ toClient'[i].offset = m.offset /\ toClient'[i].id = m.id
                  /\ \A j \in 1 .. i - 1 :
                       (\/ IsFor(req.s, toClient'[j])
                        \/ toClient'[j].t = "ok" /\ toClient'[j].s = req.s)
                           => toClient'[j].offset < m.offset
    <2>1. m \in Retained(req.s) /\ Asked(m, req)
      <3>1. Asked(m, req)
        BY <1>1, <1>13, <1>14, <1>17 DEF DueAgrees
      <3> QED
        BY <1>3, <1>17, <3>1, DueFacts
    <2>2. PICK i \in 1 .. k :
            /\ IsFor(req.s, b[i]) /\ b[i].offset = m.offset /\ b[i].id = m.id
            /\ \A j \in 1 .. i - 1 : b[j].offset < m.offset
      BY <1>7, <2>1
    <2>3. \A j \in 1 .. n : ~IsFor(req.s, toClient[j])
                            /\ ~(toClient[j].t = "ok" /\ toClient[j].s = req.s)
      <3> TAKE j \in 1 .. n
      <3>1. \A g \in ToSet(toClient) : g.t = "gone" => g.s # req.s
        BY <1>1, <1>3, <1>13 DEF CallsAgree
      <3>2. ~IsFor(req.s, toClient[j])
        <4>1. ASSUME IsFor(req.s, toClient[j])
              PROVE  FALSE
          <5>1. PICK l \in j + 1 .. n : toClient[l].t = "gone" /\ toClient[l].s = req.s
            BY <1>1, <1>3, <1>10, <1>17, <4>1 DEF FramesEnd, n
          <5>2. toClient[l] \in ToSet(toClient)
            BY <1>9, <1>10, <5>1
          <5> QED
            BY <3>1, <5>1, <5>2
        <4> QED
          BY <4>1
      <3>3. ~(toClient[j].t = "ok" /\ toClient[j].s = req.s)
        <4>1. AnswersFor(req.s) = {}
          BY <1>1, <1>3, <1>13, <1>17 DEF CallsAgree
        <4> QED
          BY <1>10, <4>1 DEF AnswersFor
      <3> QED
        BY <3>2, <3>3
    <2> DEFINE l == n + i
    <2>4. l \in DOMAIN toClient' /\ toClient'[l] = b[i]
      BY <1>9, <1>10
    <2>5. \A j \in 1 .. l - 1 :
            j \in 1 .. n \/ (j - n \in 1 .. i - 1 /\ j - n \in 1 .. k /\ n + (j - n) = j)
      BY <1>9
    <2> HIDE DEF l
    <2>6. ASSUME NEW j \in 1 .. l - 1,
                 IsFor(req.s, toClient'[j]) \/ (toClient'[j].t = "ok" /\ toClient'[j].s = req.s)
          PROVE  toClient'[j].offset < m.offset
      <3>1. j \notin 1 .. n
        BY <1>9, <2>3, <2>6
      <3>2. toClient'[n + (j - n)] = b[j - n]
        BY <1>9, <2>5, <3>1
      <3> QED
        BY <2>2, <2>5, <3>1, <3>2
    <2> QED
      BY <2>2, <2>4, <2>6
  <1>18. ASSUME NEW s \in ToSet(subscriptions), NEW m \in Due(s)'
         PROVE  /\ m.offset > Adopted[s] /\ (OwnMark(s) => m.offset > offsets[s])
                /\ IF s \in subs' THEN OnItsWay(s, m)' ELSE \A q \in Requests(s) : Asked(m, q)
    <2>1. s \in Sub
      BY <1>14
    <2>2. m \in Due(s)
      BY <1>1, <1>2, <1>16, <2>1, DueKept
    <2>3. /\ m.offset > Adopted[s] /\ (OwnMark(s) => m.offset > offsets[s])
          /\ IF s \in subs THEN OnItsWay(s, m) ELSE \A q \in Requests(s) : Asked(m, q)
      BY <1>1, <1>14, <2>2 DEF DueAgrees
    <2>4. ASSUME s \in subs
          PROVE  OnItsWay(s, m)'
      <3>1. Len(toClient) <= Len(toClient')
        BY <1>9 DEF n
      <3>2. \A i \in 1 .. Len(toClient) : toClient'[i] = toClient[i]
        BY <1>9 DEF n
      <3> QED
        BY <1>1, <1>2, <2>1, <2>3, <2>4, <3>1, <3>2, OnItsWayKept
    <2>5. ASSUME s \notin subs, s = req.s
          PROVE  OnItsWay(s, m)'
      <3>1. \A r \in resumes : r.t = "ok"
        BY <1>1 DEF TypeOK, Answer
      <3>2. AnswersFor(s) = {}
        BY <1>1, <2>1, <2>5 DEF CallsAgree
      <3>3. \A r \in resumes' : r.s # s
        BY <1>2, <3>1, <3>2 DEF AnswersFor
      <3> DEFINE way(i) ==
                   /\ IsFor(s, toClient'[i])
                   /\ toClient'[i].offset = m.offset /\ toClient'[i].id = m.id
                   /\ \A j \in 1 .. i - 1 :
                        IsFor(s, toClient'[j]) \/ (toClient'[j].t = "ok" /\ toClient'[j].s = s)
                            => toClient'[j].offset < m.offset
      <3>4. \E i \in DOMAIN toClient' : way(i)
        BY <1>17, <2>2, <2>5
      <3> QED
        BY <3>3, <3>4 DEF OnItsWay, IsFor
    <2> QED
      BY <1>4, <2>3, <2>4, <2>5
  <1>19. DueAgrees'
    BY <1>2, <1>14, <1>18 DEF DueAgrees
  <1>20. CallsAgree'
    <2>1. /\ \A m \in ToSet(toClient') : m.t = "gone" => m \in ToSet(toClient)
          /\ \A m \in ToSet(toClient') \cup resumes' : m.t = "ok" =>
               m \in ToSet(toClient) \cup resumes \/ (m.s \in ToSet(subscriptions) /\ m.s \in subs')
      BY <1>4, <1>5, <1>6, <1>12, <1>13, <1>15
    <2> QED
      BY <1>1, <1>2, <1>3, <1>4, <2>1, CallsKept
  <1>21. FramesEnd'
    <2>1. ASSUME NEW s \in Sub \ subs', NEW i \in 1 .. Len(toClient'), IsFor(s, toClient'[i])
          PROVE  s \notin subs /\ i \in 1 .. Len(toClient)
      <3>1. s \notin subs /\ s # req.s
        BY <1>4
      <3>2. \A f \in ToSet(b) : ~IsFor(s, f)
        BY <1>3, <1>6, <3>1 DEF Apart, IsFor
      <3>3. ~IsFor(s, ok)
        BY <1>5 DEF IsFor
      <3>4. i \in 1 .. n + k + 1 /\ i # n + k + 1
        BY <1>9, <2>1, <3>3
      <3>5. CASE i - n \in 1 .. k /\ n + (i - n) = i
        <4>1. toClient'[n + (i - n)] = b[i - n]
          BY <1>9, <3>5
        <4> QED
          BY <1>10, <2>1, <3>2, <3>5, <4>1
      <3> QED
        BY <1>11, <3>1, <3>4, <3>5 DEF n
    <2>2. Len(toClient) <= Len(toClient')
      BY <1>9 DEF n
    <2>3. \A i \in 1 .. Len(toClient) : toClient'[i] = toClient[i]
      BY <1>9 DEF n
    <2> QED
      BY <1>1, <2>1, <2>2, <2>3, FramesKept
  <1>22. AsksAgree'
    <2>1. \A s \in ToSet(subscriptions) : Requests(s)' \subseteq Requests(s)
      BY <1>14
    <2>2. \A s \in ToSet(subscriptions) : OwnMark(s)' => OwnMark(s)
      BY <1>14
    <2> QED
      BY <1>1, <1>2, <1>4, <2>1, <2>2, AsksKept
  <1> QED
    BY <1>19, <1>20, <1>21, <1>22 DEF CaughtInv

\* An UNSUBSCRIBE is for what is no subscription, and its answer ends the frames for it.
LEMMA UnsubscribedCaught ==
    ASSUME IInv, IInv', CaughtInv, BrokerReceives, Head(toBroker).t = "unsubscribe",
           Unsubscribed(Head(toBroker))
    PROVE  CaughtInv'
  <1> DEFINE req == Head(toBroker)
             gone == [t |-> "gone", s |-> req.s]
             n == Len(toClient)
  <1>1. /\ TypeOK /\ TypeOK' /\ OffsetsAgree
        /\ DueAgrees /\ CallsAgree /\ FramesEnd /\ AsksAgree
    BY DEF IInv, CaughtInv
  <1>2. /\ UNCHANGED <<durable, epoch, offsetBase, nextOffset, ring, link, seenEpoch,
                       subscriptions, offsets, replayOpts, resumes, published, delivered, from,
                       dropped, returned>>
        /\ toBroker # <<>> /\ toBroker' = Tail(toBroker)
    BY DEF BrokerReceives, brokerVars, clientVars, ghosts
  <1>3. /\ req \in ToBrokerMsg /\ req \in ToSet(toBroker) /\ req.t = "unsubscribe"
        /\ req.s \in Sub /\ ToSet(toBroker') \subseteq ToSet(toBroker)
    BY <1>1, <1>2, TailFacts, ToBrokerFacts DEF TypeOK
  <1>4. subs' = subs \ {req.s} /\ toClient' = Append(toClient, gone)
    BY Zenon DEF Unsubscribed
  <1> HIDE DEF req
  <1>5. gone \in ToClientMsg /\ gone.t = "gone" /\ gone.s = req.s
    BY <1>3 DEF ToClientMsg
  <1> HIDE DEF gone
  <1>6. /\ Len(toClient') = n + 1 /\ n \in Nat /\ toClient'[n + 1] = gone
        /\ \A i \in 1 .. n : toClient'[i] = toClient[i]
        /\ ToSet(toClient') = ToSet(toClient) \cup {gone}
    <2>1. toClient \in Seq(ToClientMsg)
      BY <1>1 DEF TypeOK
    <2> QED
      BY <1>4, <1>5, <2>1, AppendFacts
  <1> HIDE DEF n
  <1>7. req.s \notin ToSet(subscriptions)
    BY <1>1, <1>3 DEF CallsAgree
  <1>8. /\ ToSet(subscriptions) \subseteq Sub /\ Adopted' = Adopted
        /\ \A s \in Sub : Requests(s)' \subseteq Requests(s)
        /\ \A s \in Sub : AnswersFor(s)' \subseteq AnswersFor(s)
        /\ \A s \in Sub : OwnMark(s)' => OwnMark(s)
    <2>1. \A s \in Sub : Requests(s)' \subseteq Requests(s)
      BY <1>3 DEF Requests
    <2>2. \A s \in Sub : AnswersFor(s)' \subseteq AnswersFor(s)
      BY <1>2, <1>5, <1>6 DEF AnswersFor
    <2>3. \A s \in Sub : OwnMark(s)' => OwnMark(s)
      BY <1>2, <1>4, <2>1 DEF OwnMark
    <2> QED
      BY <1>1, <1>2, <2>1, <2>2, <2>3, AdoptedSame, MembersFacts DEF TypeOK
  <1>9. /\ Len(toClient) <= Len(toClient')
        /\ \A i \in 1 .. Len(toClient) : toClient'[i] = toClient[i]
        /\ \A s \in ToSet(subscriptions) : s \in subs' <=> s \in subs
    BY <1>4, <1>6, <1>7 DEF n
  <1>10. ASSUME NEW s \in ToSet(subscriptions), NEW m \in Due(s)'
         PROVE  /\ m.offset > Adopted[s] /\ (OwnMark(s) => m.offset > offsets[s])
                /\ link # "down" =>
                       IF s \in subs THEN OnItsWay(s, m)' ELSE \A q \in Requests(s) : Asked(m, q)
    <2>1. s \in Sub
      BY <1>8
    <2>2. m \in Due(s)
      BY <1>1, <1>2, <1>8, <2>1, DueKept
    <2>3. OnItsWay(s, m) => OnItsWay(s, m)'
      BY <1>1, <1>2, <1>9, <2>1, OnItsWayKept
    <2> QED
      BY <1>1, <2>2, <2>3 DEF DueAgrees
  <1>11. DueAgrees'
    BY <1>2, <1>8, <1>9, <1>10 DEF DueAgrees
  <1>12. CallsAgree'
    <2>1. /\ \A m \in ToSet(toClient') : m.t = "gone" =>
               m \in ToSet(toClient) \/ m.s \notin ToSet(subscriptions)
          /\ \A m \in ToSet(toClient') \cup resumes' : m.t = "ok" =>
               m \in ToSet(toClient) \cup resumes
      BY <1>2, <1>5, <1>6, <1>7
    <2> QED
      BY <1>1, <1>2, <1>3, <1>9, <2>1, CallsKept
  <1>13. FramesEnd'
    <2>1. ASSUME NEW s \in Sub \ subs', NEW i \in 1 .. Len(toClient'), IsFor(s, toClient'[i])
          PROVE  \/ s \notin subs /\ i \in 1 .. Len(toClient)
                 \/ \E j \in i + 1 .. Len(toClient') : toClient'[j].t = "gone" /\ toClient'[j].s = s
      <3>1. i \in 1 .. n
        <4>1. ~IsFor(s, gone)
          BY <1>5 DEF IsFor
        <4>2. i # n + 1 /\ i \in 1 .. n + 1
          BY <1>6, <2>1, <4>1
        <4> QED
          BY <1>6, <4>2
      <3>2. CASE s = req.s
        <4>1. n + 1 \in i + 1 .. Len(toClient')
          BY <1>6, <3>1
        <4> QED
          BY <1>5, <1>6, <3>2, <4>1
      <3>3. CASE s # req.s
        BY <1>4, <3>1, <3>3 DEF n
      <3> QED
        BY <3>2, <3>3
    <2> QED
      BY <1>1, <1>9, <2>1, FramesKept
  <1>14. AsksAgree'
    <2>1. \A s \in ToSet(subscriptions) : Requests(s)' \subseteq Requests(s)
      BY <1>8
    <2>2. \A s \in ToSet(subscriptions) : OwnMark(s)' => OwnMark(s)
      BY <1>8
    <2> QED
      BY <1>1, <1>2, <1>9, <2>1, <2>2, AsksKept
  <1> QED
    BY <1>11, <1>12, <1>13, <1>14 DEF CaughtInv

\* WELCOME says nothing about subscriptions.
LEMMA GreetedCaught ==
    ASSUME IInv, IInv', CaughtInv, BrokerReceives, Head(toBroker).t = "hello", Greeted
    PROVE  CaughtInv'
  <1> DEFINE welcome == [t |-> "welcome", s |-> NoSub]
             n == Len(toClient)
  <1>1. /\ TypeOK /\ TypeOK' /\ OffsetsAgree
        /\ DueAgrees /\ CallsAgree /\ FramesEnd /\ AsksAgree
    BY DEF IInv, CaughtInv
  <1>2. /\ UNCHANGED <<durable, epoch, offsetBase, nextOffset, ring, link, seenEpoch, subs,
                       subscriptions, offsets, replayOpts, resumes, published, delivered, from,
                       dropped, returned>>
        /\ toBroker # <<>> /\ toBroker' = Tail(toBroker)
        /\ toClient' = Append(toClient, welcome)
    BY DEF BrokerReceives, Greeted, brokerVars, clientVars, ghosts
  <1>3. ToSet(toBroker') \subseteq ToSet(toBroker)
    BY <1>1, <1>2, TailFacts DEF TypeOK
  <1>4. welcome \in ToClientMsg /\ welcome.t = "welcome"
    BY DEF ToClientMsg
  <1> HIDE DEF welcome
  <1>5. /\ Len(toClient') = n + 1 /\ n \in Nat /\ toClient'[n + 1] = welcome
        /\ \A i \in 1 .. n : toClient'[i] = toClient[i]
        /\ ToSet(toClient') = ToSet(toClient) \cup {welcome}
    <2>1. toClient \in Seq(ToClientMsg)
      BY <1>1 DEF TypeOK
    <2> QED
      BY <1>2, <1>4, <2>1, AppendFacts
  <1> HIDE DEF n
  <1>6. /\ ToSet(subscriptions) \subseteq Sub /\ Adopted' = Adopted
        /\ \A s \in Sub : Requests(s)' \subseteq Requests(s)
        /\ \A s \in Sub : AnswersFor(s)' \subseteq AnswersFor(s)
        /\ \A s \in Sub : OwnMark(s)' => OwnMark(s)
    <2>1. \A s \in Sub : Requests(s)' \subseteq Requests(s)
      BY <1>3 DEF Requests
    <2>2. \A s \in Sub : AnswersFor(s)' \subseteq AnswersFor(s)
      BY <1>2, <1>4, <1>5 DEF AnswersFor
    <2>3. \A s \in Sub : OwnMark(s)' => OwnMark(s)
      BY <1>2, <2>1 DEF OwnMark
    <2> QED
      BY <1>1, <1>2, <2>1, <2>2, <2>3, AdoptedSame, MembersFacts DEF TypeOK
  <1>7. /\ Len(toClient) <= Len(toClient')
        /\ \A i \in 1 .. Len(toClient) : toClient'[i] = toClient[i]
    BY <1>5 DEF n
  <1>8. ASSUME NEW s \in ToSet(subscriptions), NEW m \in Due(s)'
        PROVE  /\ m.offset > Adopted[s] /\ (OwnMark(s) => m.offset > offsets[s])
               /\ link # "down" =>
                      IF s \in subs THEN OnItsWay(s, m)' ELSE \A q \in Requests(s) : Asked(m, q)
    <2>1. s \in Sub
      BY <1>6
    <2>2. m \in Due(s)
      BY <1>1, <1>2, <1>6, <2>1, DueKept
    <2>3. OnItsWay(s, m) => OnItsWay(s, m)'
      BY <1>1, <1>2, <1>7, <2>1, OnItsWayKept
    <2> QED
      BY <1>1, <2>2, <2>3 DEF DueAgrees
  <1>9. DueAgrees'
    BY <1>2, <1>6, <1>8 DEF DueAgrees
  <1>10. CallsAgree'
    <2>1. /\ \A m \in ToSet(toClient') : m.t = "gone" => m \in ToSet(toClient)
          /\ \A m \in ToSet(toClient') \cup resumes' : m.t = "ok" => m \in ToSet(toClient) \cup resumes
      BY <1>2, <1>4, <1>5
    <2> QED
      BY <1>1, <1>2, <1>3, <2>1, CallsKept
  <1>11. FramesEnd'
    <2>1. ASSUME NEW s \in Sub \ subs', NEW i \in 1 .. Len(toClient'), IsFor(s, toClient'[i])
          PROVE  s \notin subs /\ i \in 1 .. Len(toClient)
      <3>1. ~IsFor(s, welcome)
        BY <1>4 DEF IsFor
      <3>2. i # n + 1 /\ i \in 1 .. n + 1
        BY <1>5, <2>1, <3>1
      <3> QED
        BY <1>2, <1>5, <3>2 DEF n
    <2> QED
      BY <1>1, <1>7, <2>1, FramesKept
  <1>12. AsksAgree'
    <2>1. \A s \in ToSet(subscriptions) :
            Requests(s)' \subseteq Requests(s) /\ (OwnMark(s)' => OwnMark(s))
      BY <1>6
    <2> QED
      BY <1>1, <1>2, <2>1, AsksKept
  <1> QED
    BY <1>9, <1>10, <1>11, <1>12 DEF CaughtInv

LEMMA InitCaught == Init => CaughtInv
  <1> SUFFICES ASSUME Init
               PROVE  CaughtInv
    OBVIOUS
  <1>1. /\ toBroker = <<>> /\ toClient = <<>> /\ subscriptions = <<>> /\ resumes = {}
        /\ \A s \in Sub : offsets[s] = Unset
        /\ seenEpoch = Unset
    BY DEF Init
  <1>2. ToSet(toBroker) = {} /\ ToSet(toClient) = {} /\ ToSet(subscriptions) = {}
    BY <1>1 DEF ToSet
  <1>3. DueAgrees
    BY <1>2 DEF DueAgrees
  <1>4. CallsAgree
    BY <1>1, <1>2 DEF CallsAgree, Requests, AnswersFor
  <1>5. FramesEnd
    BY <1>1 DEF FramesEnd
  <1>6. AsksAgree
    BY <1>1, <1>2 DEF AsksAgree
  <1> QED
    BY <1>3, <1>4, <1>5, <1>6 DEF CaughtInv

LEMMA StutterCaught ==
    ASSUME CaughtInv, UNCHANGED vars
    PROVE  CaughtInv'
  <1> USE DEF vars, brokerVars, clientVars, bounds, ghosts
  <1>1. DueAgrees'
    <2>1. \A s : /\ Due(s)' = Due(s) /\ Requests(s)' = Requests(s)
                 /\ OwnMark(s)' <=> OwnMark(s)
      BY DEF Due, Retained, AnswersFor, Requests, OwnMark
    <2>2. \A s, m : OnItsWay(s, m)' <=> OnItsWay(s, m)
      BY DEF OnItsWay, IsFor
    <2>3. Adopted' = Adopted
      BY AdoptedSame
    <2> QED
      BY <2>1, <2>2, <2>3 DEF CaughtInv, DueAgrees
  <1>2. CallsAgree' /\ FramesEnd'
    BY DEF CaughtInv, CallsAgree, FramesEnd, IsFor, Requests, AnswersFor
  <1>3. AsksAgree'
    BY DEF CaughtInv, AsksAgree, Requests, OwnMark
  <1> QED
    BY <1>1, <1>2, <1>3 DEF CaughtInv

\* Every step keeps CaughtInv.
LEMMA CaughtNext ==
    ASSUME IInv, IInv', CaughtInv, Next, ~Interrupts, Apart
    PROVE  CaughtInv'
  <1>1. ASSUME NEW ch \in Channel, Prune(ch) \/ \E safe \in BOOLEAN : Publish(ch, safe)
        PROVE  CaughtInv'
    BY <1>1, PruneCaught, PublishCaught
  <1>2. ASSUME NEW s \in Sub, Unsubscribe(s) \/ \E replay \in BOOLEAN : Subscribe(s, replay)
        PROVE  CaughtInv'
    BY <1>2, UnsubscribeCaught, SubscribeCaught
  <1>3. CASE BrokerReceives
    <2>1. \/ Head(toBroker).t = "hello" /\ Greeted
          \/ Head(toBroker).t = "subscribe" /\ Subscribed(Head(toBroker))
          \/ Head(toBroker).t = "unsubscribe" /\ Unsubscribed(Head(toBroker))
      BY <1>3, Zenon DEF BrokerReceives
    <2> QED
      BY <1>3, <2>1, GreetedCaught, SubscribedCaught, UnsubscribedCaught
  <1> QED
    BY <1>1, <1>2, <1>3, PruneCaught, ResumeCaught, ReceivesCaught, OpenCaught, AdoptCaught,
       ReplayCaught, BreakCaught, RestartCaught DEF Next

-----------------------------------------------------------------------------
(* The results.                                                            *)

LEMMA StutterStep ==
    ASSUME IInv, UNCHANGED vars
    PROVE  IInv'
  <1> USE DEF vars, brokerVars, clientVars, bounds, ghosts
  <1>1. TypeOK' /\ LinkAgrees' /\ HandshakeAgrees' /\ InOrderOnce'
    BY DEF IInv, TypeOK, LinkAgrees, HandshakeAgrees, InOrderOnce
  <1>2. Current' = Current /\ Adopted' = Adopted
    BY AdoptedSame DEF Current, Held, Logged
  <1>3. OffsetsAgree' /\ WatermarksAgree'
    BY <1>2 DEF IInv, OffsetsAgree, RingsAgree, WatermarksAgree, Logged
  <1>4. RequestsAgree'
    BY RequestsSame DEF IInv
  <1> QED
    BY <1>1, <1>3, <1>4 DEF IInv

\* The invariant that the results below rest on holds of the client and the broker over
\* handshakes, lost links, restarts, replays and calls in any order: it is inductive.
THEOREM Inductive == Spec => []IInv
  <1>1. IInv /\ [Next]_vars => IInv'
    <2> SUFFICES ASSUME IInv, [Next]_vars
                 PROVE  IInv'
      OBVIOUS
    <2>1. CASE Next
      BY <2>1, NextTypes, LinkNext, HandshakeNext, OffsetsNext, OrderNext, RequestsNext DEF IInv
    <2> QED
      BY <2>1, StutterStep
  <1> QED
    BY <1>1, InitIInv, PTL DEF Spec

\* The state keeps the shape that the code gives it: the streams carry the frames of the
\* protocol, and the tables of the client and the broker have their keys.
THEOREM TypeCorrect == Spec => []TypeOK
  <1>1. IInv => TypeOK
    BY DEF IInv
  <1> QED
    BY <1>1, Inductive, PTL

\* A handler gets messages in the order of their publication and none twice, whatever the
\* subscriptions, also those that overlap and those that end while _replay is under way:
\* all but those that were given a message of another incarnation before its epoch was
\* adopted (early), for which the code does not keep this.
THEOREM DeliveredInOrder == Spec => []InOrderOnce
  <1>1. IInv => InOrderOnce
    BY DEF IInv
  <1> QED
    BY <1>1, Inductive, PTL

\* A client past its handshake has no watermark above what its broker has minted:
\* _adoptEpoch lowers those that another incarnation would not reach for long, whatever
\* came before it in the chunk of WELCOME.
THEOREM WatermarksMinted == Spec => []WatermarkIsMinted
  <1>1. IInv => WatermarkIsMinted
    BY AdoptedFacts DEF IInv, OffsetsAgree, WatermarkIsMinted
  <1> QED
    BY <1>1, Inductive, PTL

\* Once settled, client and broker agree on the subscriptions, whatever the program
\* subscribed and unsubscribed to while _replay resubscribed.
THEOREM SubscriptionsSettle == Spec => []SubscriptionsAgree
  <1>1. ASSUME IInv
        PROVE  SubscriptionsAgree
    <2> SUFFICES ASSUME Settled
                 PROVE  subs = ToSet(subscriptions)
      BY DEF SubscriptionsAgree
    <2>1. link = "up" /\ toBroker = <<>>
      BY DEF Settled
    <2>2. \A s \in Sub : WillHave(s) <=> s \in subs
      BY <2>1 DEF WillHave
    <2>3. ToSet(subscriptions) \subseteq Sub /\ subs \subseteq Sub
      BY <1>1, MembersFacts DEF IInv, TypeOK
    <2>4. \A s \in Sub : s \in subs <=> s \in ToSet(subscriptions)
      BY <1>1, <2>1, <2>2 DEF IInv, RequestsAgree
    <2> QED
      BY <2>3, <2>4
  <1>2. IInv => SubscriptionsAgree
    BY <1>1
  <1> QED
    BY <1>2, Inductive, PTL

\* Once the client has settled, each subscription has been given what is retained of the
\* messages it is owed, whatever broke, restarted and was replayed before: all but those
\* dropped under back-pressure and those that a restart brought back after they were
\* evicted; and where the program does not unsubscribe while _replay resubscribes, and no
\* two subscriptions match one channel.
THEOREM CaughtUpHolds ==
    ASSUME ~Interrupts, Apart
    PROVE  Spec => []CaughtUp
  <1>1. IInv /\ IInv' /\ CaughtInv /\ [Next]_vars => CaughtInv'
    <2> SUFFICES ASSUME IInv, IInv', CaughtInv, [Next]_vars
                 PROVE  CaughtInv'
      OBVIOUS
    <2>1. CASE Next
      BY <2>1, CaughtNext
    <2> QED
      BY <2>1, StutterCaught
  <1>2. ASSUME IInv, CaughtInv
        PROVE  CaughtUp
    <2> SUFFICES ASSUME Settled, NEW s \in ToSet(subscriptions), NEW m \in Retained(s),
                        from[s] # Unset, m.id > from[s], m.id \notin dropped \cup returned,
                        m.id \notin ToSet(delivered[s])
                 PROVE  FALSE
      BY DEF CaughtUp
    <2>1. link = "up" /\ toBroker = <<>> /\ toClient = <<>>
      BY DEF Settled
    <2>2. s \in Sub
      BY <1>2, MembersFacts DEF IInv, TypeOK
    <2>3. s \in subs
      BY <1>2, <2>1, <2>2 DEF IInv, RequestsAgree, WillHave
    <2>4. m \in Due(s)
      BY <2>2, DueFacts
    <2>5. OnItsWay(s, m)
      BY <1>2, <2>1, <2>2, <2>3, <2>4 DEF CaughtInv, DueAgrees
    <2> QED
      BY <2>1, <2>5 DEF OnItsWay
  <1>3. IInv /\ CaughtInv => CaughtUp
    BY <1>2
  <1> QED
    BY <1>1, <1>3, InitCaught, Inductive, PTL DEF Spec
=============================================================================
