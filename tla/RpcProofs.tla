----------------------------- MODULE RpcProofs -----------------------------
(***************************************************************************)
(* Proofs about Rpc, for any clients, calls, sessions and restarts: a call *)
(* is settled once, its answer is its own, and the counts of the workers   *)
(* follow the pending table.                                               *)
(***************************************************************************)
EXTENDS Rpc, FiniteSetTheorems, SequenceTheorems, TLAPS

-----------------------------------------------------------------------------
(* Sequences and streams.                                                  *)

LEMMA AppendFacts ==
    ASSUME NEW S, NEW q \in Seq(S), NEW m \in S
    PROVE  /\ Append(q, m) \in Seq(S)
           /\ DOMAIN Append(q, m) = 1 .. Len(q) + 1 /\ DOMAIN q = 1 .. Len(q) /\ Len(q) \in Nat
           /\ \A i \in DOMAIN q : Append(q, m)[i] = q[i]
           /\ Append(q, m)[Len(q) + 1] = m
  <1>1. /\ Append(q, m) \in Seq(S) /\ Len(Append(q, m)) = Len(q) + 1
        /\ \A i \in 1 .. Len(q) : Append(q, m)[i] = q[i]
        /\ Append(q, m)[Len(q) + 1] = m
        /\ Len(q) \in Nat
    BY AppendProperties
  <1> QED
    BY <1>1

LEMMA TailFacts ==
    ASSUME NEW S, NEW q \in Seq(S), q # <<>>
    PROVE  /\ Head(q) = q[1] /\ 1 \in DOMAIN q /\ Head(q) \in S /\ Tail(q) \in Seq(S)
           /\ \A i \in DOMAIN Tail(q) : i \in Nat \ {0} /\ i + 1 \in DOMAIN q /\ Tail(q)[i] = q[i + 1]
  <1>1. /\ Head(q) \in S /\ Head(q) = q[1] /\ Tail(q) \in Seq(S) /\ Len(Tail(q)) = Len(q) - 1
        /\ \A i \in 1 .. Len(Tail(q)) : Tail(q)[i] = q[i + 1]
        /\ Len(q) \in Nat /\ Len(q) >= 1
    BY HeadTailProperties
  <1> QED
    BY <1>1

\* New streams hold no more about a call than the old ones.
NoMore(old, new, t, k) ==
    /\ AtMostOne(old, t, k) => AtMostOne(new, t, k)
    /\ Nowhere(old, t, k) => Nowhere(new, t, k)

\* What becomes of the messages about a call when a stream of new has a part
\* of what that of old has, in its order.
Part(old, new) ==
    \A s \in Session : \E d \in Nat : \A i \in DOMAIN new[s] :
        i \in Nat /\ i + d \in DOMAIN old[s] /\ new[s][i] = old[s][i + d]

LEMMA PartFacts ==
    ASSUME NEW old, NEW new, Part(old, new), NEW t, NEW k
    PROVE  NoMore(old, new, t, k)
  <1>1. Nowhere(old, t, k) => Nowhere(new, t, k)
    BY DEF Part, Nowhere
  <1>2. ASSUME AtMostOne(old, t, k), NEW s \in Session, NEW r \in Session,
               NEW i \in DOMAIN new[s], NEW j \in DOMAIN new[r],
               Matches(new[s][i], t, k), Matches(new[r][j], t, k)
        PROVE  s = r /\ i = j
    <2>1. PICK d \in Nat : \A x \in DOMAIN new[s] :
            x \in Nat /\ x + d \in DOMAIN old[s] /\ new[s][x] = old[s][x + d]
      BY DEF Part
    <2>2. PICK e \in Nat : \A x \in DOMAIN new[r] :
            x \in Nat /\ x + e \in DOMAIN old[r] /\ new[r][x] = old[r][x + e]
      BY DEF Part
    <2>3. s = r
      BY <1>2, <2>1, <2>2 DEF AtMostOne
    <2>4. i + d = j + d
      BY <1>2, <2>1, <2>3 DEF AtMostOne
    <2> QED
      BY <2>1, <2>3, <2>4
  <1> QED
    BY <1>1, <1>2 DEF AtMostOne, NoMore

\* A message m is put at the end of stream s.
Longer(S, old, new, s, m) ==
    /\ new \in [Session -> Seq(S)]
    /\ \A r \in Session : r # s => new[r] = old[r]
    /\ \A r \in Session : \A i \in DOMAIN new[r] :
        \/ i \in DOMAIN old[r] /\ new[r][i] = old[r][i]
        \/ r = s /\ new[r][i] = m
    /\ \A t, k : ~Matches(m, t, k) => NoMore(old, new, t, k)
    /\ \A t, k : Nowhere(old, t, k) => AtMostOne(new, t, k)

LEMMA PutFacts ==
    ASSUME NEW S, NEW old \in [Session -> Seq(S)], NEW s \in Session, NEW m \in S,
           NEW new, new = [old EXCEPT ![s] = Append(old[s], m)]
    PROVE  Longer(S, old, new, s, m)
  <1>1. /\ Append(old[s], m) \in Seq(S)
        /\ DOMAIN Append(old[s], m) = 1 .. Len(old[s]) + 1
        /\ DOMAIN old[s] = 1 .. Len(old[s]) /\ Len(old[s]) \in Nat
        /\ \A i \in DOMAIN old[s] : Append(old[s], m)[i] = old[s][i]
        /\ Append(old[s], m)[Len(old[s]) + 1] = m
    BY AppendFacts
  <1>2. new \in [Session -> Seq(S)] /\ new[s] = Append(old[s], m)
        /\ \A r \in Session : r # s => new[r] = old[r]
    BY <1>1
  <1>3. \A r \in Session : \A i \in DOMAIN new[r] :
          \/ i \in DOMAIN old[r] /\ new[r][i] = old[r][i]
          \/ r = s /\ new[r][i] = m /\ i = Len(old[s]) + 1
    BY <1>1, <1>2
  <1>4. \A t, k : ~Matches(m, t, k) => NoMore(old, new, t, k)
    BY <1>3, SMTT(30) DEF NoMore, AtMostOne, Nowhere
  <1>5. \A t, k : Nowhere(old, t, k) => AtMostOne(new, t, k)
    BY <1>3, SMTT(30) DEF AtMostOne, Nowhere
  <1> QED
    BY <1>2, <1>3, <1>4, <1>5 DEF Longer

\* The message at the head of stream s is taken.
Shorter(S, old, new, s) ==
    /\ new \in [Session -> Seq(S)]
    /\ \A r \in Session : r # s => new[r] = old[r]
    /\ 1 \in DOMAIN old[s] /\ Head(old[s]) = old[s][1] /\ Head(old[s]) \in S
    /\ \A r \in Session : \A i \in DOMAIN new[r] : \E j \in DOMAIN old[r] : new[r][i] = old[r][j]
    /\ \A t, k : NoMore(old, new, t, k)
    /\ \A t, k : AtMostOne(old, t, k) /\ Matches(Head(old[s]), t, k) => Nowhere(new, t, k)

LEMMA TakeFacts ==
    ASSUME NEW S, NEW old \in [Session -> Seq(S)], NEW s \in Session, old[s] # <<>>,
           NEW new, new = [old EXCEPT ![s] = Tail(old[s])]
    PROVE  Shorter(S, old, new, s)
  <1>1. /\ Head(old[s]) = old[s][1] /\ 1 \in DOMAIN old[s] /\ Head(old[s]) \in S
        /\ Tail(old[s]) \in Seq(S)
        /\ \A i \in DOMAIN Tail(old[s]) : /\ i \in Nat \ {0} /\ i + 1 \in DOMAIN old[s]
                                          /\ Tail(old[s])[i] = old[s][i + 1]
    BY TailFacts
  <1>2. new \in [Session -> Seq(S)] /\ new[s] = Tail(old[s])
        /\ \A r \in Session : r # s => new[r] = old[r]
    BY <1>1
  <1>3. \A r \in Session : \A i \in DOMAIN new[r] :
          \/ r # s /\ i \in DOMAIN old[r] /\ i \in Nat /\ new[r][i] = old[r][i]
          \/ r = s /\ i \in Nat \ {0} /\ i + 1 \in DOMAIN old[s] /\ new[r][i] = old[r][i + 1]
    <2>1. \A r \in Session : DOMAIN old[r] \subseteq Nat
      OBVIOUS
    <2> QED
      BY <1>1, <1>2, <2>1
  <1>4. \A r \in Session : \A i \in DOMAIN new[r] : \E j \in DOMAIN old[r] : new[r][i] = old[r][j]
    BY <1>3
  <1>5. Part(old, new)
    <2> SUFFICES ASSUME NEW r \in Session
                 PROVE  \E d \in Nat : \A i \in DOMAIN new[r] :
                          i \in Nat /\ i + d \in DOMAIN old[r] /\ new[r][i] = old[r][i + d]
      BY DEF Part
    <2>1. CASE r = s
      <3>1. 1 \in Nat
        OBVIOUS
      <3> QED
        BY <1>3, <2>1, <3>1
    <2>2. CASE r # s
      <3>1. \A i \in Nat : i + 0 = i
        OBVIOUS
      <3>2. \A i \in DOMAIN new[r] : i \in Nat /\ i + 0 \in DOMAIN old[r] /\ new[r][i] = old[r][i + 0]
        BY <1>3, <2>2, <3>1
      <3> QED
        BY <3>2
    <2> QED
      BY <2>1, <2>2
  <1>6. ASSUME NEW t, NEW k, AtMostOne(old, t, k), Matches(Head(old[s]), t, k)
        PROVE  Nowhere(new, t, k)
    <2> SUFFICES ASSUME NEW r \in Session, NEW i \in DOMAIN new[r], Matches(new[r][i], t, k)
                 PROVE  FALSE
      BY DEF Nowhere
    <2>1. CASE r # s
      BY <1>1, <1>3, <1>6, <2>1 DEF AtMostOne
    <2>2. CASE r = s
      <3>1. i + 1 \in DOMAIN old[s] /\ Matches(old[s][i + 1], t, k) /\ Matches(old[s][1], t, k)
        BY <1>1, <1>3, <1>6, <2>2
      <3>2. i + 1 = 1
        BY <1>1, <1>6, <3>1, Zenon DEF AtMostOne
      <3> QED
        BY <1>3, <2>2, <3>2
    <2> QED
      BY <2>1, <2>2
  <1> QED
    BY <1>1, <1>2, <1>4, <1>5, <1>6, PartFacts DEF Shorter

\* Some streams end, the others stay.
Fewer(old, new) ==
    /\ \A r \in Session : \A i \in DOMAIN new[r] : i \in DOMAIN old[r] /\ new[r][i] = old[r][i]
    /\ \A t, k : NoMore(old, new, t, k)

LEMMA DropFacts ==
    ASSUME NEW S, NEW old \in [Session -> Seq(S)], NEW new \in [Session -> Seq(S)],
           \A s \in Session : new[s] = old[s] \/ new[s] = <<>>
    PROVE  Fewer(old, new)
  <1>1. <<>> \in Seq(S) /\ DOMAIN <<>> = {}
    OBVIOUS
  <1>3. \A r \in Session : \A i \in DOMAIN new[r] :
          i \in DOMAIN old[r] /\ i \in Nat /\ new[r][i] = old[r][i]
    <2>1. \A r \in Session : DOMAIN old[r] \subseteq Nat
      OBVIOUS
    <2> QED
      BY <1>1, <2>1
  <1>4. Part(old, new)
    <2>1. \A i \in Nat : i + 0 = i
      OBVIOUS
    <2>2. \A r \in Session : \A i \in DOMAIN new[r] :
            i \in Nat /\ i + 0 \in DOMAIN old[r] /\ new[r][i] = old[r][i + 0]
      BY <1>3, <2>1
    <2> QED
      BY <2>2 DEF Part
  <1> QED
    BY <1>3, <1>4, PartFacts DEF Fewer

-----------------------------------------------------------------------------
(* The operators of the broker.                                            *)

LEMMA RemoveAtFacts ==
    ASSUME NEW S, NEW q \in Seq(S), NEW n \in DOMAIN q
    PROVE  /\ RemoveAt(q, n) \in Seq(S)
           /\ DOMAIN RemoveAt(q, n) = 1 .. Len(q) - 1
           /\ \A i \in 1 .. Len(q) - 1 : RemoveAt(q, n)[i] = IF i < n THEN q[i] ELSE q[i + 1]
  <1>1. n \in 1 .. Len(q) /\ Len(q) \in Nat
    OBVIOUS
  <1> DEFINE a == SubSeq(q, 1, n - 1)
             b == SubSeq(q, n + 1, Len(q))
  <1>2. /\ a \in Seq(S) /\ Len(a) = n - 1
        /\ \A i \in 1 .. n - 1 : a[i] = q[i]
    <2>1. 1 \in Int /\ n - 1 \in Int /\ \A i \in 1 .. n - 1 : q[i] \in S
      BY <1>1
    <2>2. /\ a \in Seq(S) /\ Len(a) = IF 1 <= n - 1 THEN n - 1 - 1 + 1 ELSE 0
          /\ \A i \in 1 .. n - 1 - 1 + 1 : a[i] = q[1 + i - 1]
      BY <2>1, SubSeqProperties
    <2> HIDE DEF a
    <2> QED
      BY <1>1, <2>2
  <1>3. /\ b \in Seq(S) /\ Len(b) = Len(q) - n
        /\ \A i \in 1 .. Len(q) - n : b[i] = q[n + i]
    <2>1. n + 1 \in Int /\ Len(q) \in Int /\ \A i \in n + 1 .. Len(q) : q[i] \in S
      BY <1>1
    <2>2. /\ b \in Seq(S) /\ Len(b) = IF n + 1 <= Len(q) THEN Len(q) - (n + 1) + 1 ELSE 0
          /\ \A i \in 1 .. Len(q) - (n + 1) + 1 : b[i] = q[n + 1 + i - 1]
      BY <2>1, SubSeqProperties
    <2> HIDE DEF b
    <2> QED
      BY <1>1, <2>2
  <1> HIDE DEF a, b
  <1>4. /\ a \o b \in Seq(S) /\ Len(a \o b) = Len(q) - 1
        /\ \A i \in 1 .. Len(q) - 1 : (a \o b)[i] = IF i <= n - 1 THEN a[i] ELSE b[i - (n - 1)]
    <2>1. Len(a) + Len(b) = Len(q) - 1
      BY <1>1, <1>2, <1>3
    <2>2. /\ a \o b \in Seq(S) /\ Len(a \o b) = Len(a) + Len(b)
          /\ \A i \in 1 .. Len(a) + Len(b) :
               (a \o b)[i] = IF i <= Len(a) THEN a[i] ELSE b[i - Len(a)]
      BY <1>2, <1>3, ConcatProperties
    <2> QED
      BY <1>2, <2>1, <2>2
  <1> DEFINE c == a \o b
  <1>7. /\ c \in Seq(S) /\ Len(c) = Len(q) - 1
        /\ \A i \in 1 .. Len(q) - 1 : c[i] = IF i <= n - 1 THEN a[i] ELSE b[i - (n - 1)]
    BY <1>4
  <1> HIDE DEF c
  <1>5. \A i \in 1 .. Len(q) - 1 : c[i] = IF i < n THEN q[i] ELSE q[i + 1]
    <2> SUFFICES ASSUME NEW i \in 1 .. Len(q) - 1
                 PROVE  c[i] = IF i < n THEN q[i] ELSE q[i + 1]
      OBVIOUS
    <2>1. CASE i < n
      BY <1>1, <1>2, <1>7, <2>1
    <2>2. CASE ~(i < n)
      <3>1. i - (n - 1) \in 1 .. Len(q) - n /\ n + (i - (n - 1)) = i + 1
        BY <1>1, <2>2
      <3>2. b[i - (n - 1)] = q[i + 1]
        BY <1>3, <3>1
      <3>3. c[i] = b[i - (n - 1)]
        BY <1>1, <1>7, <2>2
      <3> QED
        BY <1>1, <1>3, <1>7, <2>2, <3>1, <3>2, <3>3
    <2> QED
      BY <2>1, <2>2
  <1>6. RemoveAt(q, n) = c
    BY DEF RemoveAt, a, b, c
  <1>8. DOMAIN c = 1 .. Len(q) - 1
    BY <1>7
  <1> QED
    BY <1>5, <1>6, <1>7, <1>8

\* A worker that leaves is the only one that does.
LEMMA RemainingFacts ==
    ASSUME IInv, NEW s \in Session
    PROVE  /\ Remaining(s) \in Seq(Session)
           /\ ToSet(Remaining(s)) = ToSet(workers) \ {s}
           /\ \A i, j \in DOMAIN Remaining(s) : Remaining(s)[i] = Remaining(s)[j] => i = j
  <1>1. workers \in Seq(Session) /\ \A i, j \in DOMAIN workers : workers[i] = workers[j] => i = j
    BY DEF IInv, TypeOK, WorkersServe
  <1>2. CASE s \notin ToSet(workers)
    BY <1>1, <1>2 DEF Remaining
  <1>3. CASE s \in ToSet(workers)
    <2> DEFINE n == CHOOSE i \in DOMAIN workers : workers[i] = s
               q == Remaining(s)
    <2>1. n \in DOMAIN workers /\ workers[n] = s
      BY <1>3 DEF ToSet
    <2>2. q = RemoveAt(workers, n)
      BY <1>3 DEF Remaining
    <2> HIDE DEF n, q
    <2>3. /\ q \in Seq(Session) /\ DOMAIN q = 1 .. Len(workers) - 1
          /\ \A i \in DOMAIN q : q[i] = IF i < n THEN workers[i] ELSE workers[i + 1]
      BY <1>1, <2>1, <2>2, RemoveAtFacts
    <2>4. Len(workers) \in Nat /\ DOMAIN workers = 1 .. Len(workers) /\ n \in 1 .. Len(workers)
      BY <1>1, <2>1
    <2>5. \A i, j \in DOMAIN q : q[i] = q[j] => i = j
      <3> SUFFICES ASSUME NEW i \in DOMAIN q, NEW j \in DOMAIN q, q[i] = q[j] PROVE i = j
        OBVIOUS
      <3>1. /\ i \in DOMAIN workers /\ i + 1 \in DOMAIN workers
            /\ j \in DOMAIN workers /\ j + 1 \in DOMAIN workers
        BY <2>3, <2>4
      <3>2. CASE i < n /\ j < n
        BY <1>1, <2>3, <3>1, <3>2
      <3>3. CASE i < n /\ ~(j < n)
        <4>1. i = j + 1
          BY <1>1, <2>3, <3>1, <3>3
        <4> QED
          BY <2>3, <2>4, <3>3, <4>1
      <3>4. CASE ~(i < n) /\ j < n
        <4>1. j = i + 1
          BY <1>1, <2>3, <3>1, <3>4
        <4> QED
          BY <2>3, <2>4, <3>4, <4>1
      <3>5. CASE ~(i < n) /\ ~(j < n)
        <4>1. i + 1 = j + 1
          BY <1>1, <2>3, <3>1, <3>5
        <4> QED
          BY <2>3, <2>4, <4>1
      <3> QED
        BY <3>2, <3>3, <3>4, <3>5
    <2>6. ASSUME NEW i \in DOMAIN q
          PROVE  q[i] \in ToSet(workers) \ {s}
      <3>1. CASE i < n
        BY <1>1, <2>1, <2>3, <2>4, <3>1 DEF ToSet
      <3>2. CASE ~(i < n)
        <4>1. i + 1 \in DOMAIN workers /\ i + 1 # n /\ q[i] = workers[i + 1]
          BY <2>3, <2>4, <3>2
        <4> QED
          BY <1>1, <2>1, <4>1 DEF ToSet
      <3> QED
        BY <3>1, <3>2
    <2>7. ASSUME NEW w \in ToSet(workers) \ {s}
          PROVE  \E i \in DOMAIN q : q[i] = w
      <3>1. PICK j \in DOMAIN workers : workers[j] = w /\ j # n
        BY <2>1, <2>7 DEF ToSet
      <3>2. CASE j < n
        <4>1. j \in DOMAIN q /\ q[j] = w
          BY <2>3, <2>4, <3>1, <3>2
        <4> QED
          BY <4>1
      <3>3. CASE ~(j < n)
        <4>1. j - 1 \in DOMAIN q /\ ~(j - 1 < n) /\ j - 1 + 1 = j
          BY <2>3, <2>4, <3>1, <3>3
        <4> QED
          BY <2>3, <3>1, <4>1
      <3> QED
        BY <3>2, <3>3
    <2>8. ToSet(q) = ToSet(workers) \ {s}
      BY <2>6, <2>7 DEF ToSet
    <2> QED
      BY <2>3, <2>5, <2>8 DEF q
  <1> QED
    BY <1>2, <1>3

LEMMA NatMin ==
    ASSUME NEW T, T \subseteq Nat, T # {}
    PROVE  \E x \in T : \A y \in T : x <= y
  <1> DEFINE R == {ss \in Nat \X Nat : ss[1] < ss[2]}
  <1>1. IsWellFoundedOn(R, Nat)
    BY NatLessThanWellFounded, Zenon DEF OpToRel
  <1>2. \E x \in T : \A y \in T : ~ (<<y, x>> \in R)
    BY <1>1, WFMin, Zenon
  <1>3. \A x, y \in Nat : y < x => <<y, x>> \in R
    OBVIOUS
  <1> HIDE DEF R
  <1>4. PICK x \in T : \A y \in T : ~ (<<y, x>> \in R)
    BY <1>2
  <1>5. \A y \in T : ~ (y < x)
    BY <1>3, <1>4, Zenon
  <1> QED
    BY <1>5

\* A call is dispatched to somebody who is registered.
LEMMA LeastBusyFacts ==
    ASSUME IInv, workers # <<>>
    PROVE  LeastBusy \in ToSet(workers) /\ LeastBusy \in Session
  <1> DEFINE Loads == {inflight[workers[i]] : i \in DOMAIN workers}
             Least == {i \in DOMAIN workers :
                         \A j \in DOMAIN workers : inflight[workers[i]] <= inflight[workers[j]]}
  <1>1. workers \in Seq(Session) /\ inflight \in [Session -> Nat]
    BY DEF IInv, TypeOK
  <1>2. 1 \in DOMAIN workers /\ DOMAIN workers \subseteq Nat /\ \A i \in DOMAIN workers : workers[i] \in Session
    BY <1>1
  <1>3. PICK i \in DOMAIN workers : \A x \in Loads : inflight[workers[i]] <= x
    <2>1. Loads \subseteq Nat /\ Loads # {}
      BY <1>1, <1>2
    <2> QED
      BY <2>1, NatMin
  <1>4. Least # {} /\ Least \subseteq Nat
    BY <1>2, <1>3
  <1> HIDE DEF Least
  <1>5. \E x \in Least : \A y \in Least : x <= y
    BY <1>4, NatMin
  <1>6. Min(Least) \in Least
    BY <1>5 DEF Min
  <1>7. LeastBusy = workers[Min(Least)]
    BY DEF LeastBusy, Least
  <1>8. Least \subseteq DOMAIN workers
    BY DEF Least
  <1> QED
    BY <1>2, <1>6, <1>7, <1>8 DEF ToSet

\* Every place in the order of the pending table is taken by a call.
LEMMA NthFacts ==
    ASSUME NEW ps, IsFiniteSet(ps), \A p \in ps : p.id \in Nat,
           \A p, q \in ps : p.id = q.id => p = q
    PROVE  /\ Cardinality(ps) \in Nat
           /\ \A i \in 1 .. Cardinality(ps) : Nth(ps, i) \in ps
           /\ \A i, j \in 1 .. Cardinality(ps) : Nth(ps, i) = Nth(ps, j) => i = j
  <1> DEFINE n == Cardinality(ps)
             Before(p) == {q \in ps : q.id < p.id}
             rank == [p \in ps |-> Cardinality(Before(p))]
  <1>1. n \in Nat
    BY FS_CardinalityType
  <1>2. \A p \in ps : IsFiniteSet(Before(p)) /\ Cardinality(Before(p)) \in Nat
    BY FS_Subset, FS_CardinalityType
  <1>3. ASSUME NEW p \in ps, NEW T, T \subseteq ps, Before(p) \subseteq T, p \in T
        PROVE  IsFiniteSet(T) /\ Cardinality(Before(p)) + 1 <= Cardinality(T)
    <2>1. IsFiniteSet(T) /\ Cardinality(T) \in Nat
      BY <1>3, FS_Subset, FS_CardinalityType
    <2>2. p \notin Before(p)
      OBVIOUS
    <2> HIDE DEF Before
    <2>3. Cardinality(Before(p) \cup {p}) = Cardinality(Before(p)) + 1
      BY <1>2, <2>2, FS_AddElement
    <2>4. Before(p) \cup {p} \in SUBSET T
      BY <1>3
    <2>5. Cardinality(Before(p) \cup {p}) <= Cardinality(T)
      BY <2>1, <2>4, FS_Subset
    <2> QED
      BY <2>1, <2>3, <2>5
  <1>4. rank \in [ps -> 0 .. n - 1]
    <2>1. \A p \in ps : Cardinality(Before(p)) \in 0 .. n - 1
      <3> TAKE p \in ps
      <3>1. Cardinality(Before(p)) + 1 <= n
        BY <1>3
      <3> HIDE DEF Before
      <3> QED
        BY <1>1, <1>2, <3>1
    <2> HIDE DEF Before, n
    <2> QED
      BY <2>1
  <1>5. \A p, q \in ps : rank[p] = rank[q] => p = q
    <2>1. ASSUME NEW p \in ps, NEW q \in ps, p.id < q.id
          PROVE  rank[p] # rank[q]
      <3>1. Before(p) \subseteq Before(q) /\ p \in Before(q) /\ Before(q) \subseteq ps
        BY <2>1
      <3>2. Cardinality(Before(p)) + 1 <= Cardinality(Before(q))
        BY <1>3, <3>1
      <3> HIDE DEF Before
      <3> QED
        BY <1>2, <3>2
    <2>2. \A p, q \in ps : p.id < q.id \/ q.id < p.id \/ p = q
      OBVIOUS
    <2> HIDE DEF rank
    <2> QED
      BY <2>1, <2>2
  <1>6. rank \in Injection(ps, 0 .. n - 1)
    BY <1>4, <1>5, Zenon DEF Injection, IsInjective
  <1>7. IsFiniteSet(0 .. n - 1) /\ Cardinality(0 .. n - 1) = n
    <2>1. /\ IsFiniteSet(0 .. n - 1)
          /\ Cardinality(0 .. n - 1) = IF 0 > n - 1 THEN 0 ELSE n - 1 - 0 + 1
      BY <1>1, FS_Interval
    <2> HIDE DEF n
    <2> QED
      BY <1>1, <2>1
  <1>8. rank \in Surjection(ps, 0 .. n - 1)
    BY <1>6, <1>7, FS_Injection
  <1>9. ASSUME NEW i \in 1 .. n
        PROVE  Nth(ps, i) \in ps /\ Cardinality(Before(Nth(ps, i))) = i - 1
    <2>1. i - 1 \in 0 .. n - 1
      BY <1>1
    <2>2. PICK p \in ps : rank[p] = i - 1
      BY <1>8, <2>1, Zenon DEF Surjection
    <2>3. \E x \in ps : Cardinality({q \in ps : q.id < x.id}) = i - 1
      BY <2>2
    <2> QED
      BY <2>3, Zenon DEF Nth
  <1>10. ASSUME NEW i \in 1 .. n, NEW j \in 1 .. n, Nth(ps, i) = Nth(ps, j)
         PROVE  i = j
    <2>1. i - 1 = j - 1
      BY <1>9, <1>10
    <2> QED
      BY <1>1, <2>1
  <1> QED
    BY <1>1, <1>9, <1>10

-----------------------------------------------------------------------------
(* Messages, and where the calls are.                                      *)

LEMMA Messages ==
    /\ \A m \in ToBrokerMsg :
        \/ m.t \in {"register", "unregister"}
        \/ m.t = "call" /\ m.call \in Call
        \/ m.t = "result" /\ m.id \in Nat /\ m.of \in Call /\ m.ok \in BOOLEAN
    /\ [t |-> "register"] \in ToBrokerMsg /\ [t |-> "unregister"] \in ToBrokerMsg
    /\ \A k \in Call : [t |-> "call", call |-> k] \in ToBrokerMsg
    /\ \A id \in Nat, k \in Call, ok \in BOOLEAN, s \in Session :
        Result(id, k, ok, s) \in ToBrokerMsg
    /\ \A m \in ToClientMsg :
        \/ m.t = "invoke" /\ m.id \in Nat /\ m.call \in Call
        \/ m.t = "answer" /\ m.call \in Call /\ m.of \in Call /\ m.ok \in BOOLEAN
    /\ \A id \in Nat, k \in Call : [t |-> "invoke", id |-> id, call |-> k] \in ToClientMsg
    /\ \A k \in Call, of \in Call, ok \in BOOLEAN :
        [t |-> "answer", call |-> k, of |-> of, ok |-> ok] \in ToClientMsg
  BY DEF ToBrokerMsg, ToClientMsg, Result

LEMMA PlaceKept ==
    ASSUME NEW k, InOnePlace(k),
           NoMore(toBroker, toBroker', "call", k),
           NoMore(toClient, toClient', "answer", k),
           \A p \in pending' : p.call = k => p \in pending,
           call'[k] \in {"idle", "answered", "refused"} => call[k] \in {"idle", "answered", "refused"}
    PROVE  InOnePlace(k)'
  BY DEF InOnePlace, AtMostOne, Nowhere, NotPending, NoMore

\* _ok and _err
LEMMA ReplyFacts ==
    ASSUME IInv, NEW p, p.from \in Session, p.call \in Call, NEW ok \in BOOLEAN, NEW of \in Call,
           Reply(p, ok, of)
    PROVE  /\ toClient' \in [Session -> Seq(ToClientMsg)]
           /\ \A s \in Session : "client" \notin ends[s] => toClient'[s] = <<>>
           /\ \A s \in Session : \A i \in DOMAIN toClient'[s] :
                \/ i \in DOMAIN toClient[s] /\ toClient'[s][i] = toClient[s][i]
                \/ /\ toClient'[s][i].t = "answer"
                   /\ toClient'[s][i].call = p.call /\ toClient'[s][i].of = of
           /\ \A k : k # p.call => NoMore(toClient, toClient', "answer", k)
           /\ \A k : Nowhere(toClient, "answer", k) => AtMostOne(toClient', "answer", k)
  <1> DEFINE m == [t |-> "answer", call |-> p.call, of |-> of, ok |-> ok]
             s == p.from
  <1>1. m \in ToClientMsg /\ m.t = "answer" /\ m.call = p.call /\ m.of = of
    BY Messages
  <1>2. toClient \in [Session -> Seq(ToClientMsg)]
    BY DEF IInv, TypeOK
  <1>3. \/ toClient' = toClient
        \/ toClient' = [toClient EXCEPT ![s] = Append(@, m)] /\ ends[s] = {"client", "broker"}
    BY <1>2 DEF Reply
  <1> HIDE DEF m
  <1>4. CASE toClient' = toClient
    <2>1. \A k : NoMore(toClient, toClient', "answer", k)
      BY <1>4 DEF NoMore
    <2>2. \A k : Nowhere(toClient, "answer", k) => AtMostOne(toClient', "answer", k)
      BY <1>4 DEF Nowhere, AtMostOne
    <2> QED
      BY <1>2, <1>4, <2>1, <2>2 DEF IInv, StreamsAgree
  <1>5. CASE toClient' = [toClient EXCEPT ![s] = Append(@, m)] /\ ends[s] = {"client", "broker"}
    <2>1. Longer(ToClientMsg, toClient, toClient', s, m)
      BY <1>2, <1>1, <1>5, PutFacts
    <2>2. \A k : k # p.call => ~Matches(m, "answer", k)
      BY <1>1 DEF Matches
    <2>3. \A k : k # p.call => NoMore(toClient, toClient', "answer", k)
      BY <2>1, <2>2 DEF Longer
    <2>4. \A r \in Session : "client" \notin ends[r] => toClient'[r] = <<>>
      BY <1>5, <2>1 DEF IInv, StreamsAgree, Longer
    <2> QED
      BY <1>1, <2>1, <2>3, <2>4 DEF Longer
  <1> QED
    BY <1>3, <1>4, <1>5

\* What is sent to the broker.
LEMMA SentFacts ==
    ASSUME IInv, NEW s \in Session, NEW m \in ToBrokerMsg, ToBroker(s, m)
    PROVE  /\ toBroker' \in [Session -> Seq(ToBrokerMsg)]
           /\ \A r \in Session : "broker" \notin ends[r] => toBroker'[r] = <<>>
           /\ \A r \in Session : \A i \in DOMAIN toBroker'[r] :
                \/ i \in DOMAIN toBroker[r] /\ toBroker'[r][i] = toBroker[r][i]
                \/ r = s /\ toBroker'[r][i] = m
           /\ \A k : ~Matches(m, "call", k) => NoMore(toBroker, toBroker', "call", k)
           /\ \A k : Nowhere(toBroker, "call", k) => AtMostOne(toBroker', "call", k)
  <1>1. toBroker \in [Session -> Seq(ToBrokerMsg)]
    BY DEF IInv, TypeOK
  <1>2. CASE "broker" \notin ends[s]
    <2>1. toBroker' = toBroker
      BY <1>1, <1>2 DEF ToBroker
    <2>2. \A k : NoMore(toBroker, toBroker', "call", k)
      BY <2>1 DEF NoMore
    <2>3. \A k : Nowhere(toBroker, "call", k) => AtMostOne(toBroker', "call", k)
      BY <2>1 DEF Nowhere, AtMostOne
    <2> QED
      BY <1>1, <2>1, <2>2, <2>3 DEF IInv, StreamsAgree
  <1>3. CASE "broker" \in ends[s]
    <2>1. toBroker' = [toBroker EXCEPT ![s] = Append(@, m)]
      BY <1>1, <1>3 DEF ToBroker
    <2>2. Longer(ToBrokerMsg, toBroker, toBroker', s, m)
      BY <1>1, <2>1, PutFacts
    <2>3. \A k : ~Matches(m, "call", k) => NoMore(toBroker, toBroker', "call", k)
      BY <2>2 DEF Longer
    <2>4. \A r \in Session : "broker" \notin ends[r] => toBroker'[r] = <<>>
      BY <1>3, <2>2 DEF IInv, StreamsAgree, Longer
    <2> QED
      BY <2>2, <2>3, <2>4 DEF Longer
  <1> QED
    BY <1>2, <1>3

-----------------------------------------------------------------------------
(* The steps that leave the table of the broker alone.                     *)

LEMMA TableKept ==
    ASSUME IInv, UNCHANGED <<workers, inflight, pending, nextCallId>>
    PROVE  /\ IdsUnique' /\ InflightNotPinned'
           /\ \A i, j \in DOMAIN workers' : workers'[i] = workers'[j] => i = j
  BY DEF IInv, IdsUnique, InflightNotPinned, Load, Owned, WorkersServe

LEMMA InitIInv == Init => IInv
  <1> SUFFICES ASSUME Init PROVE IInv
    OBVIOUS
  <1>1. TypeOK
    <2>1. <<>> \in Seq(ToBrokerMsg) /\ <<>> \in Seq(ToClientMsg) /\ <<>> \in Seq(Session)
      OBVIOUS
    <2> QED
      BY <2>1 DEF Init, TypeOK
  <1>2. \A s \in Session : DOMAIN toBroker[s] = {} /\ DOMAIN toClient[s] = {}
    BY DEF Init
  <1>3. ToSet(workers) = {} /\ DOMAIN workers = {}
    BY DEF Init, ToSet
  <1>4. StreamsAgree /\ LinksAgree /\ WorkersServe
    BY <1>2, <1>3 DEF Init, StreamsAgree, LinksAgree, WorkersServe, ToSet
  <1>5. IdsUnique
    BY FS_EmptySet DEF Init, IdsUnique
  <1>6. InflightNotPinned
    <2>1. \A s \in Session : Owned(s) = {}
      BY DEF Init, Owned
    <2> QED
      <3>1. \A s \in Session : Load(s) = 0 /\ inflight[s] = 0
        BY <2>1, FS_EmptySet DEF Init, Load
      <3> QED
        BY <3>1 DEF InflightNotPinned
  <1>7. OnePlace
    BY <1>2 DEF Init, OnePlace, InOnePlace, AtMostOne, Nowhere, NotPending
  <1> QED
    BY <1>1, <1>4, <1>5, <1>6, <1>7 DEF IInv

LEMMA ConnectIInv ==
    ASSUME IInv, NEW c \in Client, Connect(c)
    PROVE  IInv'
  <1>1. PICK s \in Session :
          /\ opener[s] = NoClient
          /\ retry' = retry \/ retry' = [retry EXCEPT ![c] = FALSE]
          /\ opener' = [opener EXCEPT ![s] = c]
          /\ ends' = [ends EXCEPT ![s] = {"client", "broker"}]
          /\ peer' = [peer EXCEPT ![c] = s]
          /\ toBroker' = [toBroker EXCEPT ![s] =
               IF c \in Worker /\ handles[c] THEN <<[t |-> "register"]>> ELSE <<>>]
          /\ UNCHANGED <<toClient, handles, toggles, call, jobs, workers, inflight, pending, nextCallId, restarts>>
    BY DEF Connect, clientVars, brokerVars
  <1>2. ends[s] = {} /\ toBroker[s] = <<>> /\ toClient[s] = <<>>
    BY <1>1 DEF IInv, StreamsAgree
  <1>3. /\ toBroker' \in [Session -> Seq(ToBrokerMsg)]
        /\ \A r \in Session : r # s => toBroker'[r] = toBroker[r]
        /\ \A r \in Session : \A i \in DOMAIN toBroker'[r] :
             \/ i \in DOMAIN toBroker[r] /\ toBroker'[r][i] = toBroker[r][i]
             \/ r = s /\ toBroker'[r][i] = [t |-> "register"] /\ c \in Worker
        /\ \A k : NoMore(toBroker, toBroker', "call", k)
    <2>1. toBroker \in [Session -> Seq(ToBrokerMsg)]
      BY DEF IInv, TypeOK
    <2> DEFINE m == [t |-> "register"]
    <2>2. CASE c \in Worker /\ handles[c]
      <3>1. <<m>> = Append(toBroker[s], m)
        BY <1>2
      <3>2. m \in ToBrokerMsg /\ \A k : ~Matches(m, "call", k)
        BY Messages DEF Matches
      <3>3. toBroker' = [toBroker EXCEPT ![s] = <<m>>]
        BY <1>1, <2>2
      <3> HIDE DEF m
      <3>4. toBroker' = [toBroker EXCEPT ![s] = Append(toBroker[s], m)]
        BY <3>1, <3>3
      <3>5. Longer(ToBrokerMsg, toBroker, toBroker', s, m)
        BY <2>1, <3>2, <3>4, PutFacts
      <3> QED
        BY <2>2, <3>2, <3>5 DEF Longer, m
    <2>3. CASE ~(c \in Worker /\ handles[c])
      <3>1. toBroker' = toBroker
        BY <1>1, <1>2, <2>1, <2>3
      <3> QED
        BY <2>1, <3>1 DEF NoMore
    <2> QED
      BY <2>2, <2>3
  <1>4. TypeOK'
    <2>1. /\ opener' \in [Session -> Client \cup {NoClient}]
          /\ ends' \in [Session -> SUBSET {"client", "broker"}]
          /\ peer' \in [Client -> Session \cup {NoSession}]
          /\ retry' \in [Client -> BOOLEAN]
      BY <1>1 DEF IInv, TypeOK
    <2> QED
      BY <1>1, <1>3, <2>1 DEF IInv, TypeOK
  <1>5. StreamsAgree'
    BY <1>1, <1>3, RpcAssumption DEF IInv, TypeOK, StreamsAgree
  <1>6. LinksAgree'
    <2>1. NoSession \notin Session /\ NoClient \notin Client /\ Worker \subseteq Client
      BY RpcAssumption DEF NoSession, Session, Client
    <2> HIDE DEF NoSession, Session
    <2>2. \A d \in Client : peer'[d] # NoSession => opener'[peer'[d]] = d
      BY <1>1, <2>1 DEF IInv, TypeOK, LinksAgree
    <2>3. \A j \in jobs : j.peer # NoSession => opener'[j.peer] = j.by
      <3> TAKE j \in jobs
      <3>1. j.by \in Client /\ j.peer \in Session \cup {NoSession}
        BY <2>1 DEF IInv, TypeOK
      <3> QED
        BY <1>1, <2>1, <3>1 DEF IInv, TypeOK, LinksAgree
    <2> QED
      BY <1>1, <2>2, <2>3 DEF LinksAgree
  <1>7. WorkersServe'
    <2>1. NoClient \notin Worker /\ ToSet(workers) \subseteq Session
      BY RpcAssumption DEF Client, IInv, TypeOK, ToSet
    <2>2. \A r \in Session : opener[r] \in Worker => opener'[r] \in Worker
      BY <1>1, <2>1 DEF IInv, TypeOK
    <2>3. \A r \in Session : \A i \in DOMAIN toBroker'[r] :
            toBroker'[r][i].t = "register" => opener'[r] \in Worker
      BY <1>1, <1>3, <2>2 DEF IInv, TypeOK, WorkersServe
    <2> QED
      BY <1>1, <2>1, <2>2, <2>3 DEF IInv, WorkersServe
  <1>8. OnePlace'
    <2>1. \A k \in Call : InOnePlace(k)'
      <3> TAKE k \in Call
      <3>1. NoMore(toClient, toClient', "answer", k)
        BY <1>1 DEF NoMore
      <3> QED
        BY <1>1, <1>3, <3>1, PlaceKept DEF IInv, OnePlace
    <2> QED
      BY <2>1 DEF OnePlace
  <1> QED
    BY <1>1, <1>4, <1>5, <1>6, <1>7, <1>8, TableKept DEF IInv

LEMMA ClientClosesIInv ==
    ASSUME IInv, NEW s \in Session, ClientCloses(s)
    PROVE  IInv'
  <1>1. /\ "client" \in ends[s]
        /\ ends' = [ends EXCEPT ![s] = @ \ {"client"}]
        /\ toClient' = [toClient EXCEPT ![s] = <<>>]
        /\ UNCHANGED <<opener, toBroker, handles, toggles, jobs, workers, inflight, pending,
                      nextCallId, restarts>>
    BY DEF ClientCloses, brokerVars
  <1>2. opener[s] \in Client
    BY <1>1 DEF IInv, TypeOK, StreamsAgree
  <1>3. /\ peer' \in [Client -> Session \cup {NoSession}] /\ retry' \in [Client -> BOOLEAN]
        /\ \A c \in Client : peer'[c] = peer[c] \/ peer'[c] = NoSession
        /\ call' \in [Call -> {"idle", "pending"} \cup Outcome]
        /\ \A k \in Call : call'[k] = call[k] \/ call'[k] = "lost"
    <2>1. CASE peer[opener[s]] = s
      <3>1. /\ peer' = [peer EXCEPT ![opener[s]] = NoSession]
            /\ retry' = [retry EXCEPT ![opener[s]] = TRUE]
            /\ call' = [k \in Call |-> IF CallerOf(k) = opener[s] /\ call[k] = "pending"
                                       THEN "lost" ELSE call[k]]
        BY <2>1 DEF ClientCloses
      <3>2. \A k \in Call : call'[k] = call[k] \/ call'[k] = "lost"
        BY <3>1
      <3>3. call' \in [Call -> {"idle", "pending"} \cup Outcome]
        BY <3>1 DEF IInv, TypeOK, Outcome
      <3>4. /\ peer' \in [Client -> Session \cup {NoSession}]
            /\ \A c \in Client : peer'[c] = peer[c] \/ peer'[c] = NoSession
        BY <1>2, <3>1 DEF IInv, TypeOK
      <3>5. retry' \in [Client -> BOOLEAN]
        BY <1>2, <3>1 DEF IInv, TypeOK
      <3> QED
        BY <3>2, <3>3, <3>4, <3>5
    <2>2. CASE peer[opener[s]] # s
      BY <2>2 DEF ClientCloses, IInv, TypeOK
    <2> QED
      BY <2>1, <2>2
  <1>4. /\ toClient' \in [Session -> Seq(ToClientMsg)]
        /\ Fewer(toClient, toClient')
    <2>1. toClient \in [Session -> Seq(ToClientMsg)] /\ <<>> \in Seq(ToClientMsg)
      BY DEF IInv, TypeOK
    <2>2. toClient' \in [Session -> Seq(ToClientMsg)]
      BY <1>1, <2>1
    <2>3. \A r \in Session : toClient'[r] = toClient[r] \/ toClient'[r] = <<>>
      BY <1>1, <2>1
    <2> QED
      BY <2>1, <2>2, <2>3, DropFacts
  <1>5. TypeOK'
    <2>1. ends' \in [Session -> SUBSET {"client", "broker"}]
      BY <1>1 DEF IInv, TypeOK
    <2> QED
      BY <1>1, <1>3, <1>4, <2>1 DEF IInv, TypeOK
  <1>6. StreamsAgree'
    BY <1>1 DEF IInv, TypeOK, StreamsAgree
  <1>7. LinksAgree'
    BY <1>1, <1>3 DEF IInv, LinksAgree
  <1>8. WorkersServe'
    BY <1>1, <1>4 DEF IInv, WorkersServe, Fewer
  <1>9. OnePlace'
    <2>1. \A k \in Call : InOnePlace(k)'
      <3> TAKE k \in Call
      <3>1. NoMore(toClient, toClient', "answer", k) /\ NoMore(toBroker, toBroker', "call", k)
        BY <1>1, <1>4 DEF NoMore, Fewer
      <3> QED
        BY <1>1, <1>3, <3>1, PlaceKept DEF IInv, OnePlace
    <2> QED
      BY <2>1 DEF OnePlace
  <1> QED
    BY <1>1, <1>5, <1>6, <1>7, <1>8, <1>9, TableKept DEF IInv

\* What a client may send, other than a call, is not about where a call is.
LEMMA TellIInv ==
    ASSUME IInv, NEW c \in Client, NEW m \in ToBrokerMsg, Tell(c, m), ~Matches(m, "call", m.call),
           m.t = "register" => c \in Worker
    PROVE  /\ toBroker' \in [Session -> Seq(ToBrokerMsg)]
           /\ \A r \in Session : "broker" \notin ends[r] => toBroker'[r] = <<>>
           /\ \A k : NoMore(toBroker, toBroker', "call", k)
           /\ \A r \in Session : \A i \in DOMAIN toBroker'[r] :
                toBroker'[r][i].t = "register" => opener[r] \in Worker
  <1>1. toBroker \in [Session -> Seq(ToBrokerMsg)] /\ peer \in [Client -> Session \cup {NoSession}]
    BY DEF IInv, TypeOK
  <1>2. CASE peer[c] = NoSession
    <2>1. toBroker' = toBroker
      BY <1>2 DEF Tell
    <2> QED
      BY <1>1, <2>1 DEF IInv, StreamsAgree, WorkersServe, NoMore
  <1>3. CASE peer[c] # NoSession
    <2>1. peer[c] \in Session /\ ToBroker(peer[c], m) /\ opener[peer[c]] = c
      BY <1>1, <1>3 DEF Tell, IInv, LinksAgree
    <2>2. \A k : ~Matches(m, "call", k)
      BY DEF Matches
    <2>3. /\ toBroker' \in [Session -> Seq(ToBrokerMsg)]
          /\ \A r \in Session : "broker" \notin ends[r] => toBroker'[r] = <<>>
          /\ \A r \in Session : \A i \in DOMAIN toBroker'[r] :
               \/ i \in DOMAIN toBroker[r] /\ toBroker'[r][i] = toBroker[r][i]
               \/ r = peer[c] /\ toBroker'[r][i] = m
          /\ \A k : ~Matches(m, "call", k) => NoMore(toBroker, toBroker', "call", k)
      BY <2>1, SentFacts
    <2> QED
      BY <2>1, <2>2, <2>3 DEF IInv, WorkersServe
  <1> QED
    BY <1>2, <1>3

\* A client tells the broker something and starts or ends a job.
LEMMA TalkIInv ==
    ASSUME IInv,
           UNCHANGED <<linkVars, workers, inflight, pending, nextCallId, restarts>>,
           toBroker' \in [Session -> Seq(ToBrokerMsg)],
           \A r \in Session : "broker" \notin ends[r] => toBroker'[r] = <<>>,
           \A r \in Session : \A i \in DOMAIN toBroker'[r] :
             toBroker'[r][i].t = "register" => opener[r] \in Worker,
           toClient' \in [Session -> Seq(ToClientMsg)],
           \A r \in Session : "client" \notin ends[r] => toClient'[r] = <<>>,
           \A r \in Session : \A i \in DOMAIN toClient'[r] :
             toClient'[r][i].t = "invoke" => opener[r] \in Worker,
           handles' \in [Worker -> BOOLEAN], toggles' \in Nat,
           call' \in [Call -> {"idle", "pending"} \cup Outcome],
           jobs' \subseteq [by : Worker, peer : Session \cup {NoSession}, via : Session,
                 id : Nat, call : Call],
           \A j \in jobs' : j.peer # NoSession => opener[j.peer] = j.by,
           \A k \in Call : InOnePlace(k)'
    PROVE  IInv'
  <1>1. TypeOK'
    BY DEF IInv, TypeOK, linkVars
  <1>2. StreamsAgree'
    BY DEF IInv, StreamsAgree, linkVars
  <1>3. LinksAgree'
    BY DEF IInv, LinksAgree, linkVars
  <1>4. WorkersServe'
    BY DEF IInv, WorkersServe, linkVars
  <1>5. OnePlace'
    BY DEF OnePlace
  <1> QED
    BY <1>1, <1>2, <1>3, <1>4, <1>5, TableKept DEF IInv

LEMMA CallKept ==
    ASSUME IInv, \A k \in Call : NoMore(toBroker, toBroker', "call", k), UNCHANGED pending,
           \A k \in Call : NoMore(toClient, toClient', "answer", k), UNCHANGED call
    PROVE  \A k \in Call : InOnePlace(k)'
  BY PlaceKept DEF IInv, OnePlace

LEMMA ToggleIInv ==
    ASSUME IInv, NEW c \in Worker, Toggle(c)
    PROVE  IInv'
  <1> DEFINE m == [t |-> IF handles[c] THEN "unregister" ELSE "register"]
  <1>1. c \in Client /\ m \in ToBrokerMsg /\ ~Matches(m, "call", m.call)
    BY Messages DEF Client, Matches
  <1>2. /\ Tell(c, m) /\ handles' = [handles EXCEPT ![c] = ~@] /\ toggles' = toggles + 1
        /\ UNCHANGED <<linkVars, toClient, call, jobs, workers, inflight, pending, nextCallId, restarts>>
    BY DEF Toggle, brokerVars
  <1> HIDE DEF m
  <1>3. /\ toBroker' \in [Session -> Seq(ToBrokerMsg)]
        /\ \A r \in Session : "broker" \notin ends[r] => toBroker'[r] = <<>>
        /\ \A k : NoMore(toBroker, toBroker', "call", k)
        /\ \A r \in Session : \A i \in DOMAIN toBroker'[r] :
             toBroker'[r][i].t = "register" => opener[r] \in Worker
    BY <1>1, <1>2, TellIInv
  <1>4. handles' \in [Worker -> BOOLEAN] /\ toggles' \in Nat
    BY <1>2 DEF IInv, TypeOK
  <1>5. \A k \in Call : InOnePlace(k)'
    <2>1. \A k : NoMore(toClient, toClient', "answer", k)
      BY <1>2 DEF NoMore
    <2> QED
      BY <1>2, <1>3, <2>1, CallKept
  <1>6. UNCHANGED <<linkVars, workers, inflight, pending, nextCallId, restarts, toClient, call, jobs>>
    BY <1>2
  <1> QED
    BY <1>3, <1>4, <1>5, <1>6, TalkIInv DEF IInv, TypeOK, StreamsAgree, WorkersServe, LinksAgree

LEMMA SendCallIInv ==
    ASSUME IInv, NEW k \in Call, SendCall(k)
    PROVE  IInv'
  <1> DEFINE c == CallerOf(k)
             m == [t |-> "call", call |-> k]
  <1>1. /\ call[k] = "idle" /\ peer[c] # NoSession /\ call' = [call EXCEPT ![k] = "pending"]
        /\ ToBroker(peer[c], m)
        /\ UNCHANGED <<linkVars, toClient, handles, toggles, jobs, workers, inflight, pending,
                      nextCallId, restarts>>
    BY DEF SendCall, brokerVars
  <1>2. c \in Client /\ peer[c] \in Session /\ m \in ToBrokerMsg
    BY <1>1, Messages DEF Client, Call, CallerOf, IInv, TypeOK
  <1>3. m.t = "call" /\ \A h : h # k => ~Matches(m, "call", h)
    BY DEF Matches
  <1> HIDE DEF m, c
  <1>4. /\ toBroker' \in [Session -> Seq(ToBrokerMsg)]
        /\ \A r \in Session : "broker" \notin ends[r] => toBroker'[r] = <<>>
        /\ \A r \in Session : \A i \in DOMAIN toBroker'[r] :
             \/ i \in DOMAIN toBroker[r] /\ toBroker'[r][i] = toBroker[r][i]
             \/ r = peer[c] /\ toBroker'[r][i] = m
        /\ \A h : ~Matches(m, "call", h) => NoMore(toBroker, toBroker', "call", h)
        /\ \A h : Nowhere(toBroker, "call", h) => AtMostOne(toBroker', "call", h)
    BY <1>1, <1>2, SentFacts
  <1>5. \A r \in Session : \A i \in DOMAIN toBroker'[r] :
          toBroker'[r][i].t = "register" => opener[r] \in Worker
    BY <1>3, <1>4 DEF IInv, WorkersServe
  <1>6. /\ call' \in [Call -> {"idle", "pending"} \cup Outcome]
        /\ call'[k] = "pending" /\ \A h \in Call : h # k => call'[h] = call[h]
    BY <1>1 DEF IInv, TypeOK
  <1>7. ASSUME NEW h \in Call PROVE InOnePlace(h)'
    <2>1. NoMore(toClient, toClient', "answer", h)
      BY <1>1 DEF NoMore
    <2>2. CASE h # k
      BY <1>1, <1>3, <1>4, <1>6, <2>1, <2>2, PlaceKept DEF IInv, OnePlace
    <2>3. CASE h = k
      <3>1. /\ Nowhere(toBroker, "call", k) /\ NotPending(k) /\ Nowhere(toClient, "answer", k)
            /\ AtMostOne(toClient, "answer", k)
        BY <1>1 DEF IInv, OnePlace, InOnePlace
      <3>2. AtMostOne(toBroker', "call", k)
        BY <1>4, <3>1
      <3>3. NotPending(k)' /\ toClient' = toClient /\ pending' = pending
        BY <1>1, <3>1 DEF NotPending
      <3>4. Nowhere(toClient', "answer", k) /\ AtMostOne(toClient', "answer", k)
        BY <3>1, <3>3
      <3> QED
        BY <1>6, <2>3, <3>1, <3>2, <3>3, <3>4 DEF InOnePlace, NotPending, Nowhere, AtMostOne
    <2> QED
      BY <2>2, <2>3
  <1>8. UNCHANGED <<linkVars, workers, inflight, pending, nextCallId, restarts, toClient, jobs,
                    handles, toggles>>
    BY <1>1
  <1> QED
    BY <1>4, <1>5, <1>6, <1>7, <1>8, TalkIInv DEF IInv, TypeOK, StreamsAgree, WorkersServe, LinksAgree

LEMMA CallTimeoutIInv ==
    ASSUME IInv, NEW k \in Call, CallTimeout(k)
    PROVE  IInv'
  <1>1. /\ call' = [call EXCEPT ![k] = "timeout"]
        /\ UNCHANGED <<linkVars, toBroker, toClient, handles, toggles, jobs, workers, inflight,
                      pending, nextCallId, restarts>>
    BY DEF CallTimeout, brokerVars
  <1>2. /\ call' \in [Call -> {"idle", "pending"} \cup Outcome]
        /\ \A h \in Call : call'[h] = call[h] \/ call'[h] = "timeout"
    BY <1>1 DEF IInv, TypeOK, Outcome
  <1>3. \A h \in Call : InOnePlace(h)'
    <2> TAKE h \in Call
    <2>1. NoMore(toClient, toClient', "answer", h) /\ NoMore(toBroker, toBroker', "call", h)
      BY <1>1 DEF NoMore
    <2> QED
      BY <1>1, <1>2, <2>1, PlaceKept DEF IInv, OnePlace
  <1>4. UNCHANGED <<linkVars, workers, inflight, pending, nextCallId, restarts, toClient, toBroker,
                    jobs, handles, toggles>>
    BY <1>1
  <1> QED
    BY <1>2, <1>3, <1>4, TalkIInv DEF IInv, TypeOK, StreamsAgree, WorkersServe, LinksAgree

LEMMA FinishJobIInv ==
    ASSUME IInv, NEW j \in jobs, FinishJob(j)
    PROVE  IInv'
  <1> DEFINE m == Result(j.id, j.call, TRUE, j.via)
  <1>1. /\ jobs' = jobs \ {j}
        /\ \/ j.peer # NoSession /\ ToBroker(j.peer, m)
           \/ UNCHANGED toBroker
        /\ UNCHANGED <<linkVars, toClient, handles, toggles, call, workers, inflight, pending,
                      nextCallId, restarts>>
    BY DEF FinishJob, brokerVars
  <1>2. j.peer \in Session \cup {NoSession} /\ m \in ToBrokerMsg
    BY Messages DEF IInv, TypeOK
  <1>3. m.t = "result" /\ \A k : ~Matches(m, "call", k)
    BY DEF Matches, Result
  <1> HIDE DEF m
  <1>4. /\ toBroker' \in [Session -> Seq(ToBrokerMsg)]
        /\ \A r \in Session : "broker" \notin ends[r] => toBroker'[r] = <<>>
        /\ \A r \in Session : \A i \in DOMAIN toBroker'[r] :
             toBroker'[r][i].t = "register" => opener[r] \in Worker
        /\ \A k : NoMore(toBroker, toBroker', "call", k)
    <2>1. CASE UNCHANGED toBroker
      BY <2>1 DEF IInv, TypeOK, StreamsAgree, WorkersServe, NoMore
    <2>2. CASE j.peer # NoSession /\ ToBroker(j.peer, m)
      <3>1. /\ toBroker' \in [Session -> Seq(ToBrokerMsg)]
            /\ \A r \in Session : "broker" \notin ends[r] => toBroker'[r] = <<>>
            /\ \A r \in Session : \A i \in DOMAIN toBroker'[r] :
                 \/ i \in DOMAIN toBroker[r] /\ toBroker'[r][i] = toBroker[r][i]
                 \/ r = j.peer /\ toBroker'[r][i] = m
            /\ \A k : ~Matches(m, "call", k) => NoMore(toBroker, toBroker', "call", k)
        BY <1>2, <2>2, SentFacts
      <3> QED
        BY <1>3, <3>1 DEF IInv, WorkersServe
    <2> QED
      BY <1>1, <2>1, <2>2
  <1>5. \A k \in Call : InOnePlace(k)'
    <2>1. \A k : NoMore(toClient, toClient', "answer", k)
      BY <1>1 DEF NoMore
    <2> QED
      BY <1>1, <1>4, <2>1, CallKept
  <1>6. UNCHANGED <<linkVars, workers, inflight, pending, nextCallId, restarts, toClient, call,
                    handles, toggles>>
    BY <1>1
  <1>7. jobs' \subseteq jobs
    BY <1>1
  <1> QED
    BY <1>4, <1>5, <1>6, <1>7, TalkIInv DEF IInv, TypeOK, StreamsAgree, WorkersServe, LinksAgree

\* What is left of the streams to the clients when a client has read a message.
LEMMA ClientReadFacts ==
    ASSUME IInv, NEW s \in Session, toClient[s] # <<>>,
           toClient' = [toClient EXCEPT ![s] = Tail(@)]
    PROVE  /\ Shorter(ToClientMsg, toClient, toClient', s)
           /\ \A r \in Session : "client" \notin ends[r] => toClient'[r] = <<>>
           /\ \A r \in Session : \A i \in DOMAIN toClient'[r] :
                toClient'[r][i].t = "invoke" => opener[r] \in Worker
  <1>1. toClient \in [Session -> Seq(ToClientMsg)]
    BY DEF IInv, TypeOK
  <1>2. toClient' = [toClient EXCEPT ![s] = Tail(toClient[s])]
    BY <1>1
  <1>3. Shorter(ToClientMsg, toClient, toClient', s)
    BY <1>1, <1>2, TakeFacts
  <1>4. \A r \in Session : "client" \notin ends[r] => toClient'[r] = <<>>
    BY <1>3 DEF Shorter, IInv, StreamsAgree
  <1>5. \A r \in Session : \A i \in DOMAIN toClient'[r] :
          toClient'[r][i].t = "invoke" => opener[r] \in Worker
    BY <1>3 DEF Shorter, IInv, WorkersServe
  <1> QED
    BY <1>3, <1>4, <1>5

LEMMA ClientReceivesIInv ==
    ASSUME IInv, NEW s \in Session, ClientReceives(s)
    PROVE  IInv'
  <1> DEFINE m == Head(toClient[s])
  <1>1. /\ "client" \in ends[s] /\ toClient[s] # <<>>
        /\ toClient' = [toClient EXCEPT ![s] = Tail(@)]
        /\ \/ m.t = "invoke" /\ StartJob(s, m)
           \/ m.t = "answer" /\ TakeAnswer(m)
        /\ UNCHANGED <<linkVars, handles, toggles, workers, inflight, pending, nextCallId, restarts>>
    BY DEF ClientReceives, brokerVars
  <1>2. /\ Shorter(ToClientMsg, toClient, toClient', s)
        /\ \A r \in Session : "client" \notin ends[r] => toClient'[r] = <<>>
        /\ \A r \in Session : \A i \in DOMAIN toClient'[r] :
             toClient'[r][i].t = "invoke" => opener[r] \in Worker
    BY <1>1, ClientReadFacts
  <1>3. /\ toClient' \in [Session -> Seq(ToClientMsg)] /\ m \in ToClientMsg
        /\ \A k : NoMore(toClient, toClient', "answer", k)
        /\ 1 \in DOMAIN toClient[s] /\ m = toClient[s][1]
    BY <1>2 DEF Shorter
  <1>4. UNCHANGED <<linkVars, workers, inflight, pending, nextCallId, restarts, handles, toggles>>
    BY <1>1
  <1>5. CASE m.t = "invoke" /\ StartJob(s, m)
    <2>1. m.id \in Nat /\ m.call \in Call /\ opener[s] \in Worker
      BY <1>3, <1>5, Messages DEF IInv, WorkersServe
    <2> DEFINE c == opener[s]
    <2>2. c \in Client /\ c \in Worker
      BY <2>1 DEF Client
    <2> HIDE DEF c, m
    <2>3. CASE handles[c]
      <3> DEFINE j == [by |-> c, peer |-> peer[c], via |-> s, id |-> m.id, call |-> m.call]
      <3>1. jobs' = jobs \cup {j} /\ UNCHANGED <<toBroker, call>>
        BY <1>5, <2>3 DEF StartJob, c
      <3>2. /\ j \in [by : Worker, peer : Session \cup {NoSession}, via : Session, id : Nat, call : Call]
            /\ j.by = c /\ j.peer = peer[c]
        BY <2>1, <2>2 DEF IInv, TypeOK
      <3> HIDE DEF j
      <3>3. jobs' \subseteq [by : Worker, peer : Session \cup {NoSession}, via : Session,
                            id : Nat, call : Call]
        BY <3>1, <3>2 DEF IInv, TypeOK
      <3>4. \A i \in jobs' : i.peer # NoSession => opener[i.peer] = i.by
        BY <2>2, <3>1, <3>2 DEF IInv, LinksAgree
      <3>5. \A k \in Call : InOnePlace(k)'
        <4>1. \A k : NoMore(toBroker, toBroker', "call", k)
          BY <3>1 DEF NoMore
        <4> QED
          BY <1>3, <1>4, <3>1, <4>1, CallKept
      <3> QED
        BY <1>2, <1>3, <1>4, <3>1, <3>3, <3>4, <3>5, TalkIInv
           DEF IInv, TypeOK, StreamsAgree, WorkersServe
    <2>4. CASE ~handles[c]
      <3> DEFINE a == Result(m.id, m.call, FALSE, s)
      <3>1. Tell(c, a) /\ UNCHANGED <<jobs, call>>
        BY <1>5, <2>4 DEF StartJob, c
      <3>2. a \in ToBrokerMsg /\ a.t = "result" /\ ~Matches(a, "call", a.call)
        BY <2>1, Messages DEF Matches, Result
      <3> HIDE DEF a
      <3>3. /\ toBroker' \in [Session -> Seq(ToBrokerMsg)]
            /\ \A r \in Session : "broker" \notin ends[r] => toBroker'[r] = <<>>
            /\ \A k : NoMore(toBroker, toBroker', "call", k)
            /\ \A r \in Session : \A i \in DOMAIN toBroker'[r] :
                 toBroker'[r][i].t = "register" => opener[r] \in Worker
        BY <2>2, <3>1, <3>2, TellIInv
      <3>4. \A k \in Call : InOnePlace(k)'
        BY <1>3, <1>4, <3>1, <3>3, CallKept
      <3> QED
        BY <1>2, <1>3, <1>4, <3>1, <3>3, <3>4, TalkIInv DEF IInv, TypeOK, LinksAgree
    <2> QED
      BY <2>3, <2>4
  <1>6. CASE m.t = "answer" /\ TakeAnswer(m)
    <2>1. m.call \in Call
      BY <1>3, <1>6, Messages
    <2>2. /\ call' = [call EXCEPT ![m.call] =
               IF @ # "pending" THEN @ ELSE IF m.ok THEN "answered" ELSE "refused"]
          /\ UNCHANGED <<toBroker, jobs>>
      BY <1>6 DEF TakeAnswer
    <2>3. /\ call' \in [Call -> {"idle", "pending"} \cup Outcome]
          /\ \A k \in Call : k # m.call => call'[k] = call[k]
      BY <2>1, <2>2 DEF IInv, TypeOK, Outcome
    <2>4. \A k \in Call : InOnePlace(k)'
      <3> TAKE k \in Call
      <3>1. NoMore(toClient, toClient', "answer", k) /\ NoMore(toBroker, toBroker', "call", k)
        BY <1>3, <2>2 DEF NoMore
      <3>2. CASE k # m.call
        BY <1>4, <2>3, <3>1, <3>2, PlaceKept DEF IInv, OnePlace
      <3>3. CASE k = m.call
        <4>1. Matches(m, "answer", k)
          BY <1>6, <3>3 DEF Matches
        <4>2. ~Nowhere(toClient, "answer", k) /\ AtMostOne(toClient, "answer", k)
          BY <1>3, <4>1 DEF Nowhere, IInv, OnePlace, InOnePlace
        <4>3. Nowhere(toBroker, "call", k) /\ NotPending(k)
          BY <4>2 DEF IInv, OnePlace, InOnePlace
        <4>4. Nowhere(toClient', "answer", k) /\ AtMostOne(toClient', "answer", k)
          BY <1>2, <3>1, <4>1, <4>2 DEF Shorter, NoMore
        <4>5. toBroker' = toBroker /\ pending' = pending
          BY <1>4, <2>2
        <4> QED
          BY <4>3, <4>4, <4>5 DEF IInv, OnePlace, InOnePlace, NotPending, Nowhere, AtMostOne
      <3> QED
        BY <3>2, <3>3
    <2> QED
      BY <1>2, <1>3, <1>4, <2>2, <2>3, <2>4, TalkIInv
         DEF IInv, TypeOK, StreamsAgree, WorkersServe, LinksAgree
  <1> QED
    BY <1>1, <1>5, <1>6

LEMMA RestartIInv ==
    ASSUME IInv, Restart
    PROVE  IInv'
  <1>1. /\ ends' = [s \in Session |-> ends[s] \ {"broker"}]
        /\ toBroker' = [s \in Session |-> <<>>]
        /\ workers' = <<>> /\ inflight' = [s \in Session |-> 0]
        /\ pending' = {} /\ nextCallId' = 1 /\ restarts' = restarts + 1
        /\ UNCHANGED <<opener, peer, retry, toClient, handles, toggles, call, jobs>>
    BY DEF Restart, clientVars
  <1>2. \A s \in Session : DOMAIN toBroker'[s] = {} /\ toBroker'[s] = <<>>
    BY <1>1
  <1>3. TypeOK'
    <2>1. <<>> \in Seq(ToBrokerMsg) /\ <<>> \in Seq(Session)
      OBVIOUS
    <2>2. toBroker' \in [Session -> Seq(ToBrokerMsg)] /\ workers' \in Seq(Session)
      BY <1>1, <2>1
    <2>3. ends' \in [Session -> SUBSET {"client", "broker"}]
      BY <1>1 DEF IInv, TypeOK
    <2> QED
      BY <1>1, <2>2, <2>3 DEF IInv, TypeOK
  <1>4. StreamsAgree' /\ LinksAgree'
    <2>1. LinksAgree'
      BY <1>1 DEF IInv, LinksAgree
    <2>2. \A s \in Session : "client" \notin ends'[s] => "client" \notin ends[s]
      BY <1>1
    <2>3. \A s \in Session : ends[s] = {} => ends'[s] = {}
      BY <1>1
    <2> QED
      BY <1>1, <1>2, <2>1, <2>2, <2>3 DEF IInv, StreamsAgree
  <1>5. WorkersServe'
    <2>1. ToSet(workers') = {} /\ DOMAIN workers' = {}
      BY <1>1 DEF ToSet
    <2> QED
      BY <1>1, <1>2, <2>1 DEF IInv, WorkersServe, ToSet
  <1>6. IdsUnique'
    BY <1>1, FS_EmptySet DEF IdsUnique
  <1>7. InflightNotPinned'
    <2>1. \A s \in Session : Owned(s)' = {}
      BY <1>1 DEF Owned
    <2>2. \A s \in Session : Load(s)' = 0 /\ inflight'[s] = 0
      BY <1>1, <2>1, FS_EmptySet DEF Load
    <2> QED
      BY <2>2 DEF InflightNotPinned
  <1>8. OnePlace'
    <2>1. \A k \in Call : InOnePlace(k)'
      <3> TAKE k \in Call
      <3>1. NoMore(toClient, toClient', "answer", k)
        BY <1>1 DEF NoMore
      <3>2. NoMore(toBroker, toBroker', "call", k)
        BY <1>2 DEF NoMore, Nowhere, AtMostOne
      <3> QED
        BY <1>1, <3>1, <3>2, PlaceKept DEF IInv, OnePlace
    <2> QED
      BY <2>1 DEF OnePlace
  <1> QED
    BY <1>3, <1>4, <1>5, <1>6, <1>7, <1>8 DEF IInv

-----------------------------------------------------------------------------
(* The steps of the broker.                                                *)

LEMMA BrokerIInv ==
    ASSUME IInv,
           UNCHANGED <<linkVars, clientVars, restarts>>,
           toBroker' \in [Session -> Seq(ToBrokerMsg)],
           \A r \in Session : "broker" \notin ends[r] => toBroker'[r] = <<>>,
           \A r \in Session : \A i \in DOMAIN toBroker'[r] :
             toBroker'[r][i].t = "register" => opener[r] \in Worker,
           toClient' \in [Session -> Seq(ToClientMsg)],
           \A r \in Session : "client" \notin ends[r] => toClient'[r] = <<>>,
           \A r \in Session : \A i \in DOMAIN toClient'[r] :
             toClient'[r][i].t = "invoke" => opener[r] \in Worker,
           workers' \in Seq(Session),
           \A i, j \in DOMAIN workers' : workers'[i] = workers'[j] => i = j,
           \A w \in ToSet(workers') : opener[w] \in Worker,
           inflight' \in [Session -> Nat],
           pending' \subseteq [id : Nat, from : Session, call : Call, owner : Session],
           nextCallId' \in Nat,
           IdsUnique', InflightNotPinned', \A k \in Call : InOnePlace(k)'
    PROVE  IInv'
  <1>1. TypeOK'
    BY DEF IInv, TypeOK, linkVars, clientVars
  <1>2. StreamsAgree'
    BY DEF IInv, StreamsAgree, linkVars
  <1>3. LinksAgree'
    BY DEF IInv, LinksAgree, linkVars, clientVars
  <1>4. WorkersServe'
    BY DEF WorkersServe, linkVars, ToSet
  <1>5. OnePlace'
    BY DEF OnePlace
  <1> QED
    BY <1>1, <1>2, <1>3, <1>4, <1>5 DEF IInv

\* What is left of the streams to the broker when it has read a message.
LEMMA BrokerReadFacts ==
    ASSUME IInv, NEW s \in Session, toBroker[s] # <<>>,
           toBroker' = [toBroker EXCEPT ![s] = Tail(@)]
    PROVE  /\ toBroker' \in [Session -> Seq(ToBrokerMsg)]
           /\ \A r \in Session : "broker" \notin ends[r] => toBroker'[r] = <<>>
           /\ \A r \in Session : \A i \in DOMAIN toBroker'[r] :
                /\ toBroker'[r][i].t = "register" => opener[r] \in Worker
                /\ \E j \in DOMAIN toBroker[r] : toBroker'[r][i] = toBroker[r][j]
           /\ \A k : NoMore(toBroker, toBroker', "call", k)
           /\ Head(toBroker[s]) \in ToBrokerMsg /\ 1 \in DOMAIN toBroker[s]
           /\ Head(toBroker[s]) = toBroker[s][1]
           /\ \A k : AtMostOne(toBroker, "call", k) /\ Matches(Head(toBroker[s]), "call", k) =>
                Nowhere(toBroker', "call", k)
  <1>1. toBroker \in [Session -> Seq(ToBrokerMsg)]
    BY DEF IInv, TypeOK
  <1>2. toBroker' = [toBroker EXCEPT ![s] = Tail(toBroker[s])]
    BY <1>1
  <1>3. Shorter(ToBrokerMsg, toBroker, toBroker', s)
    BY <1>1, <1>2, TakeFacts
  <1>4. \A r \in Session : "broker" \notin ends[r] => toBroker'[r] = <<>>
    BY <1>3 DEF Shorter, IInv, StreamsAgree
  <1>5. \A r \in Session : \A i \in DOMAIN toBroker'[r] :
          toBroker'[r][i].t = "register" => opener[r] \in Worker
    BY <1>3 DEF Shorter, IInv, WorkersServe
  <1> QED
    BY <1>3, <1>4, <1>5 DEF Shorter

\* How many calls of the table P worker w has.
Count(P, w) == Cardinality({p \in P : p.owner = w})

LEMMA LoadIsCount ==
    /\ \A w : Load(w) = Count(pending, w)
    /\ (\A w \in Session : /\ inflight'[w] \in 0 .. Count(pending', w)
                           /\ w \notin ToSet(workers') => inflight'[w] = 0) => InflightNotPinned'
  BY DEF Load, Owned, Count, InflightNotPinned

LEMMA LoadFacts ==
    ASSUME IInv, NEW w \in Session
    PROVE  Load(w) \in Nat /\ IsFiniteSet(Owned(w)) /\ inflight[w] \in Nat /\ inflight[w] <= Load(w)
  <1>1. IsFiniteSet(pending) /\ Owned(w) \in SUBSET pending
    BY DEF IInv, IdsUnique, Owned
  <1>2. IsFiniteSet(Owned(w))
    BY <1>1, FS_Subset
  <1>3. Load(w) \in Nat
    BY <1>2, FS_CardinalityType DEF Load
  <1> QED
    BY <1>2, <1>3 DEF IInv, TypeOK, InflightNotPinned

\* A pending call is settled: by its worker, or by the broker's timer.
LEMMA SettledFacts ==
    ASSUME IInv, NEW p \in pending, NEW ok \in BOOLEAN, NEW of \in Call,
           pending' = pending \ {p}, inflight' = [inflight EXCEPT ![p.owner] = Less(p.owner, 1)],
           Reply(p, ok, of), UNCHANGED <<workers, nextCallId, call>>,
           \A k : NoMore(toBroker, toBroker', "call", k)
    PROVE  /\ toClient' \in [Session -> Seq(ToClientMsg)]
           /\ \A r \in Session : "client" \notin ends[r] => toClient'[r] = <<>>
           /\ \A r \in Session : \A i \in DOMAIN toClient'[r] :
                toClient'[r][i].t = "invoke" => opener[r] \in Worker
           /\ inflight' \in [Session -> Nat]
           /\ pending' \subseteq [id : Nat, from : Session, call : Call, owner : Session]
           /\ IdsUnique' /\ InflightNotPinned' /\ \A k \in Call : InOnePlace(k)'
  <1>1. p.from \in Session /\ p.call \in Call /\ p.owner \in Session
    BY DEF IInv, TypeOK
  <1>2. /\ toClient' \in [Session -> Seq(ToClientMsg)]
        /\ \A s \in Session : "client" \notin ends[s] => toClient'[s] = <<>>
        /\ \A s \in Session : \A i \in DOMAIN toClient'[s] :
             \/ i \in DOMAIN toClient[s] /\ toClient'[s][i] = toClient[s][i]
             \/ /\ toClient'[s][i].t = "answer"
                /\ toClient'[s][i].call = p.call /\ toClient'[s][i].of = of
        /\ \A k : k # p.call => NoMore(toClient, toClient', "answer", k)
        /\ \A k : Nowhere(toClient, "answer", k) => AtMostOne(toClient', "answer", k)
    BY <1>1, ReplyFacts
  <1>3. \A r \in Session : \A i \in DOMAIN toClient'[r] :
          toClient'[r][i].t = "invoke" => opener[r] \in Worker
    BY <1>2 DEF IInv, WorkersServe
  <1>4. \A w \in Session : /\ w # p.owner => Count(pending', w) = Count(pending, w) /\ inflight'[w] = inflight[w]
                           /\ w = p.owner => Count(pending', w) = Count(pending, w) - 1 /\ inflight'[w] = Less(w, 1)
    <2> TAKE w \in Session
    <2>1. w # p.owner => inflight'[w] = inflight[w]
      BY <1>1 DEF IInv, TypeOK
    <2>2. w = p.owner => inflight'[w] = Less(w, 1)
      BY <1>1 DEF IInv, TypeOK
    <2>3. CASE w # p.owner
      <3>1. {q \in pending' : q.owner = w} = {q \in pending : q.owner = w}
        BY <2>3
      <3> QED
        BY <2>1, <2>3, <3>1 DEF Count
    <2>4. CASE w = p.owner
      <3>1. {q \in pending' : q.owner = w} = Owned(w) \ {p} /\ p \in Owned(w)
        BY <2>4 DEF Owned
      <3>2. IsFiniteSet(Owned(w))
        BY LoadFacts
      <3>3. Cardinality(Owned(w) \ {p}) = Cardinality(Owned(w)) - 1
        BY <3>1, <3>2, FS_RemoveElement
      <3> QED
        BY <2>2, <2>4, <3>1, <3>3 DEF Count, Owned
    <2> QED
      BY <2>3, <2>4
  <1>5. ASSUME NEW w \in Session
        PROVE  /\ inflight'[w] \in Nat /\ inflight'[w] <= Count(pending', w) /\ Count(pending', w) \in Nat
               /\ w \notin ToSet(workers') => inflight'[w] = 0
    <2>5. workers' = workers
      OBVIOUS
    <2>1. Count(pending, w) \in Nat /\ inflight[w] \in Nat /\ inflight[w] <= Count(pending, w)
      BY LoadFacts, LoadIsCount
    <2>2. w \notin ToSet(workers) => inflight[w] = 0
      BY DEF IInv, InflightNotPinned
    <2>3. CASE w # p.owner
      <3>1. Count(pending', w) = Count(pending, w) /\ inflight'[w] = inflight[w]
        BY <1>4, <2>3
      <3> QED
        BY ONLY <2>1, <2>2, <2>5, <3>1
    <2>4. CASE w = p.owner
      <3>1. p \in Owned(w) /\ IsFiniteSet(Owned(w))
        BY <2>4, LoadFacts DEF Owned
      <3>2. Count(pending, w) # 0
        BY <3>1, FS_EmptySet DEF Count, Owned
      <3> QED
        <4>1. Count(pending', w) = Count(pending, w) - 1 /\ inflight'[w] = IF inflight[w] < 1 THEN 0 ELSE inflight[w] - 1
          BY <1>4, <2>4 DEF Less
        <4> QED
          BY ONLY <2>1, <2>2, <2>5, <3>2, <4>1
    <2> QED
      BY <2>3, <2>4
  <1>6. InflightNotPinned'
    BY <1>5, LoadIsCount
  <1>7. inflight' \in [Session -> Nat]
    BY <1>1, <1>5 DEF IInv, TypeOK
  <1>8. IdsUnique'
    <2>1. IsFiniteSet(pending')
      BY FS_RemoveElement DEF IInv, IdsUnique
    <2> QED
      BY <2>1 DEF IInv, IdsUnique
  <1>9. ASSUME NEW k \in Call PROVE InOnePlace(k)'
    <2>1. CASE k # p.call
      BY <1>2, <2>1, PlaceKept DEF IInv, OnePlace
    <2>2. CASE k = p.call
      <3>1. InOnePlace(k) /\ ~NotPending(k)
        BY <2>2 DEF IInv, OnePlace, NotPending
      <3>2. Nowhere(toBroker, "call", k) /\ Nowhere(toClient, "answer", k) /\ AtMostOne(toBroker, "call", k)
        BY <3>1 DEF InOnePlace
      <3>3. Nowhere(toBroker', "call", k) /\ AtMostOne(toBroker', "call", k)
        BY <3>2 DEF NoMore
      <3>4. AtMostOne(toClient', "answer", k)
        BY <1>2, <3>2
      <3>5. \A q \in pending' : q.call # k
        BY <2>2, <3>1 DEF InOnePlace
      <3>6. call'[k] \notin {"idle", "answered", "refused"}
        BY <3>1 DEF InOnePlace
      <3> QED
        BY <3>3, <3>4, <3>5, <3>6 DEF InOnePlace, NotPending, Nowhere, AtMostOne
    <2> QED
      BY <2>1, <2>2
  <1> QED
    BY <1>2, <1>3, <1>6, <1>7, <1>8, <1>9 DEF IInv, TypeOK

LEMMA ExpireCallIInv ==
    ASSUME IInv, NEW p \in pending, ExpireCall(p)
    PROVE  IInv'
  <1>1. /\ pending' = pending \ {p} /\ inflight' = [inflight EXCEPT ![p.owner] = Less(p.owner, 1)]
        /\ Reply(p, FALSE, p.call) /\ UNCHANGED <<workers, nextCallId, call, toBroker>>
        /\ UNCHANGED <<linkVars, clientVars, restarts>>
    BY DEF ExpireCall, clientVars
  <1>2. p.call \in Call /\ \A k : NoMore(toBroker, toBroker', "call", k)
    BY <1>1 DEF IInv, TypeOK, NoMore
  <1>3. /\ toClient' \in [Session -> Seq(ToClientMsg)]
        /\ \A r \in Session : "client" \notin ends[r] => toClient'[r] = <<>>
        /\ \A r \in Session : \A i \in DOMAIN toClient'[r] :
             toClient'[r][i].t = "invoke" => opener[r] \in Worker
        /\ inflight' \in [Session -> Nat]
        /\ pending' \subseteq [id : Nat, from : Session, call : Call, owner : Session]
        /\ IdsUnique' /\ InflightNotPinned' /\ \A k \in Call : InOnePlace(k)'
    BY <1>1, <1>2, SettledFacts
  <1>4. toBroker' = toBroker /\ workers' = workers /\ nextCallId' = nextCallId
    BY <1>1
  <1> QED
    BY <1>1, <1>3, <1>4, BrokerIInv DEF IInv, TypeOK, StreamsAgree, WorkersServe

LEMMA AddWorkerIInv ==
    ASSUME IInv, NEW s \in Session, BrokerReceives(s), Head(toBroker[s]).t = "register", AddWorker(s)
    PROVE  IInv'
  <1>1. /\ toBroker[s] # <<>> /\ toBroker' = [toBroker EXCEPT ![s] = Tail(@)]
        /\ UNCHANGED <<linkVars, clientVars, restarts>>
    BY DEF BrokerReceives
  <1>2. /\ toBroker' \in [Session -> Seq(ToBrokerMsg)]
        /\ \A r \in Session : "broker" \notin ends[r] => toBroker'[r] = <<>>
        /\ \A r \in Session : \A i \in DOMAIN toBroker'[r] :
             toBroker'[r][i].t = "register" => opener[r] \in Worker
        /\ \A k : NoMore(toBroker, toBroker', "call", k)
        /\ 1 \in DOMAIN toBroker[s] /\ Head(toBroker[s]) = toBroker[s][1]
    BY <1>1, BrokerReadFacts
  <1>3. opener[s] \in Worker
    BY <1>2 DEF IInv, WorkersServe
  <1>4. UNCHANGED <<toClient, inflight, pending, nextCallId, call>>
    BY <1>1 DEF AddWorker, clientVars
  <1>5. /\ workers' \in Seq(Session) /\ ToSet(workers) \subseteq ToSet(workers')
        /\ ToSet(workers') \subseteq ToSet(workers) \cup {s}
        /\ \A i, j \in DOMAIN workers' : workers'[i] = workers'[j] => i = j
    <2>1. workers \in Seq(Session) /\ \A i, j \in DOMAIN workers : workers[i] = workers[j] => i = j
      BY DEF IInv, TypeOK, WorkersServe
    <2>2. CASE s \in ToSet(workers)
      BY <2>1, <2>2 DEF AddWorker
    <2>3. CASE s \notin ToSet(workers)
      <3> DEFINE q == Append(workers, s)
      <3>1. workers' = q
        BY <2>3 DEF AddWorker
      <3>2. /\ q \in Seq(Session) /\ DOMAIN q = 1 .. Len(workers) + 1
            /\ DOMAIN workers = 1 .. Len(workers) /\ Len(workers) \in Nat
            /\ \A i \in DOMAIN workers : q[i] = workers[i]
            /\ q[Len(workers) + 1] = s
        BY <2>1, AppendFacts
      <3> HIDE DEF q
      <3>3. \A i \in DOMAIN q : \/ i \in DOMAIN workers /\ q[i] = workers[i]
                                \/ i = Len(workers) + 1 /\ q[i] = s
        BY <3>2
      <3>4. \A i \in DOMAIN workers : i \in DOMAIN q /\ workers[i] # s
        BY <2>3, <3>2 DEF ToSet
      <3>5. \A i, j \in DOMAIN q : q[i] = q[j] => i = j
        BY <2>1, <3>3, <3>4
      <3>6. ToSet(workers) \subseteq ToSet(q) /\ ToSet(q) \subseteq ToSet(workers) \cup {s}
        BY <3>2, <3>3, <3>4 DEF ToSet
      <3> QED
        BY <3>1, <3>2, <3>5, <3>6
    <2> QED
      BY <2>2, <2>3
  <1>6. \A w \in ToSet(workers') : opener[w] \in Worker
    BY <1>3, <1>5 DEF IInv, WorkersServe
  <1>7. IdsUnique'
    BY <1>4 DEF IInv, IdsUnique
  <1>8. InflightNotPinned'
    <2>1. \A w \in Session : /\ inflight[w] \in 0 .. Count(pending, w)
                             /\ w \notin ToSet(workers') => inflight[w] = 0
      BY <1>5, LoadIsCount DEF IInv, InflightNotPinned
    <2>2. \A w \in Session : /\ inflight'[w] \in 0 .. Count(pending', w)
                             /\ w \notin ToSet(workers') => inflight'[w] = 0
      BY <1>4, <2>1
    <2> QED
      BY <2>2, LoadIsCount
  <1>9. \A k \in Call : InOnePlace(k)'
    <2>1. \A k : NoMore(toClient, toClient', "answer", k)
      BY <1>4 DEF NoMore
    <2> QED
      BY <1>2, <1>4, <2>1, CallKept
  <1>10. toClient' = toClient /\ inflight' = inflight /\ pending' = pending /\ nextCallId' = nextCallId
    BY <1>4
  <1> QED
    BY <1>1, <1>2, <1>5, <1>6, <1>7, <1>8, <1>9, <1>10, BrokerIInv
       DEF IInv, TypeOK, StreamsAgree, WorkersServe

LEMMA RemoveWorkerIInv ==
    ASSUME IInv, NEW s \in Session, BrokerReceives(s), RemoveWorker(s)
    PROVE  IInv'
  <1>1. /\ toBroker[s] # <<>> /\ toBroker' = [toBroker EXCEPT ![s] = Tail(@)]
        /\ UNCHANGED <<linkVars, clientVars, restarts>>
    BY DEF BrokerReceives
  <1>2. /\ toBroker' \in [Session -> Seq(ToBrokerMsg)]
        /\ \A r \in Session : "broker" \notin ends[r] => toBroker'[r] = <<>>
        /\ \A r \in Session : \A i \in DOMAIN toBroker'[r] :
             toBroker'[r][i].t = "register" => opener[r] \in Worker
        /\ \A k : NoMore(toBroker, toBroker', "call", k)
    BY <1>1, BrokerReadFacts
  <1>3. /\ workers' \in Seq(Session) /\ ToSet(workers') = ToSet(workers) \ {s}
        /\ \A i, j \in DOMAIN workers' : workers'[i] = workers'[j] => i = j
    BY RemainingFacts DEF RemoveWorker
  <1>4. /\ inflight' = [inflight EXCEPT ![s] = 0]
        /\ UNCHANGED <<toClient, pending, nextCallId, call>>
    BY <1>1 DEF RemoveWorker, clientVars
  <1>5. inflight' \in [Session -> Nat]
    BY <1>4 DEF IInv, TypeOK
  <1>6. \A w \in ToSet(workers') : opener[w] \in Worker
    BY <1>3 DEF IInv, WorkersServe
  <1>7. IdsUnique'
    BY <1>4 DEF IInv, IdsUnique
  <1>8. InflightNotPinned'
    <2>1. \A w \in Session : /\ inflight'[w] \in 0 .. Count(pending, w)
                             /\ w \notin ToSet(workers') => inflight'[w] = 0
      <3> TAKE w \in Session
      <3>1. Count(pending, w) \in Nat /\ inflight[w] \in Nat /\ inflight[w] <= Count(pending, w)
        BY LoadFacts, LoadIsCount
      <3>2. w \notin ToSet(workers) => inflight[w] = 0
        BY DEF IInv, InflightNotPinned
      <3>3. inflight'[w] = IF w = s THEN 0 ELSE inflight[w]
        BY <1>4 DEF IInv, TypeOK
      <3> QED
        BY <1>3, <3>1, <3>2, <3>3
    <2>2. \A w \in Session : /\ inflight'[w] \in 0 .. Count(pending', w)
                             /\ w \notin ToSet(workers') => inflight'[w] = 0
      BY <1>4, <2>1
    <2> QED
      BY <2>2, LoadIsCount
  <1>9. \A k \in Call : InOnePlace(k)'
    <2>1. \A k : NoMore(toClient, toClient', "answer", k)
      BY <1>4 DEF NoMore
    <2> QED
      BY <1>2, <1>4, <2>1, CallKept
  <1>10. toClient' = toClient /\ pending' = pending /\ nextCallId' = nextCallId
    BY <1>4
  <1> QED
    BY <1>1, <1>2, <1>3, <1>5, <1>6, <1>7, <1>8, <1>9, <1>10, BrokerIInv
       DEF IInv, TypeOK, StreamsAgree, WorkersServe

LEMMA SettleIInv ==
    ASSUME IInv, NEW s \in Session, BrokerReceives(s), Head(toBroker[s]).t = "result",
           Settle(s, Head(toBroker[s]))
    PROVE  IInv'
  <1> DEFINE m == Head(toBroker[s])
  <1>1. /\ toBroker[s] # <<>> /\ toBroker' = [toBroker EXCEPT ![s] = Tail(@)]
        /\ UNCHANGED <<linkVars, clientVars, restarts>>
    BY DEF BrokerReceives
  <1>2. /\ toBroker' \in [Session -> Seq(ToBrokerMsg)]
        /\ \A r \in Session : "broker" \notin ends[r] => toBroker'[r] = <<>>
        /\ \A r \in Session : \A i \in DOMAIN toBroker'[r] :
             toBroker'[r][i].t = "register" => opener[r] \in Worker
        /\ \A k : NoMore(toBroker, toBroker', "call", k)
        /\ m \in ToBrokerMsg
    BY <1>1, BrokerReadFacts
  <1>3. m.of \in Call /\ m.ok \in BOOLEAN
    BY <1>2, Messages
  <1>4. call' = call
    BY <1>1 DEF clientVars
  <1> HIDE DEF m
  <1>5. CASE UNCHANGED <<toClient, workers, inflight, pending, nextCallId>>
    <2>1. \A k \in Call : InOnePlace(k)'
      <3>1. \A k : NoMore(toClient, toClient', "answer", k)
        BY <1>5 DEF NoMore
      <3> QED
        BY <1>2, <1>4, <1>5, <3>1, CallKept
    <2>2. IdsUnique' /\ InflightNotPinned'
      BY <1>5, TableKept
    <2>3. toClient' = toClient /\ workers' = workers /\ inflight' = inflight /\ pending' = pending
          /\ nextCallId' = nextCallId
      BY <1>5
    <2> QED
      BY <1>1, <1>2, <2>1, <2>2, <2>3, BrokerIInv DEF IInv, TypeOK, StreamsAgree, WorkersServe
  <1>6. ASSUME NEW p \in pending, p.id = m.id, p.owner = s, pending' = pending \ {p},
               inflight' = [inflight EXCEPT ![s] = Less(s, 1)], Reply(p, m.ok, m.of),
               UNCHANGED <<workers, nextCallId>>
        PROVE  IInv'
    <2>1. /\ toClient' \in [Session -> Seq(ToClientMsg)]
          /\ \A r \in Session : "client" \notin ends[r] => toClient'[r] = <<>>
          /\ \A r \in Session : \A i \in DOMAIN toClient'[r] :
               toClient'[r][i].t = "invoke" => opener[r] \in Worker
          /\ inflight' \in [Session -> Nat]
          /\ pending' \subseteq [id : Nat, from : Session, call : Call, owner : Session]
          /\ IdsUnique' /\ InflightNotPinned' /\ \A k \in Call : InOnePlace(k)'
      BY <1>2, <1>3, <1>4, <1>6, SettledFacts
    <2>2. workers' = workers /\ nextCallId' = nextCallId
      BY <1>6
    <2> QED
      BY <1>1, <1>2, <2>1, <2>2, BrokerIInv DEF IInv, TypeOK, WorkersServe
  <1> QED
    BY <1>5, <1>6 DEF Settle, m

\* A call the broker reads is nowhere else, and then no more on its way.
LEMMA CallReadFacts ==
    ASSUME IInv, NEW s \in Session, BrokerReceives(s), Head(toBroker[s]).t = "call"
    PROVE  LET k == Head(toBroker[s]).call
           IN  /\ k \in Call /\ AtMostOne(toBroker', "call", k) /\ Nowhere(toBroker', "call", k)
               /\ NotPending(k) /\ Nowhere(toClient, "answer", k)
               /\ call[k] \notin {"idle", "answered", "refused"}
  <1> DEFINE m == Head(toBroker[s])
             k == m.call
  <1>1. toBroker[s] # <<>> /\ toBroker' = [toBroker EXCEPT ![s] = Tail(@)]
    BY DEF BrokerReceives
  <1>2. /\ m \in ToBrokerMsg /\ 1 \in DOMAIN toBroker[s] /\ m = toBroker[s][1]
        /\ \A h : NoMore(toBroker, toBroker', "call", h)
        /\ \A h : AtMostOne(toBroker, "call", h) /\ Matches(m, "call", h) => Nowhere(toBroker', "call", h)
    BY <1>1, BrokerReadFacts
  <1>3. k \in Call /\ Matches(m, "call", k)
    BY <1>2, Messages DEF Matches
  <1> HIDE DEF m
  <1>4. InOnePlace(k) /\ ~Nowhere(toBroker, "call", k)
    BY <1>2, <1>3 DEF IInv, OnePlace, Nowhere
  <1>5. AtMostOne(toBroker, "call", k)
    BY <1>4 DEF InOnePlace
  <1> QED
    BY <1>2, <1>3, <1>4, <1>5 DEF InOnePlace, NoMore, m

LEMMA RefuseIInv ==
    ASSUME IInv, NEW s \in Session, BrokerReceives(s), Head(toBroker[s]).t = "call",
           Refuse(s, Head(toBroker[s]).call)
    PROVE  IInv'
  <1> DEFINE k == Head(toBroker[s]).call
             p == [from |-> s, call |-> k]
  <1>1. /\ toBroker[s] # <<>> /\ toBroker' = [toBroker EXCEPT ![s] = Tail(@)]
        /\ UNCHANGED <<linkVars, clientVars, restarts>>
    BY DEF BrokerReceives
  <1>2. /\ toBroker' \in [Session -> Seq(ToBrokerMsg)]
        /\ \A r \in Session : "broker" \notin ends[r] => toBroker'[r] = <<>>
        /\ \A r \in Session : \A i \in DOMAIN toBroker'[r] :
             toBroker'[r][i].t = "register" => opener[r] \in Worker
        /\ \A h : NoMore(toBroker, toBroker', "call", h)
    BY <1>1, BrokerReadFacts
  <1>3. /\ k \in Call /\ AtMostOne(toBroker', "call", k) /\ Nowhere(toBroker', "call", k)
        /\ NotPending(k) /\ Nowhere(toClient, "answer", k)
        /\ call[k] \notin {"idle", "answered", "refused"}
    BY CallReadFacts
  <1>4. Reply(p, FALSE, k) /\ UNCHANGED <<workers, inflight, pending, nextCallId>> /\ call' = call
    BY <1>1 DEF Refuse, clientVars
  <1>5. p.from = s /\ p.call = k
    OBVIOUS
  <1> HIDE DEF p, k
  <1>6. /\ toClient' \in [Session -> Seq(ToClientMsg)]
        /\ \A r \in Session : "client" \notin ends[r] => toClient'[r] = <<>>
        /\ \A r \in Session : \A i \in DOMAIN toClient'[r] :
             \/ i \in DOMAIN toClient[r] /\ toClient'[r][i] = toClient[r][i]
             \/ /\ toClient'[r][i].t = "answer"
                /\ toClient'[r][i].call = p.call /\ toClient'[r][i].of = k
        /\ \A h : h # p.call => NoMore(toClient, toClient', "answer", h)
        /\ \A h : Nowhere(toClient, "answer", h) => AtMostOne(toClient', "answer", h)
    <2>1. p.from \in Session /\ p.call \in Call /\ FALSE \in BOOLEAN
      BY <1>3, <1>5
    <2> QED
      BY <1>3, <1>4, <2>1, ReplyFacts
  <1>7. \A r \in Session : \A i \in DOMAIN toClient'[r] :
          toClient'[r][i].t = "invoke" => opener[r] \in Worker
    BY <1>6 DEF IInv, WorkersServe
  <1>8. IdsUnique' /\ InflightNotPinned'
    BY <1>4, TableKept
  <1>9. ASSUME NEW h \in Call PROVE InOnePlace(h)'
    <2>1. CASE h # k
      BY <1>2, <1>4, <1>5, <1>6, <2>1, PlaceKept DEF IInv, OnePlace
    <2>2. CASE h = k
      <3>1. AtMostOne(toClient', "answer", k)
        BY <1>3, <1>6
      <3>2. pending' = pending
        BY <1>4
      <3> QED
        BY <1>3, <1>4, <2>2, <3>1, <3>2 DEF InOnePlace, NotPending, Nowhere, AtMostOne
    <2> QED
      BY <2>1, <2>2
  <1>10. workers' = workers /\ inflight' = inflight /\ pending' = pending /\ nextCallId' = nextCallId
    BY <1>4
  <1> QED
    BY <1>1, <1>2, <1>6, <1>7, <1>8, <1>9, <1>10, BrokerIInv DEF IInv, TypeOK, WorkersServe

LEMMA DispatchIInv ==
    ASSUME IInv, NEW s \in Session, BrokerReceives(s), Head(toBroker[s]).t = "call",
           Dispatch(s, Head(toBroker[s]).call)
    PROVE  IInv'
  <1> DEFINE k == Head(toBroker[s]).call
             w == LeastBusy
             p == [id |-> nextCallId, from |-> s, call |-> k, owner |-> w]
             m == [t |-> "invoke", id |-> nextCallId, call |-> k]
  <1>1. /\ toBroker[s] # <<>> /\ toBroker' = [toBroker EXCEPT ![s] = Tail(@)]
        /\ UNCHANGED <<linkVars, clientVars, restarts>>
    BY DEF BrokerReceives
  <1>2. /\ toBroker' \in [Session -> Seq(ToBrokerMsg)]
        /\ \A r \in Session : "broker" \notin ends[r] => toBroker'[r] = <<>>
        /\ \A r \in Session : \A i \in DOMAIN toBroker'[r] :
             toBroker'[r][i].t = "register" => opener[r] \in Worker
        /\ \A h : NoMore(toBroker, toBroker', "call", h)
    BY <1>1, BrokerReadFacts
  <1>3. /\ k \in Call /\ AtMostOne(toBroker', "call", k) /\ Nowhere(toBroker', "call", k)
        /\ NotPending(k) /\ Nowhere(toClient, "answer", k)
        /\ call[k] \notin {"idle", "answered", "refused"}
    BY CallReadFacts
  <1>4. /\ workers # <<>> /\ nextCallId' = nextCallId + 1
        /\ pending' = pending \cup {p} /\ inflight' = [inflight EXCEPT ![w] = @ + 1]
        /\ toClient' = [toClient EXCEPT ![w] = IF "client" \in ends[w] THEN Append(@, m) ELSE @]
        /\ workers' = workers /\ call' = call
    BY <1>1 DEF Dispatch, clientVars
  <1>5. w \in ToSet(workers) /\ w \in Session /\ opener[w] \in Worker
    BY <1>4, LeastBusyFacts DEF IInv, WorkersServe
  <1>6. nextCallId \in Nat /\ inflight \in [Session -> Nat]
    BY DEF IInv, TypeOK
  <1>7. /\ p \in [id : Nat, from : Session, call : Call, owner : Session]
        /\ p.id = nextCallId /\ p.call = k /\ p.owner = w
    BY <1>3, <1>5, <1>6
  <1>8. m \in ToClientMsg /\ \A h : ~Matches(m, "answer", h)
    BY <1>3, <1>6, Messages DEF Matches
  <1> HIDE DEF p, m, k, w
  <1>9. /\ toClient' \in [Session -> Seq(ToClientMsg)]
        /\ \A r \in Session : "client" \notin ends[r] => toClient'[r] = <<>>
        /\ \A r \in Session : \A i \in DOMAIN toClient'[r] :
             toClient'[r][i].t = "invoke" => opener[r] \in Worker
        /\ \A h : NoMore(toClient, toClient', "answer", h)
    <2>1. toClient \in [Session -> Seq(ToClientMsg)]
      BY DEF IInv, TypeOK
    <2>2. CASE "client" \in ends[w]
      <3>1. toClient' = [toClient EXCEPT ![w] = Append(toClient[w], m)]
        BY <1>4, <1>5, <2>1, <2>2
      <3>2. Longer(ToClientMsg, toClient, toClient', w, m)
        BY <1>5, <1>8, <2>1, <3>1, PutFacts
      <3>3. \A r \in Session : "client" \notin ends[r] => toClient'[r] = <<>>
        BY <2>2, <3>2 DEF Longer, IInv, StreamsAgree
      <3>4. \A r \in Session : \A i \in DOMAIN toClient'[r] :
              toClient'[r][i].t = "invoke" => opener[r] \in Worker
        BY <1>5, <3>2 DEF Longer, IInv, WorkersServe
      <3> QED
        BY <1>8, <3>2, <3>3, <3>4 DEF Longer
    <2>3. CASE "client" \notin ends[w]
      <3>1. toClient' = toClient
        BY <1>4, <2>1, <2>3
      <3> QED
        BY <2>1, <3>1 DEF IInv, StreamsAgree, WorkersServe, NoMore
    <2> QED
      BY <2>2, <2>3
  <1>10. inflight' \in [Session -> Nat] /\ nextCallId' \in Nat
    BY <1>4, <1>5, <1>6
  <1>11. pending' \subseteq [id : Nat, from : Session, call : Call, owner : Session]
    BY <1>4, <1>7 DEF IInv, TypeOK
  <1>12. IsFiniteSet(pending) /\ \A q \in pending : q.id \in Nat /\ q.id < nextCallId
    BY DEF IInv, TypeOK, IdsUnique
  <1>13. IdsUnique'
    <2>1. IsFiniteSet(pending')
      BY <1>4, <1>12, FS_AddElement
    <2>2. \A q \in pending' : q.id < nextCallId'
      BY <1>4, <1>6, <1>7, <1>12
    <2>3. \A q \in pending : q.id # p.id
      BY <1>6, <1>7, <1>12
    <2>4. \A q, r \in pending' : q.id = r.id => q = r
      BY <1>4, <2>3 DEF IInv, IdsUnique
    <2> QED
      BY <2>1, <2>2, <2>4 DEF IdsUnique
  <1>14. InflightNotPinned'
    <2>1. ASSUME NEW v \in Session
          PROVE  /\ inflight'[v] \in 0 .. Count(pending', v)
                 /\ v \notin ToSet(workers') => inflight'[v] = 0
      <3>1. /\ Count(pending, v) \in Nat /\ inflight[v] \in Nat /\ inflight[v] <= Count(pending, v)
            /\ IsFiniteSet(Owned(v))
        BY LoadFacts, LoadIsCount
      <3>2. v \notin ToSet(workers) => inflight[v] = 0
        BY DEF IInv, InflightNotPinned
      <3>3. CASE v # w
        <4>1. inflight'[v] = inflight[v]
          BY <1>4, <1>6, <3>3
        <4>2. {q \in pending' : q.owner = v} = {q \in pending : q.owner = v}
          BY <1>4, <1>7, <3>3
        <4>3. Count(pending', v) = Count(pending, v)
          BY <4>2 DEF Count
        <4> QED
          BY <1>4, <3>1, <3>2, <4>1, <4>3
      <3>4. CASE v = w
        <4>1. inflight'[v] = inflight[v] + 1
          BY <1>4, <1>6, <3>4
        <4>2. {q \in pending' : q.owner = v} = Owned(v) \cup {p}
          BY <1>4, <1>7, <3>4 DEF Owned
        <4>3. p \notin Owned(v)
          BY <1>6, <1>7, <1>12 DEF Owned
        <4>4. Count(pending', v) = Count(pending, v) + 1
          BY <3>1, <4>2, <4>3, FS_AddElement DEF Count, Owned
        <4> QED
          BY <1>4, <1>5, <3>1, <3>4, <4>1, <4>4
      <3> QED
        BY <3>3, <3>4
    <2> QED
      BY <2>1, LoadIsCount
  <1>15. ASSUME NEW h \in Call PROVE InOnePlace(h)'
    <2>1. CASE h # k
      <3>1. \A q \in pending' : q.call = h => q \in pending
        BY <1>4, <1>7, <2>1
      <3> QED
        BY <1>2, <1>4, <1>9, <3>1, PlaceKept DEF IInv, OnePlace
    <2>2. CASE h = k
      <3>1. AtMostOne(toClient', "answer", k) /\ Nowhere(toClient', "answer", k)
        BY <1>3, <1>9 DEF NoMore, Nowhere, AtMostOne
      <3>2. \A q, r \in pending' : q.call = k /\ r.call = k => q = r
        BY <1>3, <1>4 DEF NotPending
      <3> QED
        BY <1>3, <1>4, <2>2, <3>1, <3>2 DEF InOnePlace, NotPending, Nowhere, AtMostOne
    <2> QED
      BY <2>1, <2>2
  <1> QED
    BY <1>1, <1>2, <1>4, <1>9, <1>10, <1>11, <1>13, <1>14, <1>15, BrokerIInv
       DEF IInv, TypeOK, WorkersServe

LEMMA BrokerReceivesIInv ==
    ASSUME IInv, NEW s \in Session, BrokerReceives(s)
    PROVE  IInv'
  <1> DEFINE m == Head(toBroker[s])
  <1>1. \/ m.t = "register" /\ AddWorker(s)
        \/ m.t = "unregister" /\ RemoveWorker(s)
        \/ m.t = "call" /\ Refuse(s, m.call)
        \/ m.t = "call" /\ Dispatch(s, m.call)
        \/ m.t = "result" /\ Settle(s, m)
    BY DEF BrokerReceives
  <1> QED
    BY <1>1, AddWorkerIInv, RemoveWorkerIInv, RefuseIInv, DispatchIInv, SettleIInv

\* The answers that say that the worker is gone are to calls it had, one each.
LEMMA GoneFacts ==
    ASSUME IInv, NEW s \in Session, NEW r \in Session
    PROVE  /\ Gone(s, r) \in Seq(ToClientMsg)
           /\ \A i \in DOMAIN Gone(s, r) :
                /\ Gone(s, r)[i].t = "answer" /\ Gone(s, r)[i].of = Gone(s, r)[i].call
                /\ \E p \in Owned(s) : p.from = r /\ p.call = Gone(s, r)[i].call
           /\ \A i, j \in DOMAIN Gone(s, r) : Gone(s, r)[i].call = Gone(s, r)[j].call => i = j
  <1> DEFINE ps == {p \in Failed(s) : p.from = r}
             n == Cardinality(ps)
             Err(k) == [t |-> "answer", call |-> k, of |-> k, ok |-> FALSE]
             g == Gone(s, r)
  <1>1. ps \subseteq Owned(s) /\ ps \in SUBSET pending /\ \A p \in ps : p.from = r
    BY DEF Failed, Owned
  <1>2. \A p \in ps : p.id \in Nat /\ p.call \in Call
    BY <1>1 DEF IInv, TypeOK
  <1>3. \A p, q \in ps : (p.id = q.id => p = q) /\ (p.call = q.call => p = q)
    BY <1>1, <1>2 DEF IInv, IdsUnique, OnePlace, InOnePlace
  <1>4. IsFiniteSet(ps)
    BY <1>1, FS_Subset DEF IInv, IdsUnique
  <1>5. g = [i \in 1 .. n |-> Err(Nth(ps, i).call)]
    BY DEF Gone
  <1>6. \A k \in Call : /\ Err(k) \in ToClientMsg /\ Err(k).t = "answer"
                        /\ Err(k).call = k /\ Err(k).of = k
    BY Messages
  <1> HIDE DEF ps, g, Err
  <1>7. /\ n \in Nat
        /\ \A i \in 1 .. n : Nth(ps, i) \in ps
        /\ \A i, j \in 1 .. n : Nth(ps, i) = Nth(ps, j) => i = j
    BY <1>2, <1>3, <1>4, NthFacts
  <1> HIDE DEF n
  <1>8. \A i \in 1 .. n : Nth(ps, i).call \in Call
    BY <1>2, <1>7
  <1>9. DOMAIN g = 1 .. n /\ \A i \in 1 .. n : g[i] = Err(Nth(ps, i).call)
    BY <1>5
  <1>10. g \in Seq(ToClientMsg)
    <2>1. \A i \in 1 .. n : g[i] \in ToClientMsg
      BY <1>6, <1>8, <1>9
    <2> QED
      BY <1>5, <1>7, <1>9, <2>1
  <1>11. \A i \in 1 .. n : g[i].t = "answer" /\ g[i].call = Nth(ps, i).call /\ g[i].of = g[i].call
    BY <1>6, <1>8, <1>9
  <1>12. \A i \in 1 .. n : \E p \in Owned(s) : p.from = r /\ p.call = g[i].call
    BY <1>1, <1>7, <1>11
  <1>13. \A i, j \in 1 .. n : g[i].call = g[j].call => i = j
    BY <1>3, <1>7, <1>11
  <1> QED
    BY <1>9, <1>10, <1>11, <1>12, <1>13 DEF g

LEMMA BrokerClosesStreams ==
    ASSUME IInv, NEW s \in Session, BrokerCloses(s)
    PROVE  /\ toClient' \in [Session -> Seq(ToClientMsg)]
           /\ \A r \in Session : "client" \notin ends[r] => toClient'[r] = <<>>
           /\ \A r \in Session : \A i \in DOMAIN toClient'[r] :
                \/ i \in DOMAIN toClient[r] /\ toClient'[r][i] = toClient[r][i]
                \/ /\ i \notin DOMAIN toClient[r]
                   /\ toClient'[r][i].t = "answer" /\ toClient'[r][i].of = toClient'[r][i].call
                   /\ \E p \in Owned(s) : p.from = r /\ p.call = toClient'[r][i].call
                   /\ \A j \in DOMAIN toClient'[r] :
                        j \notin DOMAIN toClient[r] /\ toClient'[r][i].call = toClient'[r][j].call
                        => i = j
  <1>1. toClient \in [Session -> Seq(ToClientMsg)]
    BY DEF IInv, TypeOK
  <1>2. toClient' = [r \in Session |->
             IF ends[r] = {"client", "broker"} THEN toClient[r] \o Gone(s, r) ELSE toClient[r]]
    BY DEF BrokerCloses
  <1>3. ASSUME NEW r \in Session
        PROVE  /\ toClient'[r] \in Seq(ToClientMsg)
               /\ "client" \notin ends[r] => toClient'[r] = <<>>
               /\ \A i \in DOMAIN toClient'[r] :
                    \/ i \in DOMAIN toClient[r] /\ toClient'[r][i] = toClient[r][i]
                    \/ /\ i \notin DOMAIN toClient[r]
                       /\ toClient'[r][i].t = "answer" /\ toClient'[r][i].of = toClient'[r][i].call
                       /\ \E p \in Owned(s) : p.from = r /\ p.call = toClient'[r][i].call
                       /\ \A j \in DOMAIN toClient'[r] :
                            j \notin DOMAIN toClient[r] /\ toClient'[r][i].call = toClient'[r][j].call
                            => i = j
    <2>1. CASE ends[r] # {"client", "broker"}
      BY <1>1, <1>2, <2>1 DEF IInv, StreamsAgree
    <2>2. CASE ends[r] = {"client", "broker"}
      <3> DEFINE g == Gone(s, r)
                 q == toClient[r]
                 c == q \o g
      <3>1. toClient'[r] = c
        BY <1>2, <2>2
      <3>2. /\ g \in Seq(ToClientMsg)
            /\ \A i \in DOMAIN g : /\ g[i].t = "answer" /\ g[i].of = g[i].call
                                   /\ \E p \in Owned(s) : p.from = r /\ p.call = g[i].call
            /\ \A i, j \in DOMAIN g : g[i].call = g[j].call => i = j
        BY GoneFacts
      <3> HIDE DEF g
      <3>3. q \in Seq(ToClientMsg)
        BY <1>1
      <3> HIDE DEF q
      <3>4. /\ c \in Seq(ToClientMsg) /\ Len(c) = Len(q) + Len(g)
            /\ \A i \in 1 .. Len(q) + Len(g) : c[i] = IF i <= Len(q) THEN q[i] ELSE g[i - Len(q)]
        BY <3>2, <3>3, ConcatProperties
      <3> HIDE DEF c
      <3>5. /\ Len(q) \in Nat /\ Len(g) \in Nat /\ DOMAIN q = 1 .. Len(q) /\ DOMAIN g = 1 .. Len(g)
            /\ DOMAIN c = 1 .. Len(q) + Len(g)
        BY <3>2, <3>3, <3>4
      <3>6. \A i \in DOMAIN c : \/ i \in DOMAIN q /\ c[i] = q[i]
                                \/ i \notin DOMAIN q /\ i - Len(q) \in DOMAIN g /\ c[i] = g[i - Len(q)]
        BY <3>4, <3>5
      <3>7. ASSUME NEW i \in DOMAIN c, i \notin DOMAIN q
            PROVE  /\ c[i].t = "answer" /\ c[i].of = c[i].call
                   /\ \E p \in Owned(s) : p.from = r /\ p.call = c[i].call
                   /\ \A j \in DOMAIN c : j \notin DOMAIN q /\ c[i].call = c[j].call => i = j
        <4>1. i - Len(q) \in DOMAIN g /\ c[i] = g[i - Len(q)]
          BY <3>6, <3>7
        <4>2. ASSUME NEW j \in DOMAIN c, j \notin DOMAIN q, c[i].call = c[j].call
              PROVE  i = j
          <5>1. j - Len(q) \in DOMAIN g /\ c[j] = g[j - Len(q)]
            BY <3>6, <4>2
          <5>2. i - Len(q) = j - Len(q)
            BY <3>2, <4>1, <4>2, <5>1
          <5> QED
            BY <3>5, <5>2
        <4> QED
          BY <3>2, <4>1, <4>2
      <3>8. "client" \in ends[r]
        BY <2>2
      <3> QED
        BY <3>1, <3>4, <3>6, <3>7, <3>8 DEF q
    <2> QED
      BY <2>1, <2>2
  <1>4. toClient' \in [Session -> Seq(ToClientMsg)]
    BY <1>2, <1>3
  <1> QED
    BY <1>3, <1>4

LEMMA BrokerClosesIInv ==
    ASSUME IInv, NEW s \in Session, BrokerCloses(s)
    PROVE  IInv'
  <1> DEFINE Lost(w) == {p \in Made(s) : p.owner = w}
  <1>1. /\ "broker" \in ends[s]
        /\ ends' = [ends EXCEPT ![s] = @ \ {"broker"}]
        /\ toBroker' = [toBroker EXCEPT ![s] = <<>>]
        /\ workers' = Remaining(s)
        /\ inflight' = [w \in Session |-> IF w = s THEN 0 ELSE Less(w, Cardinality(Lost(w)))]
        /\ pending' = pending \ (Owned(s) \cup Made(s))
        /\ UNCHANGED <<opener, peer, retry, handles, toggles, call, jobs, nextCallId, restarts>>
    BY DEF BrokerCloses, clientVars
  <1>2. /\ toClient' \in [Session -> Seq(ToClientMsg)]
        /\ \A r \in Session : "client" \notin ends[r] => toClient'[r] = <<>>
        /\ \A r \in Session : \A i \in DOMAIN toClient'[r] :
             \/ i \in DOMAIN toClient[r] /\ toClient'[r][i] = toClient[r][i]
             \/ /\ i \notin DOMAIN toClient[r]
                /\ toClient'[r][i].t = "answer" /\ toClient'[r][i].of = toClient'[r][i].call
                /\ \E p \in Owned(s) : p.from = r /\ p.call = toClient'[r][i].call
                /\ \A j \in DOMAIN toClient'[r] :
                     j \notin DOMAIN toClient[r] /\ toClient'[r][i].call = toClient'[r][j].call
                     => i = j
    BY BrokerClosesStreams
  <1>3. /\ workers' \in Seq(Session) /\ ToSet(workers') = ToSet(workers) \ {s}
        /\ \A i, j \in DOMAIN workers' : workers'[i] = workers'[j] => i = j
    BY <1>1, RemainingFacts
  <1>4. toBroker' \in [Session -> Seq(ToBrokerMsg)] /\ Fewer(toBroker, toBroker')
    <2>1. toBroker \in [Session -> Seq(ToBrokerMsg)] /\ <<>> \in Seq(ToBrokerMsg)
      BY DEF IInv, TypeOK
    <2>2. toBroker' \in [Session -> Seq(ToBrokerMsg)]
      BY <1>1, <2>1
    <2>3. \A r \in Session : toBroker'[r] = toBroker[r] \/ toBroker'[r] = <<>>
      BY <1>1, <2>1
    <2> QED
      BY <2>1, <2>2, <2>3, DropFacts
  <1>5. ASSUME NEW w \in Session
        PROVE  /\ inflight'[w] \in 0 .. Count(pending', w) /\ inflight'[w] \in Nat
               /\ w \notin ToSet(workers') => inflight'[w] = 0
    <2>1. /\ Count(pending, w) \in Nat /\ inflight[w] \in Nat /\ inflight[w] <= Count(pending, w)
          /\ IsFiniteSet(Owned(w))
      BY LoadFacts, LoadIsCount
    <2>2. w \notin ToSet(workers) => inflight[w] = 0
      BY DEF IInv, InflightNotPinned
    <2>3. IsFiniteSet(pending')
      BY <1>1, FS_Difference DEF IInv, IdsUnique
    <2>4. Count(pending', w) \in Nat
      <3>1. {p \in pending' : p.owner = w} \in SUBSET pending'
        OBVIOUS
      <3> QED
        BY <2>3, <3>1, FS_Subset, FS_CardinalityType DEF Count
    <2>5. CASE w = s
      BY <1>1, <2>4, <2>5
    <2>6. CASE w # s
      <3>1. Lost(w) \in SUBSET Owned(w) /\ Owned(w) \cap Lost(w) = Lost(w)
        BY DEF Made, Owned
      <3>2. {p \in pending' : p.owner = w} = Owned(w) \ Lost(w)
        BY <1>1, <2>6 DEF Made, Owned
      <3>3. inflight'[w] = Less(w, Cardinality(Lost(w)))
        BY <1>1, <2>6
      <3> HIDE DEF Lost
      <3>4. Cardinality(Lost(w)) \in Nat /\ Cardinality(Lost(w)) <= Cardinality(Owned(w))
        BY <2>1, <3>1, FS_Subset, FS_CardinalityType
      <3>5. Cardinality(Owned(w) \ Lost(w)) = Cardinality(Owned(w)) - Cardinality(Lost(w))
        BY <2>1, <3>1, FS_Difference
      <3>6. Count(pending', w) = Count(pending, w) - Cardinality(Lost(w))
        BY <3>2, <3>5 DEF Count, Owned
      <3>7. inflight'[w] = IF inflight[w] < Cardinality(Lost(w)) THEN 0
                           ELSE inflight[w] - Cardinality(Lost(w))
        BY <3>3 DEF Less
      <3>8. w \in ToSet(workers') <=> w \in ToSet(workers)
        BY <1>3, <2>6
      <3> QED
        BY <2>1, <2>2, <2>4, <3>4, <3>6, <3>7, <3>8
    <2> QED
      BY <2>5, <2>6
  <1>6. InflightNotPinned'
    <2>1. \A w \in Session : /\ inflight'[w] \in 0 .. Count(pending', w)
                             /\ w \notin ToSet(workers') => inflight'[w] = 0
      BY <1>5
    <2> QED
      BY <2>1, LoadIsCount
  <1>7. IdsUnique'
    <2>1. IsFiniteSet(pending')
      BY <1>1, FS_Difference DEF IInv, IdsUnique
    <2> QED
      BY <1>1, <2>1 DEF IInv, IdsUnique
  <1>8. TypeOK'
    <2>1. ends' \in [Session -> SUBSET {"client", "broker"}]
      BY <1>1 DEF IInv, TypeOK
    <2>2. inflight' \in [Session -> Nat]
      BY <1>1, <1>5
    <2>3. pending' \subseteq [id : Nat, from : Session, call : Call, owner : Session]
      BY <1>1 DEF IInv, TypeOK
    <2> QED
      BY <1>1, <1>2, <1>3, <1>4, <2>1, <2>2, <2>3 DEF IInv, TypeOK
  <1>9. StreamsAgree'
    BY <1>1, <1>2 DEF IInv, TypeOK, StreamsAgree
  <1>10. LinksAgree'
    BY <1>1 DEF IInv, LinksAgree
  <1>11. WorkersServe'
    <2>1. \A w \in ToSet(workers') : opener[w] \in Worker
      BY <1>3 DEF IInv, WorkersServe
    <2>2. \A r \in Session : \A i \in DOMAIN toBroker'[r] :
            toBroker'[r][i].t = "register" => opener[r] \in Worker
      BY <1>4 DEF IInv, WorkersServe, Fewer
    <2>3. \A r \in Session : \A i \in DOMAIN toClient'[r] :
            toClient'[r][i].t = "invoke" => opener[r] \in Worker
      BY <1>2 DEF IInv, WorkersServe
    <2> QED
      BY <1>1, <1>3, <2>1, <2>2, <2>3 DEF WorkersServe, ToSet
  <1>12. ASSUME NEW k \in Call PROVE InOnePlace(k)'
    <2>1. InOnePlace(k) /\ NoMore(toBroker, toBroker', "call", k)
      BY <1>4 DEF IInv, OnePlace, Fewer
    <2>2. ASSUME NEW r \in Session, NEW i \in DOMAIN toClient'[r],
                 Matches(toClient'[r][i], "answer", k)
          PROVE  \/ /\ i \in DOMAIN toClient[r] /\ toClient'[r][i] = toClient[r][i]
                    /\ ~Nowhere(toClient, "answer", k)
                 \/ /\ i \notin DOMAIN toClient[r]
                    /\ \E p \in Owned(s) : p.from = r /\ p.call = k
                    /\ \A j \in DOMAIN toClient'[r] :
                         j \notin DOMAIN toClient[r] /\ toClient'[r][j].call = k => i = j
      <3>1. CASE i \in DOMAIN toClient[r] /\ toClient'[r][i] = toClient[r][i]
        BY <2>2, <3>1 DEF Nowhere
      <3>2. CASE ~(i \in DOMAIN toClient[r] /\ toClient'[r][i] = toClient[r][i])
        <4>1. toClient'[r][i].call = k
          BY <2>2 DEF Matches
        <4>2. /\ i \notin DOMAIN toClient[r]
              /\ \E p \in Owned(s) : p.from = r /\ p.call = k
              /\ \A j \in DOMAIN toClient'[r] :
                   j \notin DOMAIN toClient[r] /\ toClient'[r][j].call = k => i = j
          BY <1>2, <3>2, <4>1
        <4> QED
          BY <4>2
      <3> QED
        BY <3>1, <3>2
    <2>3. AtMostOne(toClient', "answer", k)
      <3> SUFFICES ASSUME NEW r \in Session, NEW q \in Session,
                          NEW i \in DOMAIN toClient'[r], NEW j \in DOMAIN toClient'[q],
                          Matches(toClient'[r][i], "answer", k), Matches(toClient'[q][j], "answer", k)
                   PROVE  r = q /\ i = j
        BY DEF AtMostOne
      <3>1. CASE NotPending(k)
        BY <2>1, <2>2, <3>1 DEF NotPending, Owned, InOnePlace, AtMostOne
      <3>2. CASE ~NotPending(k)
        <4>1. Nowhere(toClient, "answer", k)
          BY <2>1, <3>2 DEF InOnePlace
        <4>2. /\ i \notin DOMAIN toClient[r] /\ j \notin DOMAIN toClient[q]
              /\ \E p \in Owned(s) : p.from = r /\ p.call = k
              /\ \E p \in Owned(s) : p.from = q /\ p.call = k
              /\ \A x \in DOMAIN toClient'[r] :
                   x \notin DOMAIN toClient[r] /\ toClient'[r][x].call = k => i = x
          BY <2>2, <4>1
        <4>3. r = q
          BY <2>1, <4>2 DEF InOnePlace, Owned
        <4>4. j \in DOMAIN toClient'[r] /\ j \notin DOMAIN toClient[r] /\ toClient'[r][j].call = k
          BY <4>2, <4>3 DEF Matches
        <4> QED
          BY <4>2, <4>3, <4>4
      <3> QED
        BY <3>1, <3>2
    <2>4. CASE NotPending(k)
      <3>1. Nowhere(toClient, "answer", k) => Nowhere(toClient', "answer", k)
        BY <2>2, <2>4 DEF NotPending, Owned, Nowhere
      <3>2. NoMore(toClient, toClient', "answer", k)
        BY <2>3, <3>1 DEF NoMore
      <3> QED
        BY <1>1, <2>1, <2>4, <3>2, PlaceKept DEF NotPending
    <2>5. CASE ~NotPending(k)
      <3>1. PICK p \in pending : p.call = k
        BY <2>5 DEF NotPending
      <3>2. /\ Nowhere(toClient, "answer", k) /\ Nowhere(toBroker, "call", k)
            /\ call[k] \notin {"idle", "answered", "refused"}
            /\ \A q \in pending : q.call = k => q = p
        BY <2>1, <2>5, <3>1 DEF InOnePlace
      <3>3. Nowhere(toBroker', "call", k) /\ AtMostOne(toBroker', "call", k)
        BY <2>1, <3>2 DEF NoMore, InOnePlace
      <3>4. NotPending(k)' \/ Nowhere(toClient', "answer", k)
        <4>1. CASE p \in Owned(s)
          BY <1>1, <3>2, <4>1 DEF NotPending
        <4>2. CASE p \notin Owned(s)
          BY <2>2, <3>2, <4>2 DEF Owned, Nowhere
        <4> QED
          BY <4>1, <4>2
      <3>5. \A q, x \in pending' : q.call = k /\ x.call = k => q = x
        BY <1>1, <3>2
      <3>6. call'[k] \notin {"idle", "answered", "refused"}
        BY <1>1, <3>2
      <3> QED
        BY <2>3, <3>3, <3>4, <3>5, <3>6 DEF InOnePlace, NotPending, Nowhere, AtMostOne
    <2> QED
      BY <2>4, <2>5
  <1>13. OnePlace'
    BY <1>12 DEF OnePlace
  <1> QED
    BY <1>6, <1>7, <1>8, <1>9, <1>10, <1>11, <1>13 DEF IInv

-----------------------------------------------------------------------------
(* What holds in every reachable state.                                    *)

LEMMA NextIInv == IInv /\ [Next]_vars => IInv'
  <1> SUFFICES ASSUME IInv, [Next]_vars PROVE IInv'
    OBVIOUS
  <1>1. CASE UNCHANGED vars
    <2>1. UNCHANGED <<opener, ends, toBroker, toClient, peer, retry, handles, toggles, call, jobs,
                      workers, inflight, pending, nextCallId, restarts>>
      BY <1>1 DEF vars, linkVars, clientVars, brokerVars
    <2>2. OnePlace'
      <3>1. \A k : NoMore(toClient, toClient', "answer", k) /\ NoMore(toBroker, toBroker', "call", k)
        BY <2>1 DEF NoMore
      <3> QED
        BY <2>1, <3>1, CallKept DEF OnePlace
    <2>3. TypeOK'
      BY <2>1 DEF IInv, TypeOK
    <2>4. StreamsAgree' /\ LinksAgree' /\ WorkersServe'
      BY <2>1 DEF IInv, StreamsAgree, LinksAgree, WorkersServe
    <2> QED
      BY <2>1, <2>2, <2>3, <2>4, TableKept DEF IInv
  <1>2. CASE Next
    <2>1. ASSUME NEW c \in Client, Connect(c) PROVE IInv'
      BY <2>1, ConnectIInv
    <2>2. ASSUME NEW c \in Worker, Toggle(c) PROVE IInv'
      BY <2>2, ToggleIInv
    <2>3. ASSUME NEW k \in Call, SendCall(k) PROVE IInv'
      BY <2>3, SendCallIInv
    <2>4. ASSUME NEW k \in Call, CallTimeout(k) PROVE IInv'
      BY <2>4, CallTimeoutIInv
    <2>5. ASSUME NEW s \in Session, ClientCloses(s) PROVE IInv'
      BY <2>5, ClientClosesIInv
    <2>6. ASSUME NEW s \in Session, BrokerCloses(s) PROVE IInv'
      BY <2>6, BrokerClosesIInv
    <2>7. ASSUME NEW s \in Session, BrokerReceives(s) PROVE IInv'
      BY <2>7, BrokerReceivesIInv
    <2>8. ASSUME NEW s \in Session, ClientReceives(s) PROVE IInv'
      BY <2>8, ClientReceivesIInv
    <2>9. ASSUME NEW p \in pending, ExpireCall(p) PROVE IInv'
      BY <2>9, ExpireCallIInv
    <2>10. ASSUME NEW j \in jobs, FinishJob(j) PROVE IInv'
      BY <2>10, FinishJobIInv
    <2>11. CASE Restart
      BY <2>11, RestartIInv
    <2> QED
      BY <1>2, <2>1, <2>2, <2>3, <2>4, <2>5, <2>6, <2>7, <2>8, <2>9, <2>10, <2>11 DEF Next
  <1> QED
    BY <1>1, <1>2

\* Where the calls are, what their ids are and what the workers count follow
\* from one another in every reachable state.
THEOREM Inductive == Spec => []IInv
  <1> QED
    BY InitIInv, NextIInv, PTL DEF Spec

\* Every variable keeps its type, the streams and the pending table included.
THEOREM TypeCorrect == Spec => []TypeOK
  <1>1. IInv => TypeOK
    BY DEF IInv
  <1> QED
    BY <1>1, Inductive, PTL

\* A worker counts no call that is not pending on it, and nobody else counts
\* any, whichever way the others ended (_decInflight, _unregister, _onClose).
THEOREM InflightHolds == Spec => []InflightNotPinned
  <1>1. IInv => InflightNotPinned
    BY DEF IInv
  <1> QED
    BY <1>1, Inductive, PTL

LEMMA InStreamFacts ==
    ASSUME NEW S, NEW stream \in [Session -> Seq(S)], NEW t, NEW k, AtMostOne(stream, t, k)
    PROVE  /\ Cardinality(InStream(stream, t, k)) \in {0, 1}
           /\ Nowhere(stream, t, k) => Cardinality(InStream(stream, t, k)) = 0
  <1> DEFINE I == InStream(stream, t, k)
  <1>1. \A x \in I : /\ x = <<x[1], x[2]>> /\ x[1] \in Session /\ x[2] \in DOMAIN stream[x[1]]
                     /\ Matches(stream[x[1]][x[2]], t, k)
    BY DEF InStream, Matches
  <1> HIDE DEF I
  <1>2. \A x, y \in I : x = y
    BY <1>1 DEF AtMostOne
  <1>3. I = {} \/ \E x : I = {x}
    <2> SUFFICES ASSUME NEW x \in I PROVE I = {x}
      OBVIOUS
    <2> QED
      BY <1>2
  <1>4. Cardinality(I) \in {0, 1}
    BY <1>3, FS_EmptySet, FS_Singleton
  <1>5. Nowhere(stream, t, k) => I = {}
    BY <1>1 DEF Nowhere
  <1> QED
    BY <1>4, <1>5, FS_EmptySet DEF I

\* A call is settled once: of a call, its pending entry and its answer there is
\* one at a time, and none when the client has an answer.
THEOREM AnsweredHolds == Spec => []AnsweredOnce
  <1>1. IInv => AnsweredOnce
    <2> SUFFICES ASSUME IInv, NEW k \in Call
                 PROVE  Cardinality(InStream(toBroker, "call", k))
                        + Cardinality({p \in pending : p.call = k})
                        + Cardinality(InStream(toClient, "answer", k))
                        + (IF call[k] \in {"answered", "refused"} THEN 1 ELSE 0) <= 1
      BY DEF AnsweredOnce
    <2> DEFINE a == Cardinality(InStream(toBroker, "call", k))
               P == {p \in pending : p.call = k}
               b == Cardinality(P)
               c == Cardinality(InStream(toClient, "answer", k))
    <2>1. InOnePlace(k)
      BY DEF IInv, OnePlace
    <2>2. a \in {0, 1} /\ (Nowhere(toBroker, "call", k) => a = 0)
      BY <2>1, InStreamFacts DEF IInv, TypeOK, InOnePlace
    <2>3. c \in {0, 1} /\ (Nowhere(toClient, "answer", k) => c = 0)
      BY <2>1, InStreamFacts DEF IInv, TypeOK, InOnePlace
    <2>4. b \in {0, 1} /\ (NotPending(k) => b = 0)
      <3>1. P = {} \/ \E p : P = {p}
        <4> SUFFICES ASSUME NEW p \in P PROVE P = {p}
          OBVIOUS
        <4> QED
          BY <2>1 DEF InOnePlace
      <3>2. NotPending(k) => P = {}
        BY DEF NotPending
      <3> QED
        BY <3>1, <3>2, FS_EmptySet, FS_Singleton
    <2> HIDE DEF a, b, c
    <2>5. a + b + c + (IF call[k] \in {"answered", "refused"} THEN 1 ELSE 0) <= 1
      BY <2>1, <2>2, <2>3, <2>4 DEF InOnePlace
    <2> QED
      BY <2>5 DEF a, b, c, P
  <1> QED
    BY <1>1, Inductive, PTL

-----------------------------------------------------------------------------
(* Answers go where they belong.                                           *)

\* IdIsOf of the table P whose next id is n.
Agrees(P, n, id, k) == id < n /\ \A p \in P : p.id = id => p.call = k

\* Nothing new is said of the ids of the table but what agrees with it.
LEMMA OwnKept ==
    ASSUME IInv, OwnInv,
           \A id \in Nat, k \in Call :
             Agrees(pending, nextCallId, id, k) => Agrees(pending', nextCallId', id, k),
           \A s \in Session : "broker" \in ends'[s] => "broker" \in ends[s],
           \A s \in Session : \A i \in DOMAIN toClient'[s] :
             \/ \E j \in DOMAIN toClient[s] : toClient'[s][i] = toClient[s][j]
             \/ toClient'[s][i].t = "answer" /\ toClient'[s][i].of = toClient'[s][i].call
             \/ /\ toClient'[s][i].t = "invoke"
                /\ Agrees(pending', nextCallId', toClient'[s][i].id, toClient'[s][i].call),
           \A j \in jobs' : \/ j \in jobs
                            \/ "broker" \in ends[j.peer] => Agrees(pending', nextCallId', j.id, j.call),
           \A s \in Session : \A i \in DOMAIN toBroker'[s] :
             \/ \E j \in DOMAIN toBroker[s] : toBroker'[s][i] = toBroker[s][j]
             \/ toBroker'[s][i].t # "result"
             \/ "broker" \in ends[s] =>
                 Agrees(pending', nextCallId', toBroker'[s][i].id, toBroker'[s][i].of)
    PROVE  IdsAgree' /\ AnswerIsOwn'
  <1>1. AnswerIsOwn'
    BY DEF OwnInv, AnswerIsOwn
  <1>2. ASSUME NEW s \in Session, "broker" \in ends'[s]
        PROVE  /\ \A i \in DOMAIN toClient'[s] : toClient'[s][i].t = "invoke" =>
                    Agrees(pending', nextCallId', toClient'[s][i].id, toClient'[s][i].call)
               /\ \A j \in jobs' : j.peer = s => Agrees(pending', nextCallId', j.id, j.call)
               /\ \A i \in DOMAIN toBroker'[s] : toBroker'[s][i].t = "result" =>
                    Agrees(pending', nextCallId', toBroker'[s][i].id, toBroker'[s][i].of)
    <2>1. "broker" \in ends[s]
      BY <1>2
    <2>2. /\ \A i \in DOMAIN toClient[s] : toClient[s][i].t = "invoke" =>
               Agrees(pending, nextCallId, toClient[s][i].id, toClient[s][i].call)
          /\ \A j \in jobs : j.peer = s => Agrees(pending, nextCallId, j.id, j.call)
          /\ \A i \in DOMAIN toBroker[s] : toBroker[s][i].t = "result" =>
               Agrees(pending, nextCallId, toBroker[s][i].id, toBroker[s][i].of)
      BY <2>1 DEF OwnInv, IdsAgree, IdIsOf, Agrees
    <2>3. /\ \A i \in DOMAIN toClient[s] : toClient[s][i] \in ToClientMsg
          /\ \A i \in DOMAIN toBroker[s] : toBroker[s][i] \in ToBrokerMsg
          /\ \A j \in jobs : j.id \in Nat /\ j.call \in Call
      <3>1. toClient[s] \in Seq(ToClientMsg) /\ toBroker[s] \in Seq(ToBrokerMsg)
        BY DEF IInv, TypeOK
      <3> QED
        BY <3>1 DEF IInv, TypeOK
    <2>4. \A i \in DOMAIN toClient[s] : toClient[s][i].t = "invoke" =>
            Agrees(pending', nextCallId', toClient[s][i].id, toClient[s][i].call)
      BY <2>2, <2>3, Messages
    <2>5. \A i \in DOMAIN toBroker[s] : toBroker[s][i].t = "result" =>
            Agrees(pending', nextCallId', toBroker[s][i].id, toBroker[s][i].of)
      BY <2>2, <2>3, Messages
    <2>6. \A j \in jobs : j.peer = s => Agrees(pending', nextCallId', j.id, j.call)
      BY <2>2, <2>3
    <2>7. \A i \in DOMAIN toClient'[s] : toClient'[s][i].t = "invoke" =>
            Agrees(pending', nextCallId', toClient'[s][i].id, toClient'[s][i].call)
      BY <2>4
    <2>8. \A i \in DOMAIN toBroker'[s] : toBroker'[s][i].t = "result" =>
            Agrees(pending', nextCallId', toBroker'[s][i].id, toBroker'[s][i].of)
      BY <2>1, <2>5
    <2>9. \A j \in jobs' : j.peer = s => Agrees(pending', nextCallId', j.id, j.call)
      BY <2>1, <2>6
    <2> QED
      BY <2>7, <2>8, <2>9
  <1>3. IdsAgree'
    BY <1>2 DEF IdsAgree, IdIsOf, Agrees
  <1> QED
    BY <1>1, <1>3

\* The table loses entries, or stays.
LEMMA AgreesKept ==
    ASSUME pending' \subseteq pending, nextCallId' = nextCallId
    PROVE  \A id \in Nat, k \in Call :
             Agrees(pending, nextCallId, id, k) => Agrees(pending', nextCallId', id, k)
  BY DEF Agrees

LEMMA ConnectOwn ==
    ASSUME IInv, OwnInv, ~Overlap, NEW c \in Client, Connect(c)
    PROVE  OwnInv'
  <1>1. PICK s \in Session :
          /\ opener[s] = NoClient
          /\ \/ peer[c] = NoSession /\ ~retry[c] /\ retry' = retry
             \/ retry[c] /\ retry' = [retry EXCEPT ![c] = FALSE]
          /\ opener' = [opener EXCEPT ![s] = c]
          /\ ends' = [ends EXCEPT ![s] = {"client", "broker"}]
          /\ peer' = [peer EXCEPT ![c] = s]
          /\ toBroker' = [toBroker EXCEPT ![s] =
               IF c \in Worker /\ handles[c] THEN <<[t |-> "register"]>> ELSE <<>>]
          /\ UNCHANGED <<toClient, jobs, pending, nextCallId>>
    BY DEF Connect, clientVars, brokerVars
  <1>2. /\ peer \in [Client -> Session \cup {NoSession}] /\ opener \in [Session -> Client \cup {NoClient}]
        /\ retry \in [Client -> BOOLEAN] /\ toBroker \in [Session -> Seq(ToBrokerMsg)]
        /\ ends \in [Session -> SUBSET {"client", "broker"}]
    BY DEF IInv, TypeOK
  <1>3. ends[s] = {} /\ toClient[s] = <<>> /\ NoSession \notin Session /\ NoClient \notin Client
    BY <1>1, RpcAssumption DEF IInv, StreamsAgree, NoSession, Session
  <1>4. peer[c] = NoSession
    BY <1>1 DEF OwnInv, CurrentIsOpen
  <1>5. CurrentIsOpen'
    <2>1. ASSUME NEW r \in Session, "client" \in ends'[r] PROVE peer'[opener'[r]] = r
      <3>1. CASE r = s
        BY <1>1, <1>2, <3>1
      <3>2. CASE r # s
        <4>1. "client" \in ends[r] /\ opener'[r] = opener[r]
          BY <1>1, <1>2, <2>1, <3>2
        <4>2. opener[r] \in Client /\ peer[opener[r]] = r
          BY <1>2, <4>1 DEF IInv, StreamsAgree, OwnInv, CurrentIsOpen
        <4>3. opener[r] # c
          BY <1>3, <1>4, <4>2
        <4> QED
          BY <1>1, <1>2, <4>1, <4>2, <4>3
      <3> QED
        BY <3>1, <3>2
    <2>2. ASSUME NEW d \in Client, retry'[d] PROVE peer'[d] = NoSession
      <3>1. d # c
        BY <1>1, <1>2, <2>2
      <3>2. retry[d]
        BY <1>1, <1>2, <2>2, <3>1
      <3> QED
        BY <1>1, <1>2, <3>1, <3>2 DEF OwnInv, CurrentIsOpen
    <2> QED
      BY <2>1, <2>2 DEF CurrentIsOpen
  <1>6. AnswerIsOwn'
    BY <1>1 DEF OwnInv, AnswerIsOwn
  <1>7. ASSUME NEW r \in Session, "broker" \in ends'[r]
        PROVE  /\ \A i \in DOMAIN toClient[r] : toClient[r][i].t = "invoke" =>
                    Agrees(pending, nextCallId, toClient[r][i].id, toClient[r][i].call)
               /\ \A j \in jobs : j.peer = r => Agrees(pending, nextCallId, j.id, j.call)
               /\ \A i \in DOMAIN toBroker'[r] : toBroker'[r][i].t = "result" =>
                    Agrees(pending, nextCallId, toBroker'[r][i].id, toBroker'[r][i].of)
    <2>1. CASE r # s
      <3>1. "broker" \in ends[r] /\ toBroker'[r] = toBroker[r]
        BY <1>1, <1>2, <1>7, <2>1
      <3> QED
        BY <3>1 DEF OwnInv, IdsAgree, IdIsOf, Agrees
    <2>2. CASE r = s
      <3>1. DOMAIN toClient[r] = {}
        BY <1>3, <2>2
      <3>2. \A j \in jobs : j.peer # r
        <4> TAKE j \in jobs
        <4>1. j.by \in Client
          BY DEF IInv, TypeOK, Client
        <4> QED
          BY <1>1, <1>3, <2>2, <4>1 DEF IInv, LinksAgree
      <3>3. \A i \in DOMAIN toBroker'[r] : toBroker'[r][i].t # "result"
        <4>1. toBroker'[r] = <<[t |-> "register"]>> \/ toBroker'[r] = <<>>
          BY <1>1, <1>2, <2>2
        <4> QED
          BY <4>1
      <3> QED
        BY <3>1, <3>2, <3>3
    <2> QED
      BY <2>1, <2>2
  <1>8. IdsAgree'
    BY <1>1, <1>7 DEF IdsAgree, IdIsOf, Agrees
  <1> QED
    BY <1>5, <1>6, <1>8 DEF OwnInv

LEMMA ClientClosesOwn ==
    ASSUME IInv, OwnInv, NEW s \in Session, ClientCloses(s)
    PROVE  OwnInv'
  <1>1. /\ "client" \in ends[s]
        /\ ends' = [ends EXCEPT ![s] = @ \ {"client"}]
        /\ toClient' = [toClient EXCEPT ![s] = <<>>]
        /\ UNCHANGED <<opener, toBroker, jobs, pending, nextCallId>>
    BY DEF ClientCloses, brokerVars
  <1>2. /\ peer \in [Client -> Session \cup {NoSession}] /\ opener \in [Session -> Client \cup {NoClient}]
        /\ retry \in [Client -> BOOLEAN] /\ toClient \in [Session -> Seq(ToClientMsg)]
        /\ ends \in [Session -> SUBSET {"client", "broker"}]
    BY DEF IInv, TypeOK
  <1>3. \A r \in Session : "client" \in ends[r] => peer[opener[r]] = r /\ opener[r] \in Client
    BY <1>2 DEF OwnInv, CurrentIsOpen, IInv, StreamsAgree
  <1>4. /\ peer' = [peer EXCEPT ![opener[s]] = NoSession]
        /\ retry' = [retry EXCEPT ![opener[s]] = TRUE]
    BY <1>1, <1>3 DEF ClientCloses
  <1>5. CurrentIsOpen'
    <2>1. ASSUME NEW r \in Session, "client" \in ends'[r] PROVE peer'[opener'[r]] = r
      <3>1. r # s /\ "client" \in ends[r]
        BY <1>1, <1>2, <2>1
      <3>2. opener[r] # opener[s]
        BY <1>1, <1>3, <3>1
      <3> QED
        BY <1>1, <1>2, <1>3, <1>4, <3>1, <3>2
    <2>2. ASSUME NEW d \in Client, retry'[d] PROVE peer'[d] = NoSession
      <3>1. CASE d = opener[s]
        BY <1>2, <1>4, <3>1
      <3>2. CASE d # opener[s]
        BY <1>2, <1>4, <2>2, <3>2 DEF OwnInv, CurrentIsOpen
      <3> QED
        BY <3>1, <3>2
    <2> QED
      BY <2>1, <2>2 DEF CurrentIsOpen
  <1>6. IdsAgree' /\ AnswerIsOwn'
    <2>1. \A id \in Nat, k \in Call :
            Agrees(pending, nextCallId, id, k) => Agrees(pending', nextCallId', id, k)
      BY <1>1, AgreesKept
    <2>2. \A r \in Session : "broker" \in ends'[r] => "broker" \in ends[r]
      BY <1>1, <1>2
    <2>3. \A r \in Session : \A i \in DOMAIN toClient'[r] :
            \E j \in DOMAIN toClient[r] : toClient'[r][i] = toClient[r][j]
      BY <1>1, <1>2
    <2>4. toBroker' = toBroker /\ jobs' = jobs
      BY <1>1
    <2> QED
      BY <2>1, <2>2, <2>3, <2>4, OwnKept
  <1> QED
    BY <1>5, <1>6 DEF OwnInv

LEMMA CurrentKept ==
    ASSUME OwnInv, UNCHANGED <<opener, peer, retry>>,
           \A s \in Session : "client" \in ends'[s] => "client" \in ends[s]
    PROVE  CurrentIsOpen'
  BY DEF OwnInv, CurrentIsOpen

LEMMA TellOwn ==
    ASSUME IInv, NEW c \in Client, NEW m \in ToBrokerMsg, Tell(c, m)
    PROVE  \A s \in Session : \A i \in DOMAIN toBroker'[s] :
             \/ \E j \in DOMAIN toBroker[s] : toBroker'[s][i] = toBroker[s][j]
             \/ s = peer[c] /\ toBroker'[s][i] = m
  <1>1. CASE peer[c] = NoSession
    BY <1>1 DEF Tell
  <1>2. CASE peer[c] # NoSession
    <2>1. peer[c] \in Session /\ ToBroker(peer[c], m)
      BY <1>2 DEF Tell, IInv, TypeOK
    <2>2. \A s \in Session : \A i \in DOMAIN toBroker'[s] :
            \/ i \in DOMAIN toBroker[s] /\ toBroker'[s][i] = toBroker[s][i]
            \/ s = peer[c] /\ toBroker'[s][i] = m
      BY <2>1, SentFacts
    <2> QED
      BY <2>2
  <1> QED
    BY <1>1, <1>2

LEMMA ToggleOwn ==
    ASSUME IInv, OwnInv, NEW c \in Worker, Toggle(c)
    PROVE  OwnInv'
  <1> DEFINE m == [t |-> IF handles[c] THEN "unregister" ELSE "register"]
  <1>1. c \in Client /\ m \in ToBrokerMsg /\ m.t # "result"
    BY Messages DEF Client
  <1>2. Tell(c, m) /\ UNCHANGED <<opener, ends, peer, retry, toClient, jobs, pending, nextCallId>>
    BY DEF Toggle, brokerVars, linkVars
  <1> HIDE DEF m
  <1>3. \A s \in Session : \A i \in DOMAIN toBroker'[s] :
          \/ \E j \in DOMAIN toBroker[s] : toBroker'[s][i] = toBroker[s][j]
          \/ toBroker'[s][i].t # "result"
    BY <1>1, <1>2, TellOwn
  <1>4. IdsAgree' /\ AnswerIsOwn'
    BY <1>2, <1>3, AgreesKept, OwnKept
  <1>5. CurrentIsOpen'
    BY <1>2, CurrentKept
  <1> QED
    BY <1>4, <1>5 DEF OwnInv

LEMMA SendCallOwn ==
    ASSUME IInv, OwnInv, NEW k \in Call, SendCall(k)
    PROVE  OwnInv'
  <1> DEFINE c == CallerOf(k)
             m == [t |-> "call", call |-> k]
  <1>1. /\ peer[c] # NoSession /\ ToBroker(peer[c], m)
        /\ UNCHANGED <<opener, ends, peer, retry, toClient, jobs, pending, nextCallId>>
    BY DEF SendCall, brokerVars, linkVars
  <1>2. c \in Client /\ m \in ToBrokerMsg /\ m.t # "result"
    BY Messages DEF Client, Call, CallerOf
  <1> HIDE DEF m, c
  <1>3. Tell(c, m)
    BY <1>1 DEF Tell
  <1>4. \A s \in Session : \A i \in DOMAIN toBroker'[s] :
          \/ \E j \in DOMAIN toBroker[s] : toBroker'[s][i] = toBroker[s][j]
          \/ toBroker'[s][i].t # "result"
    BY <1>2, <1>3, TellOwn
  <1>5. IdsAgree' /\ AnswerIsOwn'
    BY <1>1, <1>4, AgreesKept, OwnKept
  <1>6. CurrentIsOpen'
    BY <1>1, CurrentKept
  <1> QED
    BY <1>5, <1>6 DEF OwnInv

LEMMA CallTimeoutOwn ==
    ASSUME IInv, OwnInv, NEW k \in Call, CallTimeout(k)
    PROVE  OwnInv'
  <1>1. UNCHANGED <<opener, ends, peer, retry, toBroker, toClient, jobs, pending, nextCallId>>
    BY DEF CallTimeout, brokerVars, linkVars
  <1>2. IdsAgree' /\ AnswerIsOwn'
    BY <1>1, AgreesKept, OwnKept
  <1>3. CurrentIsOpen'
    BY <1>1, CurrentKept
  <1> QED
    BY <1>2, <1>3 DEF OwnInv

LEMMA FinishJobOwn ==
    ASSUME IInv, OwnInv, NEW j \in jobs, FinishJob(j)
    PROVE  OwnInv'
  <1> DEFINE m == Result(j.id, j.call, TRUE, j.via)
  <1>1. /\ jobs' = jobs \ {j}
        /\ \/ j.peer # NoSession /\ ToBroker(j.peer, m)
           \/ UNCHANGED toBroker
        /\ UNCHANGED <<opener, ends, peer, retry, toClient, pending, nextCallId>>
    BY DEF FinishJob, brokerVars, linkVars
  <1>2. j.peer \in Session \cup {NoSession} /\ m \in ToBrokerMsg /\ j.id \in Nat /\ j.call \in Call
    BY Messages DEF IInv, TypeOK
  <1>3. m.id = j.id /\ m.of = j.call
    BY DEF Result
  <1> HIDE DEF m
  <1>4. \A s \in Session : "broker" \in ends[s] /\ s = j.peer =>
          Agrees(pending', nextCallId', m.id, m.of)
    BY <1>1, <1>3 DEF OwnInv, IdsAgree, IdIsOf, Agrees
  <1>5. \A s \in Session : \A i \in DOMAIN toBroker'[s] :
          \/ \E x \in DOMAIN toBroker[s] : toBroker'[s][i] = toBroker[s][x]
          \/ "broker" \in ends[s] =>
              Agrees(pending', nextCallId', toBroker'[s][i].id, toBroker'[s][i].of)
    <2>1. CASE UNCHANGED toBroker
      BY <2>1
    <2>2. CASE j.peer # NoSession /\ ToBroker(j.peer, m)
      <3>1. \A r \in Session : \A i \in DOMAIN toBroker'[r] :
              \/ i \in DOMAIN toBroker[r] /\ toBroker'[r][i] = toBroker[r][i]
              \/ r = j.peer /\ toBroker'[r][i] = m
        BY <1>2, <2>2, SentFacts
      <3> QED
        BY <1>4, <3>1
    <2> QED
      BY <1>1, <2>1, <2>2
  <1>6. IdsAgree' /\ AnswerIsOwn'
    BY <1>1, <1>5, AgreesKept, OwnKept
  <1>7. CurrentIsOpen'
    BY <1>1, CurrentKept
  <1> QED
    BY <1>6, <1>7 DEF OwnInv

LEMMA ClientReceivesOwn ==
    ASSUME IInv, OwnInv, NEW s \in Session, ClientReceives(s)
    PROVE  OwnInv'
  <1> DEFINE m == Head(toClient[s])
  <1>1. /\ "client" \in ends[s] /\ toClient[s] # <<>>
        /\ toClient' = [toClient EXCEPT ![s] = Tail(@)]
        /\ \/ m.t = "invoke" /\ StartJob(s, m)
           \/ m.t = "answer" /\ TakeAnswer(m)
        /\ UNCHANGED <<opener, ends, peer, retry, pending, nextCallId>>
    BY DEF ClientReceives, brokerVars, linkVars
  <1>2. Shorter(ToClientMsg, toClient, toClient', s)
    BY <1>1, ClientReadFacts
  <1>3. /\ m \in ToClientMsg /\ 1 \in DOMAIN toClient[s] /\ m = toClient[s][1]
        /\ \A r \in Session : \A i \in DOMAIN toClient'[r] :
             \E j \in DOMAIN toClient[r] : toClient'[r][i] = toClient[r][j]
    BY <1>2 DEF Shorter
  <1>4. CurrentIsOpen'
    BY <1>1, CurrentKept
  <1>5. peer[opener[s]] = s /\ opener[s] \in Client
    BY <1>1 DEF OwnInv, CurrentIsOpen, IInv, TypeOK, StreamsAgree
  <1>6. m.t = "invoke" /\ "broker" \in ends[s] => Agrees(pending', nextCallId', m.id, m.call)
    BY <1>1, <1>3 DEF OwnInv, IdsAgree, IdIsOf, Agrees
  <1> DEFINE j == [by |-> opener[s], peer |-> peer[opener[s]], via |-> s, id |-> m.id, call |-> m.call]
             a == Result(m.id, m.call, FALSE, s)
  <1>7. /\ j.peer = s /\ j.id = m.id /\ j.call = m.call
        /\ a.id = m.id /\ a.of = m.call
    BY <1>5 DEF Result
  <1>8. \/ UNCHANGED <<toBroker, jobs>>
        \/ m.t = "invoke" /\ jobs' = jobs \cup {j} /\ UNCHANGED toBroker
        \/ m.t = "invoke" /\ Tell(opener[s], a) /\ UNCHANGED jobs
    BY <1>1 DEF StartJob, TakeAnswer
  <1>9. m.t = "invoke" => a \in ToBrokerMsg
    BY <1>3, Messages
  <1> HIDE DEF m, j, a
  <1>10. \A i \in jobs' : \/ i \in jobs
                          \/ "broker" \in ends[i.peer] => Agrees(pending', nextCallId', i.id, i.call)
    <2>1. CASE m.t = "invoke" /\ jobs' = jobs \cup {j}
      <3>1. "broker" \in ends[j.peer] => Agrees(pending', nextCallId', j.id, j.call)
        BY <1>6, <1>7, <2>1
      <3> QED
        BY <2>1, <3>1
    <2>2. CASE jobs' = jobs
      BY <2>2
    <2> QED
      BY <1>8, <2>1, <2>2
  <1>11. \A r \in Session : \A i \in DOMAIN toBroker'[r] :
           \/ \E x \in DOMAIN toBroker[r] : toBroker'[r][i] = toBroker[r][x]
           \/ "broker" \in ends[r] =>
               Agrees(pending', nextCallId', toBroker'[r][i].id, toBroker'[r][i].of)
    <2>1. CASE UNCHANGED toBroker
      BY <2>1
    <2>2. CASE m.t = "invoke" /\ Tell(opener[s], a)
      <3>1. \A r \in Session : \A i \in DOMAIN toBroker'[r] :
              \/ \E x \in DOMAIN toBroker[r] : toBroker'[r][i] = toBroker[r][x]
              \/ r = s /\ toBroker'[r][i] = a
        BY <1>5, <1>9, <2>2, TellOwn
      <3> QED
        BY <1>6, <1>7, <2>2, <3>1
    <2> QED
      BY <1>8, <2>1, <2>2
  <1>12. IdsAgree' /\ AnswerIsOwn'
    BY <1>1, <1>3, <1>10, <1>11, AgreesKept, OwnKept
  <1> QED
    BY <1>4, <1>12 DEF OwnInv

\* _err answers the call itself.
LEMMA ErrOwn ==
    ASSUME IInv, NEW p, p.from \in Session, p.call \in Call, NEW ok \in BOOLEAN,
           Reply(p, ok, p.call)
    PROVE  \A s \in Session : \A i \in DOMAIN toClient'[s] :
             \/ i \in DOMAIN toClient[s] /\ toClient'[s][i] = toClient[s][i]
             \/ toClient'[s][i].t = "answer" /\ toClient'[s][i].of = toClient'[s][i].call
  <1> DEFINE k == p.call
  <1>1. k \in Call /\ Reply(p, ok, k)
    OBVIOUS
  <1> HIDE DEF k
  <1>2. \A s \in Session : \A i \in DOMAIN toClient'[s] :
          \/ i \in DOMAIN toClient[s] /\ toClient'[s][i] = toClient[s][i]
          \/ /\ toClient'[s][i].t = "answer"
             /\ toClient'[s][i].call = p.call /\ toClient'[s][i].of = k
    BY <1>1, ReplyFacts
  <1> QED
    BY <1>2 DEF k

LEMMA ExpireCallOwn ==
    ASSUME IInv, OwnInv, NEW p \in pending, ExpireCall(p)
    PROVE  OwnInv'
  <1>1. /\ pending' = pending \ {p} /\ Reply(p, FALSE, p.call)
        /\ UNCHANGED <<opener, ends, peer, retry, toBroker, jobs, nextCallId>>
    BY DEF ExpireCall, clientVars, linkVars
  <1>2. p.from \in Session /\ p.call \in Call
    BY DEF IInv, TypeOK
  <1>3. \A s \in Session : \A i \in DOMAIN toClient'[s] :
          \/ i \in DOMAIN toClient[s] /\ toClient'[s][i] = toClient[s][i]
          \/ toClient'[s][i].t = "answer" /\ toClient'[s][i].of = toClient'[s][i].call
    BY <1>1, <1>2, ErrOwn
  <1>4. IdsAgree' /\ AnswerIsOwn'
    BY <1>1, <1>3, AgreesKept, OwnKept
  <1>5. CurrentIsOpen'
    BY <1>1, CurrentKept
  <1> QED
    BY <1>4, <1>5 DEF OwnInv

\* What the broker does with the message it has read leaves the links alone.
LEMMA BrokerReadOwn ==
    ASSUME IInv, OwnInv, NEW s \in Session, BrokerReceives(s)
    PROVE  /\ UNCHANGED <<opener, ends, peer, retry, jobs>> /\ CurrentIsOpen'
           /\ \A r \in Session : \A i \in DOMAIN toBroker'[r] :
                \E j \in DOMAIN toBroker[r] : toBroker'[r][i] = toBroker[r][j]
           /\ Head(toBroker[s]) \in ToBrokerMsg
           /\ Head(toBroker[s]).t = "result" =>
                Agrees(pending, nextCallId, Head(toBroker[s]).id, Head(toBroker[s]).of)
  <1>1. /\ "broker" \in ends[s] /\ toBroker[s] # <<>>
        /\ toBroker' = [toBroker EXCEPT ![s] = Tail(@)]
        /\ UNCHANGED <<opener, ends, peer, retry, jobs>>
    BY DEF BrokerReceives, linkVars, clientVars
  <1>2. /\ \A r \in Session : \A i \in DOMAIN toBroker'[r] :
             \E j \in DOMAIN toBroker[r] : toBroker'[r][i] = toBroker[r][j]
        /\ Head(toBroker[s]) \in ToBrokerMsg
        /\ 1 \in DOMAIN toBroker[s] /\ Head(toBroker[s]) = toBroker[s][1]
    BY <1>1, BrokerReadFacts
  <1>3. Head(toBroker[s]).t = "result" =>
          Agrees(pending, nextCallId, Head(toBroker[s]).id, Head(toBroker[s]).of)
    BY <1>1, <1>2 DEF OwnInv, IdsAgree, IdIsOf, Agrees
  <1>4. CurrentIsOpen'
    BY <1>1, CurrentKept
  <1> QED
    BY <1>1, <1>2, <1>3, <1>4

LEMMA WorkerOwn ==
    ASSUME IInv, OwnInv, NEW s \in Session, BrokerReceives(s), AddWorker(s) \/ RemoveWorker(s)
    PROVE  OwnInv'
  <1>1. UNCHANGED <<toClient, pending, nextCallId>>
    BY DEF AddWorker, RemoveWorker
  <1>2. /\ UNCHANGED <<opener, ends, peer, retry, jobs>> /\ CurrentIsOpen'
        /\ \A r \in Session : \A i \in DOMAIN toBroker'[r] :
             \E j \in DOMAIN toBroker[r] : toBroker'[r][i] = toBroker[r][j]
    BY BrokerReadOwn
  <1>3. IdsAgree' /\ AnswerIsOwn'
    BY <1>1, <1>2, AgreesKept, OwnKept
  <1> QED
    BY <1>2, <1>3 DEF OwnInv

LEMMA RefuseOwn ==
    ASSUME IInv, OwnInv, NEW s \in Session, BrokerReceives(s), Head(toBroker[s]).t = "call",
           Refuse(s, Head(toBroker[s]).call)
    PROVE  OwnInv'
  <1> DEFINE k == Head(toBroker[s]).call
             p == [from |-> s, call |-> k]
  <1>1. Reply(p, FALSE, k) /\ UNCHANGED <<pending, nextCallId>>
    BY DEF Refuse
  <1>2. /\ UNCHANGED <<opener, ends, peer, retry, jobs>> /\ CurrentIsOpen'
        /\ \A r \in Session : \A i \in DOMAIN toBroker'[r] :
             \E j \in DOMAIN toBroker[r] : toBroker'[r][i] = toBroker[r][j]
    BY BrokerReadOwn
  <1>3. k \in Call /\ p.from \in Session /\ p.call = k
    BY CallReadFacts
  <1> HIDE DEF p, k
  <1>4. \A r \in Session : \A i \in DOMAIN toClient'[r] :
          \/ i \in DOMAIN toClient[r] /\ toClient'[r][i] = toClient[r][i]
          \/ toClient'[r][i].t = "answer" /\ toClient'[r][i].of = toClient'[r][i].call
    <2>1. p.call \in Call /\ Reply(p, FALSE, p.call)
      BY <1>1, <1>3
    <2> QED
      BY <1>3, <2>1, ErrOwn
  <1>5. IdsAgree' /\ AnswerIsOwn'
    BY <1>1, <1>2, <1>4, AgreesKept, OwnKept
  <1> QED
    BY <1>2, <1>5 DEF OwnInv

\* The id of a call is new: no earlier invocation or result has it.
LEMMA DispatchOwn ==
    ASSUME IInv, OwnInv, NEW s \in Session, BrokerReceives(s), Head(toBroker[s]).t = "call",
           Dispatch(s, Head(toBroker[s]).call)
    PROVE  OwnInv'
  <1> DEFINE k == Head(toBroker[s]).call
             w == LeastBusy
             p == [id |-> nextCallId, from |-> s, call |-> k, owner |-> w]
             m == [t |-> "invoke", id |-> nextCallId, call |-> k]
  <1>1. /\ workers # <<>> /\ nextCallId' = nextCallId + 1 /\ pending' = pending \cup {p}
        /\ toClient' = [toClient EXCEPT ![w] = IF "client" \in ends[w] THEN Append(@, m) ELSE @]
    BY DEF Dispatch
  <1>2. /\ UNCHANGED <<opener, ends, peer, retry, jobs>> /\ CurrentIsOpen'
        /\ \A r \in Session : \A i \in DOMAIN toBroker'[r] :
             \E j \in DOMAIN toBroker[r] : toBroker'[r][i] = toBroker[r][j]
    BY BrokerReadOwn
  <1>3. k \in Call
    BY CallReadFacts
  <1>4. w \in Session
    BY <1>1, LeastBusyFacts DEF IInv, WorkersServe
  <1>5. nextCallId \in Nat /\ toClient \in [Session -> Seq(ToClientMsg)]
    BY DEF IInv, TypeOK
  <1>6. m \in ToClientMsg /\ m.t = "invoke" /\ m.id = nextCallId /\ m.call = k
    BY <1>3, <1>5, Messages
  <1>7. p.id = nextCallId /\ p.call = k
    OBVIOUS
  <1> HIDE DEF p, m, k, w
  <1>8. \A id \in Nat, h \in Call :
          Agrees(pending, nextCallId, id, h) => Agrees(pending', nextCallId', id, h)
    BY <1>1, <1>5, <1>7 DEF Agrees
  <1>9. Agrees(pending', nextCallId', m.id, m.call)
    <2>1. \A q \in pending : q.id # nextCallId
      BY <1>5 DEF IInv, TypeOK, IdsUnique
    <2> QED
      BY <1>1, <1>5, <1>6, <1>7, <2>1 DEF Agrees
  <1>10. \A r \in Session : \A i \in DOMAIN toClient'[r] :
           \/ \E j \in DOMAIN toClient[r] : toClient'[r][i] = toClient[r][j]
           \/ toClient'[r][i] = m
    <2>1. CASE "client" \in ends[w]
      <3>1. toClient' = [toClient EXCEPT ![w] = Append(toClient[w], m)]
        BY <1>1, <1>4, <1>5, <2>1
      <3>2. Longer(ToClientMsg, toClient, toClient', w, m)
        BY <1>4, <1>5, <1>6, <3>1, PutFacts
      <3> QED
        BY <3>2 DEF Longer
    <2>2. CASE "client" \notin ends[w]
      <3>1. toClient' = toClient
        BY <1>1, <1>4, <1>5, <2>2
      <3> QED
        BY <3>1
    <2> QED
      BY <2>1, <2>2
  <1>11. \A r \in Session : \A i \in DOMAIN toClient'[r] :
           \/ \E j \in DOMAIN toClient[r] : toClient'[r][i] = toClient[r][j]
           \/ /\ toClient'[r][i].t = "invoke"
              /\ Agrees(pending', nextCallId', toClient'[r][i].id, toClient'[r][i].call)
    BY <1>6, <1>9, <1>10
  <1>12. IdsAgree' /\ AnswerIsOwn'
    BY <1>2, <1>8, <1>11, OwnKept
  <1> QED
    BY <1>2, <1>12 DEF OwnInv

\* A result is for the call its id is of, and answers that one.
LEMMA SettleOwn ==
    ASSUME IInv, OwnInv, NEW s \in Session, BrokerReceives(s), Head(toBroker[s]).t = "result",
           Settle(s, Head(toBroker[s]))
    PROVE  OwnInv'
  <1> DEFINE m == Head(toBroker[s])
  <1>1. /\ UNCHANGED <<opener, ends, peer, retry, jobs>> /\ CurrentIsOpen'
        /\ \A r \in Session : \A i \in DOMAIN toBroker'[r] :
             \E j \in DOMAIN toBroker[r] : toBroker'[r][i] = toBroker[r][j]
        /\ m \in ToBrokerMsg /\ Agrees(pending, nextCallId, m.id, m.of)
    BY BrokerReadOwn
  <1>2. m.of \in Call /\ m.ok \in BOOLEAN
    BY <1>1, Messages
  <1>3. \/ UNCHANGED <<toClient, pending, nextCallId>>
        \/ \E p \in pending : /\ p.id = m.id /\ pending' = pending \ {p}
                              /\ Reply(p, m.ok, m.of) /\ nextCallId' = nextCallId
    BY DEF Settle
  <1> HIDE DEF m
  <1>4. \A id \in Nat, k \in Call :
          Agrees(pending, nextCallId, id, k) => Agrees(pending', nextCallId', id, k)
    BY <1>3, AgreesKept
  <1>5. \A r \in Session : \A i \in DOMAIN toClient'[r] :
          \/ i \in DOMAIN toClient[r] /\ toClient'[r][i] = toClient[r][i]
          \/ toClient'[r][i].t = "answer" /\ toClient'[r][i].of = toClient'[r][i].call
    <2>1. CASE toClient' = toClient
      BY <2>1
    <2>2. ASSUME NEW p \in pending, p.id = m.id, Reply(p, m.ok, m.of)
          PROVE  \A r \in Session : \A i \in DOMAIN toClient'[r] :
                   \/ i \in DOMAIN toClient[r] /\ toClient'[r][i] = toClient[r][i]
                   \/ toClient'[r][i].t = "answer" /\ toClient'[r][i].of = toClient'[r][i].call
      <3>1. m.of = p.call /\ p.from \in Session /\ p.call \in Call
        BY <1>1, <2>2 DEF Agrees, IInv, TypeOK
      <3>2. Reply(p, m.ok, p.call)
        BY <2>2, <3>1
      <3> QED
        BY <1>2, <3>1, <3>2, ErrOwn
    <2> QED
      BY <1>3, <2>1, <2>2
  <1>6. IdsAgree' /\ AnswerIsOwn'
    BY <1>1, <1>4, <1>5, OwnKept
  <1> QED
    BY <1>1, <1>6 DEF OwnInv

LEMMA BrokerReceivesOwn ==
    ASSUME IInv, OwnInv, NEW s \in Session, BrokerReceives(s)
    PROVE  OwnInv'
  <1> DEFINE m == Head(toBroker[s])
  <1>1. \/ AddWorker(s) \/ RemoveWorker(s)
        \/ m.t = "call" /\ Refuse(s, m.call)
        \/ m.t = "call" /\ Dispatch(s, m.call)
        \/ m.t = "result" /\ Settle(s, m)
    BY DEF BrokerReceives
  <1> QED
    BY <1>1, WorkerOwn, RefuseOwn, DispatchOwn, SettleOwn

LEMMA BrokerClosesOwn ==
    ASSUME IInv, OwnInv, NEW s \in Session, BrokerCloses(s)
    PROVE  OwnInv'
  <1>1. /\ ends' = [ends EXCEPT ![s] = @ \ {"broker"}]
        /\ toBroker' = [toBroker EXCEPT ![s] = <<>>]
        /\ pending' \subseteq pending
        /\ UNCHANGED <<opener, peer, retry, jobs, nextCallId>>
    BY DEF BrokerCloses, clientVars
  <1>2. /\ toBroker \in [Session -> Seq(ToBrokerMsg)]
        /\ ends \in [Session -> SUBSET {"client", "broker"}]
    BY DEF IInv, TypeOK
  <1>3. \A r \in Session : ends'[r] \subseteq ends[r]
    BY <1>1, <1>2
  <1>4. \A r \in Session : \A i \in DOMAIN toBroker'[r] :
          \E j \in DOMAIN toBroker[r] : toBroker'[r][i] = toBroker[r][j]
    BY <1>1, <1>2
  <1>5. \A r \in Session : \A i \in DOMAIN toClient'[r] :
          \/ i \in DOMAIN toClient[r] /\ toClient'[r][i] = toClient[r][i]
          \/ toClient'[r][i].t = "answer" /\ toClient'[r][i].of = toClient'[r][i].call
    BY BrokerClosesStreams
  <1>6. IdsAgree' /\ AnswerIsOwn'
    BY <1>1, <1>3, <1>4, <1>5, AgreesKept, OwnKept
  <1>7. CurrentIsOpen'
    BY <1>1, <1>3, CurrentKept
  <1> QED
    BY <1>6, <1>7 DEF OwnInv

\* Ids start over, but no session of the old broker reaches the new one.
LEMMA RestartOwn ==
    ASSUME IInv, OwnInv, Restart
    PROVE  OwnInv'
  <1>1. /\ \A r \in Session : ends'[r] = ends[r] \ {"broker"}
        /\ UNCHANGED <<opener, peer, retry, toClient>>
    BY DEF Restart
  <1>2. IdsAgree'
    BY <1>1 DEF IdsAgree
  <1>3. AnswerIsOwn'
    BY <1>1 DEF OwnInv, AnswerIsOwn
  <1>4. CurrentIsOpen'
    BY <1>1, CurrentKept
  <1> QED
    BY <1>2, <1>3, <1>4 DEF OwnInv

LEMMA InitOwn == Init => OwnInv
  <1> SUFFICES ASSUME Init PROVE OwnInv
    OBVIOUS
  <1>1. \A s \in Session : ends[s] = {} /\ toClient[s] = <<>>
    BY DEF Init
  <1>2. \A c \in Client : retry[c] = FALSE
    BY DEF Init
  <1>3. CurrentIsOpen /\ IdsAgree
    BY <1>1, <1>2 DEF CurrentIsOpen, IdsAgree
  <1>4. AnswerIsOwn
    <2>1. DOMAIN <<>> = {}
      OBVIOUS
    <2> QED
      BY <1>1, <2>1 DEF AnswerIsOwn
  <1> QED
    BY <1>3, <1>4 DEF OwnInv

LEMMA NextOwn == IInv /\ OwnInv /\ ~Overlap /\ [Next]_vars => OwnInv'
  <1> SUFFICES ASSUME IInv, OwnInv, ~Overlap, [Next]_vars PROVE OwnInv'
    OBVIOUS
  <1>1. ASSUME NEW c \in Client, Connect(c) PROVE OwnInv'
    BY <1>1, ConnectOwn
  <1>2. ASSUME NEW c \in Worker, Toggle(c) PROVE OwnInv'
    BY <1>2, ToggleOwn
  <1>3. ASSUME NEW k \in Call, SendCall(k) PROVE OwnInv'
    BY <1>3, SendCallOwn
  <1>4. ASSUME NEW k \in Call, CallTimeout(k) PROVE OwnInv'
    BY <1>4, CallTimeoutOwn
  <1>5. ASSUME NEW s \in Session, ClientCloses(s) PROVE OwnInv'
    BY <1>5, ClientClosesOwn
  <1>6. ASSUME NEW s \in Session, BrokerCloses(s) PROVE OwnInv'
    BY <1>6, BrokerClosesOwn
  <1>7. ASSUME NEW s \in Session, BrokerReceives(s) PROVE OwnInv'
    BY <1>7, BrokerReceivesOwn
  <1>8. ASSUME NEW s \in Session, ClientReceives(s) PROVE OwnInv'
    BY <1>8, ClientReceivesOwn
  <1>9. ASSUME NEW p \in pending, ExpireCall(p) PROVE OwnInv'
    BY <1>9, ExpireCallOwn
  <1>10. ASSUME NEW j \in jobs, FinishJob(j) PROVE OwnInv'
    BY <1>10, FinishJobOwn
  <1>11. CASE Restart
    BY <1>11, RestartOwn
  <1>12. CASE UNCHANGED vars
    <2>1. UNCHANGED <<opener, ends, peer, retry, toBroker, toClient, jobs, pending, nextCallId>>
      BY <1>12 DEF vars, linkVars, clientVars, brokerVars
    <2> QED
      BY <2>1 DEF OwnInv, CurrentIsOpen, IdsAgree, IdIsOf, AnswerIsOwn
  <1> QED
    BY <1>1, <1>2, <1>3, <1>4, <1>5, <1>6, <1>7, <1>8, <1>9, <1>10, <1>11, <1>12 DEF Next

\* An answer is of the call it settles, though call ids start over with every
\* broker and handlers end late, as long as connect() does not overtake a
\* scheduled reconnect: with two links open, _onInvoke takes the current one for
\* the one the call arrived on.
THEOREM OwnHolds ==
    ASSUME ~Overlap
    PROVE  Spec => []AnswerIsOwn
  <1>1. IInv /\ OwnInv /\ [Next]_vars => OwnInv'
    BY NextOwn
  <1>2. OwnInv => AnswerIsOwn
    BY DEF OwnInv
  <1> QED
    BY <1>1, <1>2, InitOwn, Inductive, PTL DEF Spec

-----------------------------------------------------------------------------
(* Replies go back the way the call came.                                  *)

LEMMA ArrivalKept ==
    ASSUME ArrivalInv,
           \A j \in jobs' : j \in jobs \/ j.peer = j.via,
           \A s \in Session : \A i \in DOMAIN toBroker'[s] :
             \/ \E j \in DOMAIN toBroker[s] : toBroker'[s][i] = toBroker[s][j]
             \/ toBroker'[s][i].t = "result" => toBroker'[s][i].via = s
    PROVE  ArrivalInv'
  BY DEF ArrivalInv, ReplyOnArrivalLink

\* What a client says over its current link, when that is where the call came from.
LEMMA TellArrival ==
    ASSUME IInv, ArrivalInv, NEW c \in Client, NEW m \in ToBrokerMsg, Tell(c, m), jobs' \subseteq jobs,
           m.t = "result" => m.via = peer[c]
    PROVE  ArrivalInv'
  BY TellOwn, ArrivalKept

LEMMA ConnectArrival ==
    ASSUME IInv, ArrivalInv, NEW c \in Client, Connect(c)
    PROVE  ArrivalInv'
  <1>1. PICK s \in Session :
          /\ toBroker' = [toBroker EXCEPT ![s] =
               IF c \in Worker /\ handles[c] THEN <<[t |-> "register"]>> ELSE <<>>]
          /\ jobs' = jobs
    BY DEF Connect, clientVars
  <1>2. toBroker \in [Session -> Seq(ToBrokerMsg)]
    BY DEF IInv, TypeOK
  <1>3. ASSUME NEW r \in Session, NEW i \in DOMAIN toBroker'[r]
        PROVE  \/ \E j \in DOMAIN toBroker[r] : toBroker'[r][i] = toBroker[r][j]
               \/ toBroker'[r][i].t # "result"
    <2>1. CASE r # s
      <3>1. toBroker'[r] = toBroker[r]
        BY <1>1, <1>2, <2>1
      <3> QED
        BY <1>3, <3>1
    <2>2. CASE r = s
      <3>1. toBroker'[r] = <<[t |-> "register"]>> \/ toBroker'[r] = <<>>
        BY <1>1, <1>2, <2>2
      <3> QED
        BY <1>3, <3>1
    <2> QED
      BY <2>1, <2>2
  <1> QED
    BY <1>1, <1>3, ArrivalKept

LEMMA FinishJobArrival ==
    ASSUME IInv, ArrivalInv, NEW j \in jobs, FinishJob(j)
    PROVE  ArrivalInv'
  <1> DEFINE m == Result(j.id, j.call, TRUE, j.via)
  <1>1. j.by \in Client /\ m \in ToBrokerMsg
    BY Messages DEF IInv, TypeOK, Client
  <1>2. m.via = j.peer
    BY DEF Result, ArrivalInv
  <1>3. /\ jobs' = jobs \ {j}
        /\ \/ UNCHANGED toBroker
           \/ Tell(j.by, m) /\ peer[j.by] = j.peer
    BY DEF FinishJob, Tell
  <1> HIDE DEF m
  <1>4. CASE UNCHANGED toBroker
    BY <1>3, <1>4, ArrivalKept
  <1>5. CASE Tell(j.by, m) /\ peer[j.by] = j.peer
    BY <1>1, <1>2, <1>3, <1>5, TellArrival
  <1> QED
    BY <1>3, <1>4, <1>5

LEMMA ClientReceivesArrival ==
    ASSUME IInv, OwnInv, ArrivalInv, NEW s \in Session, ClientReceives(s)
    PROVE  ArrivalInv'
  <1> DEFINE m == Head(toClient[s])
             c == opener[s]
             j == [by |-> c, peer |-> peer[c], via |-> s, id |-> m.id, call |-> m.call]
             a == Result(m.id, m.call, FALSE, s)
  <1>1. /\ "client" \in ends[s] /\ toClient[s] # <<>>
        /\ toClient' = [toClient EXCEPT ![s] = Tail(@)]
        /\ \/ UNCHANGED <<toBroker, jobs>>
           \/ m.t = "invoke" /\ jobs' = jobs \cup {j} /\ UNCHANGED toBroker
           \/ m.t = "invoke" /\ Tell(c, a) /\ UNCHANGED jobs
    BY DEF ClientReceives, StartJob, TakeAnswer
  <1>2. m \in ToClientMsg
    BY <1>1, ClientReadFacts DEF Shorter
  <1>3. peer[c] = s /\ c \in Client
    BY <1>1 DEF OwnInv, CurrentIsOpen, IInv, TypeOK, StreamsAgree
  <1>4. j.peer = j.via /\ a.via = peer[c]
    BY <1>3 DEF Result
  <1>5. m.t = "invoke" => a \in ToBrokerMsg
    BY <1>2, Messages
  <1> HIDE DEF m, j, a, c
  <1>6. CASE UNCHANGED <<toBroker, jobs>>
    BY <1>6, ArrivalKept
  <1>7. CASE jobs' = jobs \cup {j} /\ UNCHANGED toBroker
    BY <1>4, <1>7, ArrivalKept
  <1>8. CASE m.t = "invoke" /\ Tell(c, a) /\ UNCHANGED jobs
    BY <1>3, <1>4, <1>5, <1>8, TellArrival
  <1> QED
    BY <1>1, <1>6, <1>7, <1>8

LEMMA NextArrival == IInv /\ OwnInv /\ ArrivalInv /\ [Next]_vars => ArrivalInv'
  <1> SUFFICES ASSUME IInv, OwnInv, ArrivalInv, [Next]_vars PROVE ArrivalInv'
    OBVIOUS
  <1>1. ASSUME NEW c \in Client, Connect(c) PROVE ArrivalInv'
    BY <1>1, ConnectArrival
  <1>2. ASSUME NEW c \in Worker, Toggle(c) PROVE ArrivalInv'
    <2> DEFINE m == [t |-> IF handles[c] THEN "unregister" ELSE "register"]
    <2>1. c \in Client /\ m \in ToBrokerMsg /\ m.t # "result"
      BY Messages DEF Client
    <2>2. Tell(c, m) /\ jobs' = jobs
      BY <1>2 DEF Toggle
    <2> QED
      BY <2>1, <2>2, TellArrival
  <1>3. ASSUME NEW k \in Call, SendCall(k) PROVE ArrivalInv'
    <2> DEFINE m == [t |-> "call", call |-> k]
    <2>1. CallerOf(k) \in Client /\ m \in ToBrokerMsg /\ m.t # "result"
      BY Messages DEF Client, Call, CallerOf
    <2>2. Tell(CallerOf(k), m) /\ jobs' = jobs
      BY <1>3 DEF SendCall, Tell
    <2> QED
      BY <2>1, <2>2, TellArrival
  <1>4. ASSUME NEW s \in Session, BrokerReceives(s) PROVE ArrivalInv'
    <2>1. toBroker[s] # <<>> /\ toBroker' = [toBroker EXCEPT ![s] = Tail(@)] /\ jobs' = jobs
      BY <1>4 DEF BrokerReceives, clientVars
    <2>2. \A r \in Session : \A i \in DOMAIN toBroker'[r] :
            \E j \in DOMAIN toBroker[r] : toBroker'[r][i] = toBroker[r][j]
      BY <2>1, BrokerReadFacts
    <2> QED
      BY <2>1, <2>2, ArrivalKept
  <1>5. ASSUME NEW s \in Session, BrokerCloses(s) PROVE ArrivalInv'
    <2>1. toBroker \in [Session -> Seq(ToBrokerMsg)]
      BY DEF IInv, TypeOK
    <2>2. jobs' = jobs /\ \A r \in Session : toBroker'[r] = toBroker[r] \/ toBroker'[r] = <<>>
      BY <1>5, <2>1 DEF BrokerCloses, clientVars
    <2>3. \A r \in Session : \A i \in DOMAIN toBroker'[r] :
            \E j \in DOMAIN toBroker[r] : toBroker'[r][i] = toBroker[r][j]
      <3>1. DOMAIN <<>> = {}
        OBVIOUS
      <3> QED
        BY <2>2, <3>1
    <2> QED
      BY <2>2, <2>3, ArrivalKept
  <1>6. ASSUME NEW s \in Session, ClientReceives(s) PROVE ArrivalInv'
    BY <1>6, ClientReceivesArrival
  <1>7. ASSUME NEW j \in jobs, FinishJob(j) PROVE ArrivalInv'
    BY <1>7, FinishJobArrival
  <1>8. CASE UNCHANGED <<toBroker, jobs>>
    BY <1>8, ArrivalKept
  <1>9. ASSUME NEW s \in Session, ClientCloses(s) PROVE UNCHANGED <<toBroker, jobs>>
    BY <1>9 DEF ClientCloses
  <1>10. ASSUME NEW k \in Call, CallTimeout(k) PROVE UNCHANGED <<toBroker, jobs>>
    BY <1>10 DEF CallTimeout
  <1>11. ASSUME NEW p \in pending, ExpireCall(p) PROVE UNCHANGED <<toBroker, jobs>>
    BY <1>11 DEF ExpireCall, clientVars
  <1>12. CASE UNCHANGED vars
    BY <1>8, <1>12 DEF vars, clientVars
  <1>13. CASE Restart
    <2>1. toBroker' = [s \in Session |-> <<>>] /\ jobs' = jobs
      BY <1>13 DEF Restart, clientVars
    <2>2. \A r \in Session : DOMAIN toBroker'[r] = {}
      BY <2>1
    <2> QED
      BY <2>1, <2>2, ArrivalKept
  <1> QED
    BY <1>1, <1>2, <1>3, <1>4, <1>5, <1>6, <1>7, <1>8, <1>9, <1>10, <1>11, <1>12, <1>13 DEF Next

\* A reply goes to the session its call came from, whatever became of the client's links in
\* between (_onInvoke), as long as connect() does not overtake a scheduled reconnect.
THEOREM ArrivalHolds ==
    ASSUME ~Overlap
    PROVE  Spec => []ReplyOnArrivalLink
  <1>1. Init => ArrivalInv
    <2>1. DOMAIN <<>> = {}
      OBVIOUS
    <2> QED
      BY <2>1 DEF Init, ArrivalInv, ReplyOnArrivalLink
  <1>2. IInv /\ OwnInv /\ [Next]_vars => OwnInv'
    BY NextOwn
  <1>3. IInv /\ OwnInv /\ ArrivalInv /\ [Next]_vars => ArrivalInv'
    BY NextArrival
  <1>4. ArrivalInv => ReplyOnArrivalLink
    BY DEF ArrivalInv
  <1> QED
    BY <1>1, <1>2, <1>3, <1>4, InitOwn, Inductive, PTL DEF Spec
=============================================================================
