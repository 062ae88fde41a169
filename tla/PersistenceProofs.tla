-------------------------- MODULE PersistenceProofs --------------------------
(***************************************************************************)
(* Proofs about Persistence, for any keys, modes, faults and crashes: what *)
(* a broker mints is new after any restart, what it retains is in order,   *)
(* without repetition, and what recovery brings back is recent.            *)
(***************************************************************************)
EXTENDS Persistence, FiniteSetTheorems, SequenceTheorems, TLAPS

-----------------------------------------------------------------------------
(* Numbers.                                                                *)

LEMMA NatMin ==
    ASSUME NEW T, T \subseteq Nat, T # {}
    PROVE  \E x \in T : \A y \in T : x <= y
  <1> DEFINE R == {ss \in Nat \X Nat : ss[1] < ss[2]}
  <1>1. IsWellFoundedOn(R, Nat)
    BY NatLessThanWellFounded, Zenon DEF OpToRel
  <1>2. \E x \in T : \A y \in T : ~ (<<y, x>> \in R)
    BY <1>1, WFMin, Zenon
  <1>3. \A x, y \in Nat : y < x => <<y, x>> \in R
    OBVIOUS
  <1> HIDE DEF R
  <1>4. PICK x \in T : \A y \in T : ~ (<<y, x>> \in R)
    BY <1>2
  <1>5. \A y \in T : ~ (y < x)
    BY <1>3, <1>4, Zenon
  <1> QED
    BY <1>5

\* What is bounded has a greatest element.
LEMMA MaxFacts ==
    ASSUME NEW n \in Nat, NEW T, T \subseteq 0 .. n, T # {}
    PROVE  MaxOf(T) \in T /\ \A y \in T : y <= MaxOf(T)
  <1> DEFINE U == {n - x : x \in T}
  <1>1. U \subseteq Nat /\ U # {}
    <2>1. \A x \in T : n - x \in Nat
      OBVIOUS
    <2> QED
      BY <2>1
  <1>2. PICK u \in U : \A v \in U : u <= v
    BY <1>1, NatMin
  <1>3. \E x \in T : \A y \in T : y <= x
    BY <1>2
  <1> QED
    BY <1>3 DEF MaxOf

\* So has what is finite: take an element with the most of them up to it.
LEMMA FiniteMax ==
    ASSUME NEW T, T \subseteq Nat, T # {}, IsFiniteSet(T)
    PROVE  MaxOf(T) \in T /\ \A y \in T : y <= MaxOf(T)
  <1> DEFINE UpTo(x) == {y \in T : y <= x}
             U == {Cardinality(T) - Cardinality(UpTo(x)) : x \in T}
  <1>1. /\ Cardinality(T) \in Nat
        /\ \A x \in T : /\ IsFiniteSet(UpTo(x)) /\ Cardinality(UpTo(x)) \in Nat
                        /\ Cardinality(UpTo(x)) <= Cardinality(T)
    BY FS_Subset, FS_CardinalityType
  <1>2. U \subseteq Nat /\ U # {}
    <2>1. \A x \in T : Cardinality(T) - Cardinality(UpTo(x)) \in Nat
      <3> HIDE DEF UpTo
      <3> QED
        BY <1>1
    <2> HIDE DEF UpTo
    <2> QED
      BY <2>1
  <1>3. PICK u \in U : \A v \in U : u <= v
    BY <1>2, NatMin
  <1>4. PICK x \in T : \A y \in T : Cardinality(UpTo(y)) <= Cardinality(UpTo(x))
    <2> HIDE DEF UpTo
    <2>1. PICK z \in T : u = Cardinality(T) - Cardinality(UpTo(z))
      BY <1>3
    <2>2. \A y \in T : Cardinality(T) - Cardinality(UpTo(z)) <= Cardinality(T) - Cardinality(UpTo(y))
      BY <1>3, <2>1
    <2> QED
      BY <1>1, <2>2
  <1>5. ASSUME NEW y \in T PROVE y <= x
    <2> SUFFICES ASSUME x < y PROVE FALSE
      <3>1. x \in Int /\ y \in Int
        BY <1>4, <1>5
      <3> QED
        BY <3>1
    <2>1. y \notin UpTo(x) /\ UpTo(x) \cup {y} \in SUBSET UpTo(y)
      <3>1. \A z \in T : z \in Int
        OBVIOUS
      <3>2. \A z \in UpTo(x) : z \in T /\ z <= y
        BY <1>4, <1>5, <3>1
      <3>3. \A z \in UpTo(x) \cup {y} : z \in T /\ z <= y
        BY <1>5, <3>1, <3>2
      <3>4. y \notin UpTo(x)
        BY <1>4, <1>5, <3>1
      <3> QED
        BY <3>3, <3>4
    <2> HIDE DEF UpTo
    <2>2. Cardinality(UpTo(x) \cup {y}) = Cardinality(UpTo(x)) + 1
      BY <1>1, <2>1, FS_AddElement
    <2>3. Cardinality(UpTo(x) \cup {y}) <= Cardinality(UpTo(y))
      BY <1>1, <2>1, FS_Subset
    <2> QED
      BY <1>1, <1>4, <2>2, <2>3
  <1> QED
    BY <1>5 DEF MaxOf

LEMMA DivisionFacts ==
    ASSUME NEW a \in Nat, NEW b \in Nat \ {0}
    PROVE  /\ a \div b \in Nat /\ (a \div b) * b \in Nat /\ a % b \in 0 .. b - 1
           /\ a = (a \div b) * b + (a % b)
  <1>1. a \div b \in Nat /\ a % b \in 0 .. b - 1 /\ a = b * (a \div b) + (a % b)
    <2>1. a \div b \in Nat
      OBVIOUS
    <2>2. a % b \in 0 .. b - 1
      OBVIOUS
    <2>3. a = b * (a \div b) + (a % b)
      OBVIOUS
    <2> QED
      BY <2>1, <2>2, <2>3
  <1>2. b * (a \div b) = (a \div b) * b
    BY <1>1
  <1> QED
    BY <1>1, <1>2

\* A block begins with its first offset, and ends after it.
LEMMA CeilingFacts ==
    ASSUME NEW n \in Nat
    PROVE  Ceiling(n) \in Nat /\ n < Ceiling(n)
  <1> DEFINE a == n + OffsetBlock
             r == a % OffsetBlock
  <1>1. OffsetBlock \in Nat \ {0} /\ a \in Nat
    BY PersistenceAssumption
  <1>2. Ceiling(n) \in Nat /\ r \in 0 .. OffsetBlock - 1 /\ a = Ceiling(n) + r
    <2> HIDE DEF a
    <2>1. Ceiling(n) = (a \div OffsetBlock) * OffsetBlock
      BY DEF Ceiling, a
    <2> QED
      BY <1>1, <2>1, DivisionFacts
  <1> HIDE DEF r
  <1> QED
    BY <1>1, <1>2

-----------------------------------------------------------------------------
(* Sequences and frames.                                                   *)

LEMMA ConcatFacts ==
    ASSUME NEW S, NEW q \in Seq(S), NEW r \in Seq(S)
    PROVE  /\ q \o r \in Seq(S) /\ Len(q \o r) = Len(q) + Len(r)
           /\ Len(q) \in Nat /\ Len(r) \in Nat
           /\ \A i \in 1 .. Len(q) : (q \o r)[i] = q[i]
           /\ \A i \in 1 .. Len(r) : (q \o r)[Len(q) + i] = r[i]
  <1>1. /\ q \o r \in Seq(S) /\ Len(q \o r) = Len(q) + Len(r)
        /\ \A i \in 1 .. Len(q) + Len(r) :
             (q \o r)[i] = IF i <= Len(q) THEN q[i] ELSE r[i - Len(q)]
    BY ConcatProperties
  <1>2. Len(q) \in Nat /\ Len(r) \in Nat
    BY LenProperties
  <1> QED
    BY <1>1, <1>2

LEMMA PrefixFacts ==
    ASSUME NEW S, NEW q \in Seq(S), NEW n \in 0 .. Len(q)
    PROVE  /\ SubSeq(q, 1, n) \in Seq(S) /\ Len(SubSeq(q, 1, n)) = n
           /\ \A i \in 1 .. n : SubSeq(q, 1, n)[i] = q[i]
  <1>1. Len(q) \in Nat /\ DOMAIN q = 1 .. Len(q) /\ n \in Int /\ \A i \in 1 .. n : q[i] \in S
    BY LenProperties
  <1>2. /\ SubSeq(q, 1, n) \in Seq(S) /\ Len(SubSeq(q, 1, n)) = IF 1 <= n THEN n - 1 + 1 ELSE 0
        /\ \A i \in 1 .. n - 1 + 1 : SubSeq(q, 1, n)[i] = q[1 + i - 1]
    BY <1>1, SubSeqProperties
  <1> QED
    BY <1>1, <1>2

LEMMA SuffixFacts ==
    ASSUME NEW S, NEW q \in Seq(S), NEW m \in 1 .. Len(q) + 1
    PROVE  /\ SubSeq(q, m, Len(q)) \in Seq(S) /\ Len(SubSeq(q, m, Len(q))) = Len(q) + 1 - m
           /\ \A i \in 1 .. Len(q) + 1 - m : SubSeq(q, m, Len(q))[i] = q[m - 1 + i]
  <1>1. Len(q) \in Nat /\ DOMAIN q = 1 .. Len(q) /\ m \in Int
    BY LenProperties
  <1>2. \A i \in m .. Len(q) : q[i] \in S
    BY <1>1
  <1>3. /\ SubSeq(q, m, Len(q)) \in Seq(S)
        /\ Len(SubSeq(q, m, Len(q))) = IF m <= Len(q) THEN Len(q) - m + 1 ELSE 0
        /\ \A i \in 1 .. Len(q) - m + 1 : SubSeq(q, m, Len(q))[i] = q[m + i - 1]
    BY <1>1, <1>2, SubSeqProperties
  <1> QED
    BY <1>1, <1>3

LEMMA RemoveFacts ==
    ASSUME NEW S, NEW q \in Seq(S), NEW i \in DOMAIN q
    PROVE  RemoveAt(q, i) \in Seq(S)
  <1>1. Len(q) \in Nat /\ i \in 1 .. Len(q)
    BY LenProperties
  <1>2. i - 1 \in 0 .. Len(q) /\ i + 1 \in 1 .. Len(q) + 1
    BY <1>1
  <1> QED
    BY <1>2, PrefixFacts, SuffixFacts, ConcatProperties DEF RemoveAt

LEMMA WholeFacts ==
    ASSUME NEW R, NEW S, NEW recs \in Seq(R), \A r \in R : [rec |-> r, part |-> "whole"] \in S
    PROVE  /\ Whole(recs) \in Seq(S) /\ Len(Whole(recs)) = Len(recs)
           /\ \A i \in 1 .. Len(recs) : Whole(recs)[i] = [rec |-> recs[i], part |-> "whole"]
  <1>1. Len(recs) \in Nat /\ DOMAIN recs = 1 .. Len(recs) /\ \A i \in 1 .. Len(recs) : recs[i] \in R
    BY LenProperties
  <1>2. /\ Whole(recs) = [i \in 1 .. Len(recs) |-> [rec |-> recs[i], part |-> "whole"]]
        /\ \A i \in 1 .. Len(recs) : [rec |-> recs[i], part |-> "whole"] \in S
    BY <1>1 DEF Whole
  <1> QED
    BY <1>1, <1>2

\* The halves of a write that ends inside frame i.
LEMMA TearFacts ==
    ASSUME NEW S, NEW q \in Seq(S), NEW i \in DOMAIN q,
           \A f \in S : [f EXCEPT !.part = "head"] \in S /\ [f EXCEPT !.part = "rest"] \in S
    PROVE  Tear(q, i).head \in Seq(S) /\ Tear(q, i).rest \in Seq(S)
  <1>1. Len(q) \in Nat /\ i \in 1 .. Len(q) /\ q[i] \in S
    BY LenProperties
  <1>2. i - 1 \in 0 .. Len(q) /\ i + 1 \in 1 .. Len(q) + 1
    BY <1>1
  <1>3. SubSeq(q, 1, i - 1) \in Seq(S) /\ SubSeq(q, i + 1, Len(q)) \in Seq(S)
    BY <1>2, PrefixFacts, SuffixFacts
  <1>4. Append(SubSeq(q, 1, i - 1), [q[i] EXCEPT !.part = "head"]) \in Seq(S)
    BY <1>1, <1>3, AppendProperties
  <1>5. <<[q[i] EXCEPT !.part = "rest"]>> \in Seq(S)
    <2> DEFINE g == [q[i] EXCEPT !.part = "rest"]
    <2>1. g \in S
      BY <1>1
    <2> HIDE DEF g
    <2> QED
      BY <2>1 DEF g
  <1>6. <<[q[i] EXCEPT !.part = "rest"]>> \o SubSeq(q, i + 1, Len(q)) \in Seq(S)
    BY <1>3, <1>5, ConcatProperties
  <1> QED
    BY <1>4, <1>6 DEF Tear

LEMMA RecordFacts ==
    ASSUME NEW r \in Record
    PROVE  /\ r.op \in {"set", "del", "clear", "offset", "pub"} /\ r.at \in Nat
           /\ r.op = "set" => r.k \in Key /\ r.entry \in Entry
           /\ r.op \in {"offset", "pub"} => r.offset \in Nat /\ r.at = 0
  BY DEF Record

LEMMA FrameFacts ==
    ASSUME NEW f \in Frame
    PROVE  /\ f.rec \in Record /\ f.part \in {"whole", "head", "rest"}
           /\ f.rec.op = "set" => f.rec.entry \in Entry
           /\ f \in PastFrame => /\ [f EXCEPT !.part = "head"] \in PastFrame
                                 /\ [f EXCEPT !.part = "rest"] \in PastFrame
           /\ f \in RecentFrame => /\ [f EXCEPT !.part = "head"] \in RecentFrame
                                   /\ [f EXCEPT !.part = "rest"] \in RecentFrame
  <1>1. f.rec \in Record /\ f.part \in {"whole", "head", "rest"}
    BY DEF Frame
  <1>2. ASSUME NEW p \in {"head", "rest"}
        PROVE  [f EXCEPT !.part = p] \in Frame /\ [f EXCEPT !.part = p].rec = f.rec
    BY <1>1 DEF Frame
  <1> QED
    BY <1>1, <1>2, RecordFacts DEF PastFrame, RecentFrame

\* The Persistence object, with frames of S.
LEMMA DrainedFacts ==
    ASSUME NEW S, NEW p \in Memory(S)
    PROVE  Drained(p) \in Memory(S) /\ Drained(p).offsetReserved = p.offsetReserved
  BY EmptySeq DEF Drained, Memory

LEMMA CountedFacts ==
    ASSUME NEW S, NEW p \in Memory(S)
    PROVE  Counted(p) \in Memory(S) /\ Counted(p).offsetReserved = p.offsetReserved
  <1> DEFINE b == p.compactScheduled \/ p.opsSinceSnapshot + 1 >= AofRewriteOps
  <1>1. b \in BOOLEAN
    BY Zenon
  <1> DEFINE n == p.opsSinceSnapshot + 1
  <1>2. n \in Nat
    BY DEF Memory
  <1>3. Counted(p) = [p EXCEPT !.opsSinceSnapshot = n, !.compactScheduled = b]
    BY DEF Counted
  <1> HIDE DEF b, n
  <1> QED
    BY <1>1, <1>2, <1>3 DEF Memory

LEMMA QueuedFacts ==
    ASSUME NEW S, NEW p \in Memory(S), NEW rec, [rec |-> rec, part |-> "whole"] \in S
    PROVE  Queued(p, rec) \in Memory(S) /\ Queued(p, rec).offsetReserved = p.offsetReserved
  <1>1. Whole(<<rec>>) \in Seq(S)
    <2>1. <<rec>> \in Seq({rec})
      OBVIOUS
    <2> QED
      BY <2>1, WholeFacts
  <1> DEFINE q == [p EXCEPT !.queue = @ \o Whole(<<rec>>)]
  <1>2. p.queue \o Whole(<<rec>>) \in Seq(S)
    BY <1>1, ConcatProperties DEF Memory
  <1>3. q \in Memory(S) /\ q.offsetReserved = p.offsetReserved
    BY <1>2 DEF Memory
  <1> QED
    BY <1>3, DrainedFacts DEF Queued

LEMMA NoPersistFacts ==
    ASSUME NEW S, NEW n \in Nat
    PROVE  /\ NoPersist(n) \in Memory(S) /\ NoPersist(n).offsetReserved = n
           /\ NoPersist(n).writing = "no"
  BY EmptySeq DEF NoPersist, Memory

LEMMA MemoryMonotonic ==
    ASSUME NEW S, NEW T, S \subseteq T, NEW p \in Memory(S)
    PROVE  p \in Memory(T)
  <1>1. p.queue \in Seq(T) /\ p.batch \in Seq(T)
    BY SeqMonotonic DEF Memory
  <1> QED
    BY <1>1 DEF Memory

-----------------------------------------------------------------------------
(* Writes.                                                                 *)

\* The log, of frames of S, and the mutations that are in it, of n.
LogAgrees(S, n, frames, disked, last, lastDisked) ==
    /\ frames \in Seq(S) /\ disked \in 0 .. Len(frames)
    /\ last \in 1 .. n /\ lastDisked \in 1 .. last

\* What is on the disk stays there.
Kept == synced <= synced' /\ \A i \in 1 .. synced : log'[i] = log[i]

LEMMA WrittenFacts ==
    ASSUME NEW S, NEW n \in Nat, NEW frames \in Seq(S),
           \A i \in DOMAIN frames : frames[i].rec.at \in 0 .. n,
           LogAgrees(S, n, log, synced, landed, durable), Written(frames)
    PROVE  /\ log' \in Seq(S) /\ Len(log') = Len(log) + Len(frames)
           /\ Len(log) \in Nat /\ Len(frames) \in Nat
           /\ \A i \in 1 .. Len(log) : log'[i] = log[i]
           /\ landed' \in landed .. n
  <1>1. log' = log \o frames /\ log \in Seq(S) /\ landed \in 1 .. n
    BY DEF LogAgrees, Written
  <1> DEFINE T == {landed} \cup {frames[i].rec.at : i \in DOMAIN frames}
  <1>2. T \subseteq 0 .. n /\ landed \in T /\ landed' = MaxOf(T)
    BY <1>1 DEF Written
  <1> HIDE DEF T
  <1>3. landed' \in T /\ landed <= landed'
    BY <1>2, MaxFacts
  <1> QED
    BY <1>1, <1>2, <1>3, ConcatFacts

\* Whole frames of records that mutations up to the n-th have made.
LEMMA WholePlaced ==
    ASSUME NEW R, NEW S, NEW n \in Nat, NEW rs \in Seq(R),
           \A r \in R : [rec |-> r, part |-> "whole"] \in S,
           \A r \in R : r.at \in 0 .. n
    PROVE  /\ Whole(rs) \in Seq(S) /\ Len(Whole(rs)) = Len(rs) /\ Len(rs) \in Nat
           /\ \A i \in 1 .. Len(rs) : Whole(rs)[i] = [rec |-> rs[i], part |-> "whole"]
           /\ \A i \in DOMAIN Whole(rs) : Whole(rs)[i].rec.at \in 0 .. n
  <1>1. Len(rs) \in Nat /\ \A i \in 1 .. Len(rs) : rs[i] \in R
    BY LenProperties
  <1>2. /\ Whole(rs) \in Seq(S) /\ Len(Whole(rs)) = Len(rs)
        /\ \A i \in 1 .. Len(rs) : Whole(rs)[i] = [rec |-> rs[i], part |-> "whole"]
    BY WholeFacts, Zenon
  <1>3. DOMAIN Whole(rs) = 1 .. Len(rs)
    BY <1>2, LenProperties
  <1>4. \A r : [rec |-> r, part |-> "whole"].rec = r
    OBVIOUS
  <1> QED
    BY <1>1, <1>2, <1>3, <1>4

LEMMA WriteSyncFacts ==
    ASSUME NEW R, NEW S, NEW n \in Nat, NEW recs \in Seq(R),
           \A r \in R : r.at \in 0 .. n /\ [rec |-> r, part |-> "whole"] \in S,
           LogAgrees(S, n, log, synced, landed, durable),
           faults \in Nat, failed \in BOOLEAN, WriteSync(recs)
    PROVE  /\ LogAgrees(S, n, log', synced', landed', durable') /\ Kept
           /\ \A i \in 1 .. Len(log) : log'[i] = log[i]
           /\ faults' \in Nat /\ failed' \in BOOLEAN /\ (failed => failed')
           /\ ~failed' => \A i \in 1 .. Len(recs) :
                /\ Len(log) + i \in 1 .. synced'
                /\ log'[Len(log) + i] = [rec |-> recs[i], part |-> "whole"]
  <1>1. ASSUME NEW rs \in Seq(R)
        PROVE  /\ Whole(rs) \in Seq(S) /\ Len(Whole(rs)) = Len(rs) /\ Len(rs) \in Nat
               /\ \A i \in 1 .. Len(rs) : Whole(rs)[i] = [rec |-> rs[i], part |-> "whole"]
               /\ \A i \in DOMAIN Whole(rs) : Whole(rs)[i].rec.at \in 0 .. n
    <2>1. \A r \in R : [rec |-> r, part |-> "whole"] \in S
      OBVIOUS
    <2>2. \A r \in R : r.at \in 0 .. n
      OBVIOUS
    <2> QED
      BY <2>1, <2>2, WholePlaced
  <1>2. ASSUME NEW rs \in Seq(R), Written(Whole(rs))
        PROVE  /\ LogAgrees(S, n, log', synced', landed', durable') /\ Kept
               /\ \A i \in 1 .. Len(log) : log'[i] = log[i]
    <2>1. /\ log' \in Seq(S) /\ Len(log') = Len(log) + Len(rs) /\ Len(log) \in Nat /\ Len(rs) \in Nat
          /\ \A i \in 1 .. Len(log) : log'[i] = log[i]
          /\ landed' \in landed .. n
      BY <1>1, <1>2, WrittenFacts
    <2>2. \/ log' = log /\ synced' = synced /\ durable' = durable
          \/ synced' = Len(log') /\ durable' = landed'
      BY DEF WriteSync
    <2> QED
      BY <2>1, <2>2 DEF LogAgrees, Kept
  <1>3. \/ Written(Whole(recs)) /\ UNCHANGED <<faults, failed>>
        \/ /\ Fault("write") /\ failed' = TRUE
           /\ \E i \in DOMAIN recs : Written(Whole(RemoveAt(recs, i)))
    BY DEF WriteSync
  <1>4. CASE /\ Fault("write") /\ failed' = TRUE
             /\ \E i \in DOMAIN recs : Written(Whole(RemoveAt(recs, i)))
    BY <1>2, <1>4, RemoveFacts DEF Fault
  <1>5. CASE Written(Whole(recs)) /\ UNCHANGED <<faults, failed>>
    <2>1. /\ LogAgrees(S, n, log', synced', landed', durable') /\ Kept
          /\ \A i \in 1 .. Len(log) : log'[i] = log[i]
      BY <1>2, <1>5
    <2>2. Len(recs) \in Nat /\ Whole(recs) \in Seq(S) /\ log \in Seq(S) /\ log' = log \o Whole(recs)
      BY <1>1, <1>5 DEF LogAgrees, Written
    <2>3. /\ Len(log') = Len(log) + Len(recs) /\ Len(log) \in Nat
          /\ \A i \in 1 .. Len(recs) :
               log'[Len(log) + i] = [rec |-> recs[i], part |-> "whole"]
      <3> DEFINE w == Whole(recs)
      <3>1. w \in Seq(S) /\ log \in Seq(S)
        BY <1>1, <2>2
      <3>2. /\ Len(w) = Len(recs) /\ log' = log \o w
            /\ \A i \in 1 .. Len(recs) : w[i] = [rec |-> recs[i], part |-> "whole"]
        BY <1>1, <2>2
      <3> HIDE DEF w
      <3>3. /\ Len(log \o w) = Len(log) + Len(w) /\ Len(log) \in Nat
            /\ \A i \in 1 .. Len(w) : (log \o w)[Len(log) + i] = w[i]
        BY <3>1, ConcatFacts
      <3> QED
        BY <3>2, <3>3
    <2>4. Len(recs) # 0 => synced' = Len(log')
      BY <2>3 DEF WriteSync
    <2>5. \A i \in 1 .. Len(recs) : Len(log) + i \in 1 .. synced'
      BY <2>2, <2>3, <2>4
    <2>6. faults' = faults /\ failed' = failed
      BY <1>5
    <2> QED
      BY <2>1, <2>3, <2>5, <2>6, Zenon
  <1> QED
    BY <1>3, <1>4, <1>5

LEMMA LogFacts ==
    ASSUME NEW R, NEW S, NEW T, NEW n \in Nat, NEW p \in Memory(T), NEW block \in Seq(R), NEW rec \in R,
           NEW sync \in BOOLEAN,
           \A r \in R : /\ r.at \in 0 .. n
                        /\ [rec |-> r, part |-> "whole"] \in S /\ [rec |-> r, part |-> "whole"] \in T,
           LogAgrees(S, n, log, synced, landed, durable),
           faults \in Nat, failed \in BOOLEAN, Log(p, block, rec, sync)
    PROVE  /\ LogAgrees(S, n, log', synced', landed', durable') /\ Kept
           /\ faults' \in Nat /\ failed' \in BOOLEAN /\ (failed => failed')
           /\ ~failed' => \A i \in 1 .. Len(block) :
                /\ Len(log) + i \in 1 .. synced'
                /\ log'[Len(log) + i] = [rec |-> block[i], part |-> "whole"]
           /\ persist' \in Memory(T) /\ persist'.offsetReserved = p.offsetReserved
  <1>1. /\ Counted(p) \in Memory(T) /\ Counted(p).offsetReserved = p.offsetReserved
        /\ Counted(Queued(p, rec)) \in Memory(T)
        /\ Counted(Queued(p, rec)).offsetReserved = p.offsetReserved
    <2>1. [rec |-> rec, part |-> "whole"] \in T
      OBVIOUS
    <2>2. Queued(p, rec) \in Memory(T) /\ Queued(p, rec).offsetReserved = p.offsetReserved
      BY <2>1, QueuedFacts
    <2> QED
      BY <2>2, CountedFacts
  <1>2. persist' \in Memory(T) /\ persist'.offsetReserved = p.offsetReserved
    BY <1>1 DEF Log
  <1>3. WriteSync(Append(block, rec)) \/ WriteSync(block)
    BY DEF Log
  <1>4. /\ Append(block, rec) \in Seq(R) /\ Len(Append(block, rec)) = Len(block) + 1
        /\ Len(block) \in Nat /\ \A i \in 1 .. Len(block) : Append(block, rec)[i] = block[i]
    BY AppendProperties, LenProperties
  <1>5. CASE WriteSync(block)
    <2>1. /\ LogAgrees(S, n, log', synced', landed', durable') /\ Kept
          /\ faults' \in Nat /\ failed' \in BOOLEAN /\ (failed => failed')
          /\ ~failed' => \A i \in 1 .. Len(block) :
               /\ Len(log) + i \in 1 .. synced'
               /\ log'[Len(log) + i] = [rec |-> block[i], part |-> "whole"]
      BY <1>5, WriteSyncFacts
    <2> QED
      BY <1>2, <2>1, Zenon
  <1>6. CASE WriteSync(Append(block, rec))
    <2> DEFINE recs == Append(block, rec)
    <2>1. recs \in Seq(R) /\ WriteSync(recs)
      BY <1>4, <1>6
    <2> HIDE DEF recs
    <2>2. /\ LogAgrees(S, n, log', synced', landed', durable') /\ Kept
          /\ faults' \in Nat /\ failed' \in BOOLEAN /\ (failed => failed')
          /\ ~failed' => \A i \in 1 .. Len(recs) :
               /\ Len(log) + i \in 1 .. synced'
               /\ log'[Len(log) + i] = [rec |-> recs[i], part |-> "whole"]
      BY <2>1, WriteSyncFacts
    <2>3. \A i \in 1 .. Len(block) : i \in 1 .. Len(recs) /\ recs[i] = block[i]
      BY <1>4 DEF recs
    <2> QED
      BY <1>2, <2>2, <2>3, Zenon
  <1> QED
    BY <1>3, <1>5, <1>6

\* A record logged synchronously comes after all that was in the log, and is synced.
LEMMA LogSyncFacts ==
    ASSUME NEW R, NEW S, NEW n \in Nat, NEW p, NEW block \in Seq(R), NEW rec \in R, NEW sync \in BOOLEAN,
           \A r \in R : r.at \in 0 .. n /\ [rec |-> r, part |-> "whole"] \in S,
           LogAgrees(S, n, log, synced, landed, durable),
           faults \in Nat, failed \in BOOLEAN, Log(p, block, rec, sync)
    PROVE  /\ \A i \in 1 .. Len(log) : log'[i] = log[i]
           /\ ~failed' /\ sync =>
                /\ Len(log) + (Len(block) + 1) \in 1 .. synced'
                /\ log'[Len(log) + (Len(block) + 1)] = [rec |-> rec, part |-> "whole"]
  <1>1. /\ Append(block, rec) \in Seq(R) /\ Len(Append(block, rec)) = Len(block) + 1
        /\ Len(block) \in Nat /\ Append(block, rec)[Len(block) + 1] = rec
    BY AppendProperties, LenProperties
  <1>2. WriteSync(Append(block, rec)) \/ (~sync /\ WriteSync(block))
    <2>1. sync => WriteSync(Append(block, rec))
      BY DEF Log
    <2>2. WriteSync(Append(block, rec)) \/ WriteSync(block)
      BY DEF Log
    <2> QED
      BY <2>1, <2>2, Zenon
  <1>3. CASE ~sync /\ WriteSync(block)
    <2>1. \A i \in 1 .. Len(log) : log'[i] = log[i]
      BY <1>3, WriteSyncFacts
    <2> QED
      BY <1>3, <2>1, Zenon
  <1>4. CASE WriteSync(Append(block, rec))
    <2> DEFINE recs == Append(block, rec)
    <2>1. /\ recs \in Seq(R) /\ WriteSync(recs) /\ Len(block) + 1 \in 1 .. Len(recs)
          /\ recs[Len(block) + 1] = rec
      BY <1>1, <1>4
    <2> HIDE DEF recs
    <2>2. /\ \A i \in 1 .. Len(log) : log'[i] = log[i]
          /\ ~failed' => \A i \in 1 .. Len(recs) :
               /\ Len(log) + i \in 1 .. synced'
               /\ log'[Len(log) + i] = [rec |-> recs[i], part |-> "whole"]
      BY <2>1, WriteSyncFacts
    <2> QED
      BY <2>1, <2>2
  <1> QED
    BY <1>2, <1>3, <1>4

-----------------------------------------------------------------------------
(* The inductive invariant, part by part.                                  *)

\* What is of the past stays of the past.
LEMMA PastGrows ==
    ASSUME ops \in Nat, ops' \in Nat, ops <= ops'
    PROVE  /\ PastEntry \subseteq PastEntry' /\ PastFrame \subseteq PastFrame'
           /\ Len(past) \in Nat /\ Len(past') \in Nat /\ Len(past) <= Len(past') =>
                RecentFrame \subseteq RecentFrame'
  <1>1. PastEntry \subseteq PastEntry'
    BY DEF PastEntry
  <1>2. \A f \in Frame : f.rec.op = "set" => f.rec.entry.e \in Nat
    BY FrameFacts DEF Entry
  <1>3. PastFrame \subseteq PastFrame'
    BY <1>2 DEF PastFrame
  <1>4. \A f \in Frame : f.rec.at \in Nat
    BY FrameFacts, RecordFacts
  <1>5. PastFrame \subseteq Frame
    BY DEF PastFrame
  <1> QED
    BY <1>1, <1>3, <1>4, <1>5 DEF RecentFrame

\* The types, without the bounds of TtlsArePast and QueueIsRecent.
LEMMA BoundedTypes ==
    ASSUME TtlsArePast', QueueIsRecent', ops' \in Nat
    PROVE  /\ value' \in [Key -> Entry] /\ snapshot'.entries \in [Key -> Entry]
           /\ past' \in Seq([Key -> Entry]) /\ log' \in Seq(Frame) /\ persist' \in Memory(Frame)
  <1>1. PastEntry' \subseteq Entry /\ PastFrame' \subseteq Frame /\ RecentFrame' \subseteq Frame
    BY DEF PastEntry, Entry, PastFrame, RecentFrame
  <1>2. [Key -> PastEntry'] \subseteq [Key -> Entry]
    BY <1>1
  <1>3. log' \in Seq(PastFrame') /\ past' \in Seq([Key -> PastEntry']) /\ persist' \in Memory(RecentFrame')
        /\ value' \in [Key -> PastEntry'] /\ snapshot'.entries \in [Key -> PastEntry']
    BY DEF TtlsArePast, QueueIsRecent
  <1>4. past' \in Seq([Key -> Entry])
    BY <1>2, <1>3, SeqMonotonic
  <1>5. log' \in Seq(Frame)
    BY <1>1, <1>3, SeqMonotonic
  <1>6. persist' \in Memory(Frame)
    BY <1>1, <1>3, MemoryMonotonic
  <1> QED
    BY <1>2, <1>3, <1>4, <1>5, <1>6

\* What the actions need to know of the state before them.
LEMMA Before ==
    ASSUME IInv
    PROVE  /\ ops \in Nat /\ crashes \in Nat /\ faults \in Nat /\ failed \in BOOLEAN
           /\ Len(past) \in Nat /\ Len(past) > 0 /\ DOMAIN past = 1 .. Len(past)
           /\ LogAgrees(PastFrame, Len(past), log, synced, landed, durable)
           /\ synced \in Nat /\ Len(log) \in Nat
           /\ snapshot.offset \in Nat /\ snapshot.pubs \in Seq(Nat)
           /\ persist.offsetReserved \in Nat /\ persist \in Memory(RecentFrame)
  <1>1. past \in Seq([Key -> Entry]) /\ log \in Seq(Frame) /\ log \in Seq(PastFrame)
    BY DEF IInv, TypeOK, TtlsArePast
  <1>2. Len(past) \in Nat /\ DOMAIN past = 1 .. Len(past) /\ Len(log) \in Nat
    BY <1>1, LenProperties
  <1>3. synced \in 0 .. Len(log) /\ landed \in DOMAIN past /\ durable \in 1 .. landed
    BY DEF IInv, TypeOK
  <1>4. persist \in Memory(RecentFrame) /\ persist.offsetReserved \in Nat
    BY DEF IInv, QueueIsRecent, Memory
  <1>5. /\ ops \in Nat /\ crashes \in Nat /\ faults \in Nat /\ failed \in BOOLEAN
        /\ snapshot.offset \in Nat /\ snapshot.pubs \in Seq(Nat)
    BY DEF IInv, TypeOK
  <1>6. LogAgrees(PastFrame, Len(past), log, synced, landed, durable)
    BY <1>1, <1>2, <1>3 DEF LogAgrees
  <1> QED
    BY <1>2, <1>3, <1>4, <1>5, <1>6

\* Reservations that are on the disk stay there, while the snapshot does.
LEMMA RecordedStays ==
    ASSUME synced \in Nat, synced' \in Nat, Kept, snapshot' = snapshot
    PROVE  /\ minted' = minted /\ Recorded(minted) => Recorded(minted)'
           /\ persist'.offsetReserved = persist.offsetReserved /\ Recorded(persist.offsetReserved)
                => Recorded(persist.offsetReserved)'
  BY DEF Kept, Recorded

\* What is minted is on record as a part of what is reserved.
LEMMA MintedRecorded ==
    ASSUME IInv, ~failed
    PROVE  Recorded(minted)
  <1>1. CASE phase = "down"
    BY <1>1 DEF IInv, ReservationRecorded
  <1>2. CASE phase # "down"
    <2>1. /\ minted <= nextOffset /\ nextOffset <= persist.offsetReserved
          /\ Recorded(persist.offsetReserved)
      BY <1>2 DEF IInv, ReservationRecorded, OffsetsReserved
    <2>2. minted \in Nat /\ nextOffset \in Nat /\ persist.offsetReserved \in Nat /\ snapshot.offset \in Nat
      BY Before DEF IInv, TypeOK
    <2>3. \A i \in 1 .. synced : log[i].rec.op = "offset" => log[i].rec.offset \in Nat
      <3>1. \A i \in 1 .. synced : log[i] \in Frame
        BY Before DEF IInv, TypeOK
      <3> QED
        BY <3>1, FrameFacts, RecordFacts
    <2> QED
      BY <2>1, <2>2, <2>3 DEF Recorded
  <1> QED
    BY <1>1, <1>2

LEMMA InitIInv == Init => IInv
  <1> SUFFICES ASSUME Init PROVE IInv
    OBVIOUS
  <1>1. Absent \in PastEntry /\ Absent \in Entry
    BY DEF Absent, PastEntry, Entry, Init
  <1>2. /\ value \in [Key -> PastEntry] /\ value \in [Key -> Entry]
        /\ snapshot = [entries |-> value, pubs |-> <<>>, offset |-> 0] /\ past = <<value>>
    BY <1>1 DEF Init
  <1>3. past \in Seq([Key -> PastEntry]) /\ past \in Seq([Key -> Entry]) /\ DOMAIN past = {1}
    BY <1>2
  <1>4. persist \in Memory(RecentFrame) /\ persist \in Memory(Frame) /\ persist.offsetReserved = 0
    BY NoPersistFacts DEF Init
  <1>5. log \in Seq(PastFrame) /\ log \in Seq(Frame) /\ log = <<>> /\ Len(log) = 0
    BY EmptySeq DEF Init
  <1>6. TypeOK
    <2>1. snapshot \in [entries : [Key -> Entry], pubs : Seq(Nat), offset : Nat]
      BY <1>2, EmptySeq
    <2>2. /\ synced \in 0 .. Len(log) /\ lapsed \subseteq 1 .. ops /\ landed \in DOMAIN past
          /\ durable \in 1 .. landed
      BY <1>3, <1>5 DEF Init
    <2>3. /\ phase \in {"up", "closing", "down"} /\ mode \in Modes /\ ring \in Seq(Nat)
          /\ nextOffset \in Nat /\ ops \in Nat /\ crashes \in Nat /\ faults \in Nat
          /\ acked \subseteq Nat /\ minted \in Nat
      BY EmptySeq DEF Init
    <2>4. planned \in BOOLEAN /\ failed \in BOOLEAN
      BY DEF Init
    <2> QED
      BY <1>2, <1>3, <1>4, <1>5, <2>1, <2>2, <2>3, <2>4 DEF TypeOK
  <1>7. TtlsArePast /\ QueueIsRecent
    BY <1>2, <1>3, <1>4, <1>5 DEF TtlsArePast, QueueIsRecent
  <1>8. RetainedOnce /\ OffsetsReserved
    BY <1>2, <1>4 DEF Init, RetainedOnce, OffsetsReserved, Increasing
  <1>9. ReservationRecorded
    BY <1>2, <1>4 DEF Init, ReservationRecorded, Recorded
  <1> QED
    BY <1>6, <1>7, <1>8, <1>9 DEF IInv, WritesWhileUp, Init

-----------------------------------------------------------------------------
(* The operations of the broker.                                           *)

LEMMA LogAgreesGrows ==
    ASSUME NEW S, NEW T, NEW m \in Nat, NEW n \in Nat, S \subseteq T, m <= n,
           LogAgrees(S, m, log, synced, landed, durable)
    PROVE  LogAgrees(T, n, log, synced, landed, durable)
  <1>1. log \in Seq(T)
    BY SeqMonotonic DEF LogAgrees
  <1> QED
    BY <1>1 DEF LogAgrees

\* An operation logs records of R.
LEMMA OperationFacts ==
    ASSUME IInv, Operation, NEW R, NEW p, NEW block \in Seq(R), NEW rec \in R, NEW sync \in BOOLEAN,
           p \in Memory(RecentFrame'), Log(p, block, rec, sync),
           \A r \in R : r \in Record /\ r.at <= Len(past') /\ (r.op = "set" => r.entry.e <= ops'),
           value' \in [Key -> PastEntry'], past' \in Seq([Key -> PastEntry']),
           Len(past) <= Len(past'),
           ring' \in Seq(Nat), nextOffset' \in Nat, acked' \subseteq Nat, minted' \in Nat
    PROVE  /\ TypeOK' /\ TtlsArePast' /\ QueueIsRecent' /\ Kept /\ (failed => failed')
           /\ persist'.offsetReserved = p.offsetReserved
           /\ ~failed' => \A i \in 1 .. Len(block) :
                /\ Len(log) + i \in 1 .. synced'
                /\ log'[Len(log) + i] = [rec |-> block[i], part |-> "whole"]
  <1>1. /\ ops \in Nat /\ ops' \in Nat /\ ops <= ops' /\ crashes \in Nat /\ faults \in Nat
        /\ Len(past) \in Nat /\ Len(past') \in Nat /\ DOMAIN past' = 1 .. Len(past')
        /\ failed \in BOOLEAN
        /\ LogAgrees(PastFrame, Len(past), log, synced, landed, durable)
    <2>1. /\ ops \in Nat /\ crashes \in Nat /\ faults \in Nat /\ Len(past) \in Nat
          /\ failed \in BOOLEAN
          /\ LogAgrees(PastFrame, Len(past), log, synced, landed, durable)
      BY Before
    <2>2. ops' = ops + 1
      BY DEF Operation
    <2>3. Len(past') \in Nat /\ DOMAIN past' = 1 .. Len(past')
      BY LenProperties
    <2> QED
      BY <2>1, <2>2, <2>3
  <1>2. /\ PastEntry \subseteq PastEntry' /\ PastFrame \subseteq PastFrame'
        /\ RecentFrame \subseteq RecentFrame'
    BY <1>1, PastGrows
  <1>3. LogAgrees(PastFrame', Len(past'), log, synced, landed, durable)
    BY <1>1, <1>2, LogAgreesGrows
  <1>4. \A r \in R : /\ r.at \in 0 .. Len(past') /\ [rec |-> r, part |-> "whole"] \in PastFrame'
                     /\ [rec |-> r, part |-> "whole"] \in RecentFrame'
    <2> TAKE r \in R
    <2>1. r \in Record /\ r.at \in Nat /\ r.at <= Len(past') /\ (r.op = "set" => r.entry.e <= ops')
      BY RecordFacts
    <2>2. [rec |-> r, part |-> "whole"] \in Frame /\ [rec |-> r, part |-> "whole"].rec = r
      BY <2>1 DEF Frame
    <2> QED
      BY <1>1, <2>1, <2>2 DEF PastFrame, RecentFrame
  <1>5. /\ LogAgrees(PastFrame', Len(past'), log', synced', landed', durable') /\ Kept
        /\ faults' \in Nat /\ failed' \in BOOLEAN /\ (failed => failed')
        /\ ~failed' => \A i \in 1 .. Len(block) :
             /\ Len(log) + i \in 1 .. synced'
             /\ log'[Len(log) + i] = [rec |-> block[i], part |-> "whole"]
        /\ persist' \in Memory(RecentFrame') /\ persist'.offsetReserved = p.offsetReserved
    BY <1>1, <1>3, <1>4, LogFacts
  <1>6. /\ phase' = "up" /\ mode' = mode /\ snapshot' = snapshot /\ lapsed' = lapsed
        /\ crashes' = crashes /\ planned' = planned
    BY DEF Operation
  <1>7. snapshot.entries \in [Key -> PastEntry']
    <2>1. snapshot.entries \in [Key -> PastEntry]
      BY DEF IInv, TtlsArePast
    <2> QED
      BY <1>2, <2>1
  <1>8. TtlsArePast' /\ QueueIsRecent'
    BY <1>5, <1>6, <1>7 DEF TtlsArePast, QueueIsRecent, LogAgrees
  <1>9. TypeOK'
    <2>1. /\ value' \in [Key -> Entry] /\ past' \in Seq([Key -> Entry]) /\ log' \in Seq(Frame)
          /\ persist' \in Memory(Frame)
      BY <1>1, <1>8, BoundedTypes
    <2>2. /\ phase' \in {"up", "closing", "down"} /\ mode' \in Modes /\ lapsed' \subseteq 1 .. ops'
          /\ snapshot' \in [entries : [Key -> Entry], pubs : Seq(Nat), offset : Nat]
          /\ crashes' \in Nat /\ planned' \in BOOLEAN
      <3>1. /\ mode \in Modes /\ lapsed \subseteq 1 .. ops
            /\ snapshot \in [entries : [Key -> Entry], pubs : Seq(Nat), offset : Nat]
            /\ crashes \in Nat /\ planned \in BOOLEAN
        BY DEF IInv, TypeOK
      <3>2. 1 .. ops \subseteq 1 .. ops'
        BY <1>1
      <3>3. lapsed' \subseteq 1 .. ops'
        BY <1>6, <3>1, <3>2, Zenon
      <3> QED
        BY <1>6, <3>1, <3>3, Zenon
    <2>3. /\ synced' \in 0 .. Len(log') /\ landed' \in DOMAIN past' /\ durable' \in 1 .. landed'
          /\ faults' \in Nat /\ failed' \in BOOLEAN
      BY <1>1, <1>5 DEF LogAgrees
    <2> QED
      BY <1>1, <2>1, <2>2, <2>3 DEF TypeOK
  <1> QED
    BY <1>5, <1>8, <1>9

\* What a record says of key k.
Writes(rec, k) == rec.op = "clear" \/ (rec.op \in {"set", "del"} /\ rec.k = k)
Result(rec) == IF rec.op = "set" THEN rec.entry ELSE Absent

\* A mutation of operation ops + 1, and its record.
Mutation(store, rec) ==
    /\ Mutate(store, rec)
    /\ store \in [Key -> [v : Nat, e : 0 .. ops + 1]]
    /\ rec \in Record /\ rec.op \in {"set", "del", "clear"} /\ rec.at = Len(past) + 1
    /\ rec.op = "set" => rec.entry.e <= ops + 1
    /\ \A k \in Key : store[k] = IF Writes(rec, k) THEN Result(rec) ELSE value[k]

LEMMA MutateStep ==
    ASSUME IInv, NEW store, NEW rec, Mutation(store, rec)
    PROVE  IInv'
  <1> rec \in Record /\ rec.at = Len(past) + 1
    BY DEF Mutation
  <1>1. /\ Operation /\ value' = store /\ past' = Append(past, store)
        /\ Log(persist, <<>>, rec, FALSE)
        /\ ring' = ring /\ nextOffset' = nextOffset /\ acked' = acked /\ minted' = minted
        /\ store \in [Key -> [v : Nat, e : 0 .. ops + 1]]
        /\ rec.op = "set" => rec.entry.e <= ops + 1
    BY DEF Mutate, Mutation
  <1>2. /\ phase = "up" /\ phase' = "up" /\ ops' = ops + 1 /\ ops \in Nat /\ snapshot' = snapshot
    BY <1>1, Before DEF Operation
  <1>3. PastEntry' = [v : Nat, e : 0 .. ops + 1]
    BY <1>2 DEF PastEntry
  <1>4. PastEntry \subseteq PastEntry' /\ Len(past) \in Nat /\ past \in Seq([Key -> PastEntry])
    BY <1>2, PastGrows, Before DEF IInv, TtlsArePast
  <1>5. past' \in Seq([Key -> PastEntry']) /\ Len(past') = Len(past) + 1 /\ store \in [Key -> PastEntry']
    <2>1. store \in [Key -> PastEntry'] /\ [Key -> PastEntry] \subseteq [Key -> PastEntry']
      BY <1>1, <1>3, <1>4
    <2>2. past \in Seq([Key -> PastEntry'])
      BY <1>4, <2>1, SeqMonotonic
    <2> QED
      BY <1>1, <2>1, <2>2, AppendProperties
  <1>6. RecentFrame \subseteq RecentFrame' /\ persist \in Memory(RecentFrame')
    <2>1. RecentFrame \subseteq RecentFrame'
      BY <1>2, <1>4, <1>5, PastGrows
    <2> QED
      BY <2>1, MemoryMonotonic DEF IInv, QueueIsRecent
  <1> DEFINE R == {rec}
  <1>7. <<>> \in Seq(R) /\ rec \in R /\ FALSE \in BOOLEAN
    BY EmptySeq
  <1>8. /\ ring' \in Seq(Nat) /\ nextOffset' \in Nat /\ acked' \subseteq Nat /\ minted' \in Nat
    BY <1>1 DEF IInv, TypeOK
  <1>9. /\ \A r \in R : r \in Record /\ r.at <= Len(past') /\ (r.op = "set" => r.entry.e <= ops')
        /\ value' \in [Key -> PastEntry'] /\ Len(past) <= Len(past')
    BY <1>1, <1>2, <1>4, <1>5
  <1> HIDE DEF R
  <1>10. /\ TypeOK' /\ TtlsArePast' /\ QueueIsRecent' /\ Kept /\ (failed => failed')
         /\ persist'.offsetReserved = persist.offsetReserved
    BY <1>1, <1>5, <1>6, <1>7, <1>8, <1>9, OperationFacts
  <1>11. RetainedOnce' /\ OffsetsReserved'
    BY <1>1, <1>2, <1>10 DEF IInv, RetainedOnce, OffsetsReserved, Increasing
  <1>12. ReservationRecorded'
    <2>1. synced \in Nat /\ synced' \in Nat
      BY <1>10, Before DEF TypeOK
    <2> QED
      BY <1>1, <1>2, <1>10, <2>1, RecordedStays DEF IInv, ReservationRecorded
  <1> QED
    BY <1>2, <1>10, <1>11, <1>12 DEF IInv, WritesWhileUp

LEMMA Mutations ==
    ASSUME IInv, \/ \E k \in Key : Set(k) \/ Update(k) \/ Delete(k)
                 \/ Clear
    PROVE  \E store, rec : Mutation(store, rec)
  <1> DEFINE F == [v : Nat, e : 0 .. ops + 1]
  <1>1. ops \in Nat /\ Len(past) \in Nat /\ value \in [Key -> F] /\ value \in [Key -> PastEntry]
    <2>1. value \in [Key -> PastEntry] /\ ops \in Nat /\ Len(past) \in Nat
      BY Before DEF IInv, TtlsArePast
    <2>2. PastEntry \subseteq F
      BY <2>1 DEF PastEntry
    <2> HIDE DEF F
    <2> QED
      BY <2>1, <2>2
  <1>2. F \subseteq Entry /\ Absent \in F
    BY <1>1 DEF Entry, Absent
  <1>3. ASSUME NEW k \in Key, NEW entry \in F, Put(k, entry)
        PROVE  \E store, rec : Mutation(store, rec)
    <2> DEFINE rec == [op |-> "set", k |-> k, entry |-> entry, at |-> Len(past) + 1]
    <2>1. rec \in Record /\ rec.at = Len(past) + 1 /\ rec.entry.e <= ops + 1 /\ rec.op = "set"
      <3>1. entry.e <= ops + 1 /\ entry \in Entry
        BY <1>1, <1>2
      <3> HIDE DEF F
      <3> QED
        BY <1>1, <3>1 DEF Record
    <2>2. [value EXCEPT ![k] = entry] \in [Key -> F]
      <3> HIDE DEF F
      <3> QED
        BY <1>1, <1>3
    <2>3. Mutate([value EXCEPT ![k] = entry], rec)
      BY <1>3 DEF Put
    <2>4. \A j \in Key : [value EXCEPT ![k] = entry][j] =
                           IF Writes(rec, j) THEN Result(rec) ELSE value[j]
      BY <1>1, <1>3 DEF Writes, Result
    <2> HIDE DEF rec
    <2> QED
      BY <2>1, <2>2, <2>3, <2>4 DEF F, Mutation
  <1>4. ASSUME NEW k \in Key, Set(k) PROVE \E store, rec : Mutation(store, rec)
    <2>1. \A timed \in Timed : [v |-> ops + 1, e |-> IF timed THEN ops + 1 ELSE 0] \in F
      BY <1>1
    <2> HIDE DEF F
    <2> QED
      BY <1>3, <1>4, <2>1 DEF Set
  <1>5. ASSUME NEW k \in Key, Update(k) PROVE \E store, rec : Mutation(store, rec)
    <2>1. [v |-> ops + 1, e |-> IF Live(value[k]) THEN value[k].e ELSE 0] \in F
      <3>1. value[k] \in F
        BY <1>1, <1>5
      <3> QED
        BY <1>1, <3>1
    <2> HIDE DEF F
    <2> QED
      BY <1>3, <1>5, <2>1 DEF Update
  <1>6. ASSUME NEW k \in Key, Delete(k) PROVE \E store, rec : Mutation(store, rec)
    <2> DEFINE rec == [op |-> "del", k |-> k, at |-> Len(past) + 1]
    <2>1. rec \in Record /\ rec.at = Len(past) + 1 /\ rec.op \in {"del", "clear"}
      BY <1>1, <1>6 DEF Record
    <2>2. [value EXCEPT ![k] = Absent] \in [Key -> F]
      <3> HIDE DEF F
      <3> QED
        BY <1>1, <1>2, <1>6
    <2>3. Mutate([value EXCEPT ![k] = Absent], rec)
      BY <1>6 DEF Delete
    <2>4. \A j \in Key : [value EXCEPT ![k] = Absent][j] =
                           IF Writes(rec, j) THEN Result(rec) ELSE value[j]
      BY <1>1, <1>6 DEF Writes, Result
    <2> HIDE DEF rec
    <2> QED
      BY <2>1, <2>2, <2>3, <2>4 DEF F, Mutation
  <1>7. ASSUME Clear PROVE \E store, rec : Mutation(store, rec)
    <2> DEFINE rec == [op |-> "clear", at |-> Len(past) + 1]
    <2>1. rec \in Record /\ rec.at = Len(past) + 1 /\ rec.op \in {"del", "clear"}
      BY <1>1 DEF Record
    <2>2. [k \in Key |-> Absent] \in [Key -> F]
      <3> HIDE DEF F
      <3> QED
        BY <1>2
    <2>3. Mutate([k \in Key |-> Absent], rec)
      BY <1>7 DEF Clear
    <2>4. \A j \in Key : [k \in Key |-> Absent][j] =
                           IF Writes(rec, j) THEN Result(rec) ELSE value[j]
      BY DEF Writes, Result
    <2> HIDE DEF rec
    <2> QED
      BY <2>1, <2>2, <2>3, <2>4 DEF F, Mutation
  <1> QED
    BY <1>4, <1>5, <1>6, <1>7

\* What retention keeps of a sequence is in its order, and the end of it.
LEMMA RetainFacts ==
    ASSUME NEW q \in Seq(Nat), Increasing(q)
    PROVE  /\ Retain(q) \in Seq(Nat) /\ Increasing(Retain(q))
           /\ \A i \in DOMAIN Retain(q) : \E j \in DOMAIN q : Retain(q)[i] = q[j]
           /\ Len(Retain(q)) \in Nat /\ Len(Retain(q)) <= Retention
           /\ \A j \in DOMAIN q : Len(q) - j < Retention => q[j] \in ToSet(Retain(q))
           /\ \A i \in DOMAIN Retain(q), j \in DOMAIN q :
                Retain(q)[i] <= q[j] => q[j] \in ToSet(Retain(q))
  <1>1. Retention \in Nat /\ Len(q) \in Nat /\ DOMAIN q = 1 .. Len(q)
    BY PersistenceAssumption, LenProperties
  <1>2. CASE Len(q) <= Retention
    <2>1. Retain(q) = q /\ \A j \in DOMAIN q : q[j] \in ToSet(q)
      BY <1>2 DEF Retain, ToSet
    <2> QED
      BY <1>1, <1>2, <2>1
  <1>3. CASE Len(q) > Retention
    <2> DEFINE m == Len(q) - Retention + 1
    <2>1. m \in 1 .. Len(q) + 1
      BY <1>1, <1>3
    <2>2. /\ SubSeq(q, m, Len(q)) \in Seq(Nat) /\ Len(SubSeq(q, m, Len(q))) = Len(q) + 1 - m
          /\ \A i \in 1 .. Len(q) + 1 - m : SubSeq(q, m, Len(q))[i] = q[m - 1 + i]
      BY <2>1, SuffixFacts
    <2>3. Retain(q) = SubSeq(q, m, Len(q))
      BY <1>1, <1>3 DEF Retain
    <2> HIDE DEF m
    <2>4. DOMAIN Retain(q) = 1 .. Len(q) + 1 - m
      BY <2>2, <2>3, LenProperties
    <2>5. \A i \in DOMAIN Retain(q) : m - 1 + i \in DOMAIN q /\ Retain(q)[i] = q[m - 1 + i]
      <3>1. \A i \in 1 .. Len(q) + 1 - m : m - 1 + i \in 1 .. Len(q)
        BY <1>1, <2>1
      <3> QED
        BY <1>1, <2>2, <2>3, <2>4, <3>1
    <2>6. Increasing(Retain(q))
      BY <2>1, <2>4, <2>5 DEF Increasing
    <2>7. ASSUME NEW j \in DOMAIN q, m <= j
          PROVE  q[j] \in ToSet(Retain(q))
      <3>1. j \in 1 .. Len(q)
        BY <1>1
      <3>2. j - m + 1 \in 1 .. Len(q) + 1 - m /\ m - 1 + (j - m + 1) = j
        BY <1>1, <2>1, <2>7, <3>1
      <3>3. Retain(q)[j - m + 1] = q[j]
        BY <2>4, <2>5, <3>2
      <3> QED
        BY <2>4, <3>2, <3>3 DEF ToSet
    <2>8. \A j \in DOMAIN q : Len(q) - j < Retention => m <= j
      BY <1>1 DEF m
    <2>9. \A i \in DOMAIN Retain(q), j \in DOMAIN q : Retain(q)[i] <= q[j] => m <= j
      <3> SUFFICES ASSUME NEW i \in DOMAIN Retain(q), NEW j \in DOMAIN q, Retain(q)[i] <= q[j]
                   PROVE  m <= j
        OBVIOUS
      <3> DEFINE l == m - 1 + i
      <3>1. l \in DOMAIN q /\ q[l] <= q[j] /\ m <= l
        <4>1. l \in DOMAIN q /\ Retain(q)[i] = q[l]
          BY <2>5
        <4>2. i \in 1 .. Len(q) + 1 - m
          BY <2>4
        <4> QED
          BY <1>1, <2>1, <4>1, <4>2
      <3> HIDE DEF l
      <3>2. ~(j < l)
        <4>1. q[l] \in Nat /\ q[j] \in Nat
          BY <3>1
        <4> QED
          BY <3>1, <4>1 DEF Increasing
      <3> QED
        BY <1>1, <2>1, <3>1, <3>2
    <2>10. Len(Retain(q)) \in Nat /\ Len(Retain(q)) <= Retention
      BY <1>1, <1>3, <2>2, <2>3 DEF m
    <2> QED
      BY <2>2, <2>3, <2>5, <2>6, <2>7, <2>8, <2>9, <2>10
  <1> QED
    BY <1>1, <1>2, <1>3

LEMMA PublishStep ==
    ASSUME IInv, NEW sync \in BOOLEAN, Publish(sync)
    PROVE  IInv'
  <1> DEFINE n     == nextOffset + 1
             new   == n > persist.offsetReserved
             p     == IF new THEN [persist EXCEPT !.offsetReserved = Ceiling(n)] ELSE persist
             block == IF new THEN <<[op |-> "offset", offset |-> Ceiling(n), at |-> 0]>> ELSE <<>>
             rec   == [op |-> "pub", offset |-> n, at |-> 0]
             R     == [op : {"offset", "pub"}, offset : Nat, at : {0}]
  <1>1. /\ Operation /\ nextOffset' = n /\ minted' = MaxOf({minted, n})
        /\ ring' = Retain(Append(ring, n))
        /\ Log(p, block, rec, sync)
        /\ acked' = (IF sync THEN acked \cup {n} ELSE acked)
        /\ value' = value /\ past' = past
    BY DEF Publish
  <1>2. /\ phase = "up" /\ phase' = "up" /\ ops' = ops + 1 /\ ops \in Nat /\ snapshot' = snapshot
        /\ Len(past) \in Nat /\ Len(past') = Len(past)
    BY <1>1, Before DEF Operation
  <1>3. /\ n \in Nat /\ Ceiling(n) \in Nat /\ n < Ceiling(n) /\ nextOffset \in Nat /\ nextOffset < n
        /\ persist.offsetReserved \in Nat /\ minted \in Nat /\ acked \subseteq Nat
        /\ ring \in Seq(Nat) /\ Increasing(ring) /\ \A i \in DOMAIN ring : ring[i] <= nextOffset
    <2>1. nextOffset \in Nat /\ minted \in Nat /\ acked \subseteq Nat /\ ring \in Seq(Nat)
      BY DEF IInv, TypeOK
    <2>2. Increasing(ring) /\ \A i \in DOMAIN ring : ring[i] <= nextOffset
      BY <1>2 DEF IInv, RetainedOnce, OffsetsReserved
    <2>3. n \in Nat /\ nextOffset < n
      BY <2>1
    <2>4. Ceiling(n) \in Nat /\ n < Ceiling(n)
      BY <2>3, CeilingFacts
    <2> QED
      BY <2>1, <2>2, <2>3, <2>4, Before
  <1>4. PastEntry \subseteq PastEntry' /\ RecentFrame \subseteq RecentFrame'
    BY <1>2, PastGrows
  <1>5. value' \in [Key -> PastEntry'] /\ past' \in Seq([Key -> PastEntry'])
    <2>1. [Key -> PastEntry] \subseteq [Key -> PastEntry']
      BY <1>4
    <2>2. value \in [Key -> PastEntry] /\ past \in Seq([Key -> PastEntry])
      BY DEF IInv, TtlsArePast
    <2> QED
      BY <1>1, <2>1, <2>2, SeqMonotonic
  <1>6. p \in Memory(RecentFrame') /\ p.offsetReserved = IF new THEN Ceiling(n) ELSE persist.offsetReserved
    <2>1. persist \in Memory(RecentFrame')
      BY <1>4, Before, MemoryMonotonic
    <2>2. \A m \in Nat : /\ [persist EXCEPT !.offsetReserved = m] \in Memory(RecentFrame')
                         /\ [persist EXCEPT !.offsetReserved = m].offsetReserved = m
      BY <2>1 DEF Memory
    <2> QED
      BY <1>3, <2>1, <2>2
  <1>7. rec \in R /\ block \in Seq(R)
    <2> DEFINE b == [op |-> "offset", offset |-> Ceiling(n), at |-> 0]
    <2>1. rec \in R /\ b \in R
      BY <1>3
    <2> HIDE DEF b, R, rec
    <2>2. <<b>> \in Seq(R) /\ <<>> \in Seq(R)
      BY <2>1, EmptySeq
    <2> QED
      BY <2>1, <2>2 DEF b
  <1>8. \A r \in R : r \in Record /\ r.at <= Len(past') /\ (r.op = "set" => r.entry.e <= ops')
    BY <1>2 DEF Record
  <1>9. /\ Append(ring, n) \in Seq(Nat) /\ Increasing(Append(ring, n))
        /\ \A i \in DOMAIN Append(ring, n) : Append(ring, n)[i] <= n
    <2> HIDE DEF n
    <2>1. /\ Append(ring, n) \in Seq(Nat) /\ Len(Append(ring, n)) = Len(ring) + 1
          /\ \A i \in 1 .. Len(ring) : Append(ring, n)[i] = ring[i]
          /\ Append(ring, n)[Len(ring) + 1] = n
      BY <1>3, AppendProperties
    <2>2. /\ Len(ring) \in Nat /\ DOMAIN ring = 1 .. Len(ring)
          /\ DOMAIN Append(ring, n) = 1 .. Len(ring) + 1
      BY <1>3, <2>1, LenProperties
    <2>3. \A i \in DOMAIN ring : ring[i] \in Nat /\ ring[i] < n
      BY <1>3
    <2>4. Increasing(Append(ring, n))
      BY <1>3, <2>1, <2>2, <2>3 DEF Increasing
    <2>5. \A i \in DOMAIN Append(ring, n) : Append(ring, n)[i] <= n
      BY <1>3, <2>1, <2>2, <2>3
    <2> QED
      BY <2>1, <2>4, <2>5
  <1>10. /\ ring' \in Seq(Nat) /\ Increasing(ring')
         /\ \A i \in DOMAIN ring' : ring'[i] <= n
    BY <1>1, <1>9, RetainFacts
  <1>11. minted' \in {minted, n} /\ minted <= minted' /\ n <= minted'
    <2> HIDE DEF n
    <2>1. {minted, n} \subseteq 0 .. minted + n /\ {minted, n} # {} /\ minted + n \in Nat
      BY <1>3
    <2> QED
      BY <1>1, <2>1, MaxFacts
  <1>12. nextOffset' \in Nat /\ acked' \subseteq Nat /\ minted' \in Nat
    BY <1>1, <1>3, <1>11
  <1> HIDE DEF R, rec
  <1>13. /\ TypeOK' /\ TtlsArePast' /\ QueueIsRecent' /\ Kept /\ (failed => failed')
         /\ persist'.offsetReserved = p.offsetReserved
         /\ ~failed' => \A i \in 1 .. Len(block) :
              /\ Len(log) + i \in 1 .. synced'
              /\ log'[Len(log) + i] = [rec |-> block[i], part |-> "whole"]
    <2> HIDE DEF block, p, n
    <2>1. Operation /\ Log(p, block, rec, sync) /\ Len(past) <= Len(past')
      BY <1>1, <1>2
    <2>2. ring' \in Seq(Nat) /\ p \in Memory(RecentFrame')
      BY <1>6, <1>10
    <2> QED
      BY <1>5, <1>7, <1>8, <1>12, <2>1, <2>2, OperationFacts
  <1>14. nextOffset' <= persist'.offsetReserved
    BY <1>1, <1>3, <1>6, <1>13
  <1>15. OffsetsReserved'
    BY <1>1, <1>2, <1>10, <1>14 DEF IInv, OffsetsReserved
  <1>16. ASSUME ~failed' PROVE minted' <= nextOffset' /\ Recorded(persist.offsetReserved)'
    <2>1. minted <= nextOffset /\ Recorded(persist.offsetReserved)
      BY <1>2, <1>13, <1>16 DEF IInv, ReservationRecorded
    <2>2. minted' = n
      BY <1>3, <1>11, <2>1
    <2>3. CASE new
      <3>1. block = <<[op |-> "offset", offset |-> Ceiling(n), at |-> 0]>>
        BY <2>3
      <3>2. 1 \in 1 .. Len(block) /\ block[1] = [op |-> "offset", offset |-> Ceiling(n), at |-> 0]
        BY <3>1
      <3> HIDE DEF block
      <3>3. /\ Len(log) + 1 \in 1 .. synced'
            /\ log'[Len(log) + 1] = [rec |-> block[1], part |-> "whole"]
        BY <1>13, <1>16, <3>2
      <3>4. persist'.offsetReserved = Ceiling(n)
        BY <1>6, <1>13, <2>3
      <3>5. /\ log'[Len(log) + 1].part = "whole" /\ log'[Len(log) + 1].rec.op = "offset"
            /\ persist'.offsetReserved = log'[Len(log) + 1].rec.offset
        BY <3>2, <3>3, <3>4
      <3>6. Recorded(persist.offsetReserved)'
        BY <1>3, <3>3, <3>4, <3>5 DEF Recorded
      <3> QED
        BY <1>1, <1>3, <2>2, <3>6
    <2>4. CASE ~new
      <3>1. synced \in Nat /\ synced' \in Nat
        BY <1>13, Before DEF TypeOK
      <3> QED
        BY <1>1, <1>2, <1>3, <1>6, <1>13, <2>1, <2>2, <2>4, <3>1, RecordedStays
    <2> QED
      BY <2>3, <2>4
  <1> QED
    BY <1>2, <1>10, <1>13, <1>15, <1>16 DEF IInv, RetainedOnce, ReservationRecorded, WritesWhileUp

-----------------------------------------------------------------------------
(* Compaction and close.                                                   *)

PastSnapshot == [entries : [Key -> PastEntry], pubs : Seq(Nat), offset : Nat]

LEMMA SnapshotFacts ==
    ASSUME ops \in Nat, NEW store \in [Key -> PastEntry], NEW pubs \in Seq(Nat), NEW n \in Nat
    PROVE  /\ Snapshot(store, pubs, n) \in PastSnapshot
           /\ Snapshot(store, pubs, n).pubs = pubs /\ Snapshot(store, pubs, n).offset = n
  <1>1. Absent \in PastEntry
    BY DEF Absent, PastEntry
  <1>2. [k \in Key |-> IF Live(store[k]) THEN store[k] ELSE Absent] \in [Key -> PastEntry]
    BY <1>1
  <1> QED
    BY <1>2 DEF Snapshot, PastSnapshot

\* A snapshot of a broker that is up holds the reservation.
LEMMA SnapshotTaken ==
    ASSUME IInv, phase # "down", snapshot' = Snapshot(value, ring, persist.offsetReserved)
    PROVE  /\ snapshot' \in PastSnapshot /\ Increasing(snapshot'.pubs)
           /\ \A i \in DOMAIN snapshot'.pubs : snapshot'.pubs[i] <= snapshot'.offset
           /\ snapshot'.offset = persist.offsetReserved
           /\ ~failed => minted <= snapshot'.offset
  <1>1. /\ value \in [Key -> PastEntry] /\ ring \in Seq(Nat) /\ ops \in Nat
        /\ nextOffset \in Nat /\ minted \in Nat /\ persist.offsetReserved \in Nat
    BY Before DEF IInv, TypeOK, TtlsArePast
  <1>2. /\ snapshot' \in PastSnapshot /\ snapshot'.pubs = ring
        /\ snapshot'.offset = persist.offsetReserved
    BY <1>1, SnapshotFacts
  <1>3. /\ nextOffset <= persist.offsetReserved /\ \A i \in DOMAIN ring : ring[i] <= nextOffset
        /\ Increasing(ring) /\ (~failed => minted <= nextOffset)
    BY DEF IInv, OffsetsReserved, RetainedOnce, ReservationRecorded
  <1>4. \A i \in DOMAIN ring : ring[i] \in Nat
    BY <1>1
  <1>5. \A i \in DOMAIN ring : ring[i] <= persist.offsetReserved
    BY <1>1, <1>3, <1>4
  <1>6. ~failed => minted <= persist.offsetReserved
    BY <1>1, <1>3
  <1> QED
    BY <1>2, <1>3, <1>5, <1>6

\* A step between operations keeps the types.
LEMMA SteadyTypes ==
    ASSUME IInv, UNCHANGED unchangedByWrites,
           phase' \in {"up", "closing", "down"}, persist' \in Memory(RecentFrame),
           phase' = "down" => persist'.writing = "no", snapshot' \in PastSnapshot,
           LogAgrees(PastFrame, Len(past), log', synced', landed', durable'),
           crashes' \in Nat, faults' \in Nat, planned' \in BOOLEAN, failed' \in BOOLEAN
    PROVE  TypeOK' /\ TtlsArePast' /\ QueueIsRecent' /\ WritesWhileUp'
  <1>1. /\ mode' = mode /\ value' = value /\ ring' = ring /\ nextOffset' = nextOffset
        /\ lapsed' = lapsed /\ ops' = ops /\ past' = past /\ acked' = acked /\ minted' = minted
    BY DEF unchangedByWrites
  <1>2. PastEntry' = PastEntry /\ PastFrame' = PastFrame /\ RecentFrame' = RecentFrame
    BY <1>1 DEF PastEntry, PastFrame, RecentFrame
  <1>3. snapshot'.entries \in [Key -> PastEntry] /\ snapshot'.pubs \in Seq(Nat)
        /\ snapshot'.offset \in Nat /\ snapshot' = [entries |-> snapshot'.entries,
                                                    pubs |-> snapshot'.pubs, offset |-> snapshot'.offset]
    BY DEF PastSnapshot
  <1>4. TtlsArePast' /\ QueueIsRecent'
    BY <1>1, <1>2, <1>3 DEF IInv, TtlsArePast, QueueIsRecent, LogAgrees
  <1>5. /\ value' \in [Key -> Entry] /\ snapshot'.entries \in [Key -> Entry]
        /\ past' \in Seq([Key -> Entry]) /\ log' \in Seq(Frame) /\ persist' \in Memory(Frame)
    BY <1>1, <1>4, Before, BoundedTypes
  <1>6. snapshot' \in [entries : [Key -> Entry], pubs : Seq(Nat), offset : Nat]
    BY <1>3, <1>5
  <1>7. synced' \in 0 .. Len(log') /\ landed' \in DOMAIN past' /\ durable' \in 1 .. landed'
    BY <1>1, Before DEF LogAgrees
  <1>8. /\ mode' \in Modes /\ ring' \in Seq(Nat) /\ nextOffset' \in Nat /\ lapsed' \subseteq 1 .. ops'
        /\ ops' \in Nat /\ acked' \subseteq Nat /\ minted' \in Nat
    BY <1>1 DEF IInv, TypeOK
  <1> QED
    BY <1>4, <1>5, <1>6, <1>7, <1>8 DEF TypeOK, WritesWhileUp

LEMMA SameSnapshot ==
    ASSUME IInv, snapshot' = snapshot
    PROVE  /\ snapshot' \in PastSnapshot /\ Increasing(snapshot'.pubs)
           /\ \A i \in DOMAIN snapshot'.pubs : snapshot'.pubs[i] <= snapshot'.offset
  BY DEF IInv, TypeOK, TtlsArePast, OffsetsReserved, PastSnapshot

\* What the parts about offsets ask of a step between operations.
LEMMA SteadyOffsets ==
    ASSUME IInv, UNCHANGED unchangedByWrites, Increasing(snapshot'.pubs),
           \A i \in DOMAIN snapshot'.pubs : snapshot'.pubs[i] <= snapshot'.offset,
           phase' # "down" => phase # "down" /\ persist'.offsetReserved = persist.offsetReserved,
           failed => failed',
           ~failed' => IF phase' = "down" THEN Recorded(minted)' ELSE Recorded(persist.offsetReserved)'
    PROVE  RetainedOnce' /\ OffsetsReserved' /\ ReservationRecorded'
  <1>1. ring' = ring /\ nextOffset' = nextOffset /\ minted' = minted
    BY DEF unchangedByWrites
  <1>2. RetainedOnce'
    BY <1>1 DEF IInv, RetainedOnce, Increasing
  <1>3. OffsetsReserved'
    BY <1>1 DEF IInv, OffsetsReserved
  <1>4. ReservationRecorded'
    BY <1>1 DEF IInv, ReservationRecorded
  <1> QED
    BY <1>2, <1>3, <1>4

LEMMA DiesFacts ==
    ASSUME IInv, Dies
    PROVE  /\ crashes' \in Nat /\ phase' = "down" /\ planned' \in BOOLEAN
           /\ persist' \in Memory(RecentFrame) /\ persist'.writing = "no"
  <1>1. /\ crashes \in Nat /\ NoPersist(0) \in Memory(RecentFrame) /\ NoPersist(0).writing = "no"
    BY Before, NoPersistFacts
  <1>2. planned' = FALSE /\ phase' = "down" /\ crashes' = crashes + 1 /\ persist' = NoPersist(0)
    BY DEF Dies
  <1>3. planned' \in BOOLEAN
    BY <1>2, Zenon
  <1> QED
    BY <1>1, <1>2, <1>3

\* Compaction with the Persistence object as p.
LEMMA CompactStep ==
    ASSUME IInv, phase = "up", NEW p \in Memory(RecentFrame), Compact(p),
           p.offsetReserved = persist.offsetReserved,
           UNCHANGED unchangedByWrites, failed' = failed
    PROVE  IInv'
  <1>1. /\ failed' \in BOOLEAN /\ LogAgrees(PastFrame, Len(past), log, synced, landed, durable)
        /\ crashes \in Nat /\ faults \in Nat /\ planned \in BOOLEAN /\ persist.offsetReserved \in Nat
        /\ minted' = minted /\ synced \in Nat /\ Len(past) \in Nat
    BY Before DEF IInv, TypeOK, unchangedByWrites
  <1> DEFINE new == Snapshot(value, ring, p.offsetReserved)
  <1>2. CASE /\ snapshot' = new /\ Truncated
             /\ persist' = [p EXCEPT !.opsSinceSnapshot = 0]
             /\ UNCHANGED <<phase, crashes, faults, planned>>
    <2>1. /\ snapshot' \in PastSnapshot /\ Increasing(snapshot'.pubs)
          /\ \A i \in DOMAIN snapshot'.pubs : snapshot'.pubs[i] <= snapshot'.offset
          /\ snapshot'.offset = persist.offsetReserved
      BY <1>2, SnapshotTaken
    <2>2. /\ persist' \in Memory(RecentFrame) /\ persist'.offsetReserved = persist.offsetReserved
      BY <1>2 DEF Memory
    <2>3. LogAgrees(PastFrame, Len(past), log', synced', landed', durable')
      BY <1>1, <1>2, EmptySeq DEF Truncated, LogAgrees
    <2>4. Recorded(persist.offsetReserved)'
      BY <1>1, <2>1, <2>2 DEF Recorded
    <2>5. TypeOK' /\ TtlsArePast' /\ QueueIsRecent' /\ WritesWhileUp'
      BY <1>1, <1>2, <2>1, <2>2, <2>3, SteadyTypes
    <2>6. RetainedOnce' /\ OffsetsReserved' /\ ReservationRecorded'
      BY <1>2, <2>1, <2>2, <2>4, SteadyOffsets
    <2> QED
      BY <2>5, <2>6 DEF IInv
  <1>3. CASE /\ Fault("snapshot")
             /\ persist' = p
             /\ UNCHANGED <<phase, crashes, planned, disk, landed, durable>>
    <2>1. /\ snapshot' = snapshot /\ log' = log /\ synced' = synced /\ landed' = landed
          /\ durable' = durable /\ phase' = phase /\ crashes' = crashes /\ planned' = planned
          /\ faults' \in Nat
      BY <1>1, <1>3 DEF disk, Fault
    <2>2. Kept /\ LogAgrees(PastFrame, Len(past), log', synced', landed', durable')
      BY <1>1, <2>1 DEF Kept
    <2>3. ~failed => Recorded(persist.offsetReserved)'
      BY <1>1, <1>3, <2>1, <2>2, RecordedStays DEF IInv, ReservationRecorded
    <2>4. TypeOK' /\ TtlsArePast' /\ QueueIsRecent' /\ WritesWhileUp'
      BY <1>1, <1>3, <2>1, <2>2, SameSnapshot, SteadyTypes
    <2>5. RetainedOnce' /\ OffsetsReserved' /\ ReservationRecorded'
      BY <1>3, <2>1, <2>3, SameSnapshot, SteadyOffsets
    <2> QED
      BY <2>4, <2>5 DEF IInv
  <1>4. CASE /\ HalfCompacted(new)
             /\ Dies
             /\ UNCHANGED <<landed, durable, faults>>
    <2>1. /\ snapshot' \in PastSnapshot /\ Increasing(snapshot'.pubs)
          /\ \A i \in DOMAIN snapshot'.pubs : snapshot'.pubs[i] <= snapshot'.offset
          /\ ~failed => minted <= snapshot'.offset
      BY <1>4, SnapshotTaken DEF HalfCompacted
    <2>2. LogAgrees(PastFrame, Len(past), log', synced', landed', durable')
      BY <1>1, <1>4 DEF HalfCompacted
    <2>3. ~failed => Recorded(minted)'
      BY <1>1, <2>1 DEF Recorded
    <2>4. TypeOK' /\ TtlsArePast' /\ QueueIsRecent' /\ WritesWhileUp'
      BY <1>1, <1>4, <2>1, <2>2, DiesFacts, SteadyTypes
    <2>5. RetainedOnce' /\ OffsetsReserved' /\ ReservationRecorded'
      BY <1>4, <2>1, <2>3, DiesFacts, SteadyOffsets
    <2> QED
      BY <2>4, <2>5 DEF IInv
  <1> QED
    BY <1>2, <1>3, <1>4 DEF Compact

\* A step that changes the memory of the broker only.
LEMMA QuietStep ==
    ASSUME IInv, phase # "down", phase' \in {"up", "closing"},
           persist' \in Memory(RecentFrame), persist'.offsetReserved = persist.offsetReserved,
           UNCHANGED unchangedByWrites, failed' = failed,
           UNCHANGED <<disk, crashes, faults, landed, durable, planned>>
    PROVE  IInv'
  <1>1. /\ failed' \in BOOLEAN /\ LogAgrees(PastFrame, Len(past), log, synced, landed, durable)
        /\ crashes \in Nat /\ faults \in Nat /\ planned \in BOOLEAN /\ synced \in Nat
    BY Before DEF IInv, TypeOK
  <1>2. /\ snapshot' = snapshot /\ log' = log /\ synced' = synced /\ landed' = landed
        /\ durable' = durable /\ crashes' = crashes /\ planned' = planned /\ faults' = faults
    BY DEF disk
  <1>3. Kept /\ LogAgrees(PastFrame, Len(past), log', synced', landed', durable')
    BY <1>1, <1>2 DEF Kept
  <1>4. ~failed => Recorded(persist.offsetReserved)'
    BY <1>1, <1>2, <1>3, RecordedStays DEF IInv, ReservationRecorded
  <1>5. TypeOK' /\ TtlsArePast' /\ QueueIsRecent' /\ WritesWhileUp'
    BY <1>1, <1>2, <1>3, SameSnapshot, SteadyTypes
  <1>6. RetainedOnce' /\ OffsetsReserved' /\ ReservationRecorded'
    BY <1>2, <1>4, SameSnapshot, SteadyOffsets
  <1> QED
    BY <1>5, <1>6 DEF IInv

LEMMA RunCompactStep ==
    ASSUME IInv, RunCompact
    PROVE  IInv'
  <1> DEFINE p == [persist EXCEPT !.compactScheduled = FALSE]
  <1>1. /\ phase = "up" /\ UNCHANGED unchangedByWrites /\ failed' = failed
        /\ persist \in Memory(RecentFrame)
    BY Before DEF RunCompact
  <1>2. p \in Memory(RecentFrame) /\ p.offsetReserved = persist.offsetReserved
    BY <1>1 DEF Memory
  <1>3. CASE persist.writing # "no"
    <2>1. /\ persist' = [p EXCEPT !.compactAfterWrite = TRUE]
          /\ UNCHANGED <<phase, disk, crashes, faults, landed, durable, planned>>
      BY <1>3 DEF RunCompact
    <2>2. persist' \in Memory(RecentFrame) /\ persist'.offsetReserved = persist.offsetReserved
      BY <1>2, <2>1 DEF Memory
    <2> QED
      BY <1>1, <2>1, <2>2, QuietStep
  <1>4. CASE persist.writing = "no"
    <2>1. Compact(p)
      BY <1>4 DEF RunCompact
    <2> HIDE DEF p
    <2> QED
      BY <1>1, <1>2, <2>1, CompactStep
  <1> QED
    BY <1>3, <1>4

\* The end of flushAndClose, with the Persistence object as p.
LEMMA FinishCloseStep ==
    ASSUME IInv, phase # "down", NEW p \in Memory(RecentFrame), FinishClose(p),
           p.offsetReserved = persist.offsetReserved,
           UNCHANGED unchangedByWrites, failed' = failed
    PROVE  IInv'
  <1>1. /\ failed' \in BOOLEAN /\ LogAgrees(PastFrame, Len(past), log, synced, landed, durable)
        /\ crashes \in Nat /\ faults \in Nat /\ planned \in BOOLEAN /\ persist.offsetReserved \in Nat
        /\ minted' = minted /\ synced \in Nat /\ Len(past) \in Nat
        /\ synced' = Len(log') /\ landed' = landed /\ durable' = durable /\ phase' = "down"
    BY Before DEF IInv, TypeOK, unchangedByWrites, FinishClose, Dies
  <1>2. log \in Seq(PastFrame) /\ p.queue \in Seq(PastFrame) /\ p.batch \in Seq(PastFrame)
    <2>1. RecentFrame \subseteq PastFrame
      BY DEF RecentFrame
    <2> QED
      BY <1>1, <2>1, SeqMonotonic DEF LogAgrees, Memory
  <1>3. persist' \in Memory(RecentFrame) /\ persist'.writing = "no"
    <2>1. persist' = NoPersist(0)
      BY DEF FinishClose, Dies
    <2> QED
      BY <2>1, NoPersistFacts
  <1>4. ASSUME log' \in Seq(PastFrame)
        PROVE  LogAgrees(PastFrame, Len(past), log', synced', landed', durable')
    <2>1. Len(log') \in Nat
      BY <1>4, LenProperties
    <2> QED
      BY <1>1, <1>4, <2>1 DEF LogAgrees
  <1>5. ASSUME snapshot' = Snapshot(value, ring, p.offsetReserved), log' \in Seq(PastFrame),
               crashes' \in Nat, faults' \in Nat, planned' \in BOOLEAN
        PROVE  IInv'
    <2>1. /\ snapshot' \in PastSnapshot /\ Increasing(snapshot'.pubs)
          /\ \A i \in DOMAIN snapshot'.pubs : snapshot'.pubs[i] <= snapshot'.offset
          /\ ~failed => minted <= snapshot'.offset
      BY <1>5, SnapshotTaken
    <2>2. ~failed => Recorded(minted)'
      BY <1>1, <2>1 DEF Recorded
    <2>3. TypeOK' /\ TtlsArePast' /\ QueueIsRecent' /\ WritesWhileUp'
      BY <1>1, <1>3, <1>4, <1>5, <2>1, SteadyTypes
    <2>4. RetainedOnce' /\ OffsetsReserved' /\ ReservationRecorded'
      BY <1>1, <2>1, <2>2, SteadyOffsets
    <2> QED
      BY <2>3, <2>4 DEF IInv
  <1>6. CASE /\ snapshot' = Snapshot(value, ring, p.offsetReserved)
             /\ log' \in Leftover(p)
             /\ planned' = TRUE
             /\ UNCHANGED <<faults, crashes>>
    <2>1. log' \in Seq(PastFrame)
      BY <1>2, <1>6, EmptySeq DEF Leftover
    <2> QED
      BY <1>1, <1>5, <1>6, <2>1
  <1>7. CASE /\ Fault("snapshot")
             /\ log' \in {log \o p.queue, log \o p.queue \o p.batch}
             /\ UNCHANGED <<snapshot, planned, crashes>>
    <2>1. /\ log' \in Seq(PastFrame) /\ Len(log') \in Nat /\ Len(log) \in Nat /\ Len(log) <= Len(log')
          /\ \A i \in 1 .. Len(log) : log'[i] = log[i]
      <3>1. /\ log \o p.queue \in Seq(PastFrame) /\ Len(log) \in Nat
            /\ Len(log \o p.queue) \in Nat /\ Len(log) <= Len(log \o p.queue)
            /\ \A i \in 1 .. Len(log) : (log \o p.queue)[i] = log[i]
        BY <1>2, ConcatFacts
      <3> DEFINE q == log \o p.queue
                 b == p.batch
      <3>2. q \in Seq(PastFrame) /\ b \in Seq(PastFrame)
        BY <1>2, <3>1
      <3>3. log' = q \/ log' = q \o b
        BY <1>7
      <3>4. /\ Len(log) \in Nat /\ Len(q) \in Nat /\ Len(log) <= Len(q)
            /\ \A i \in 1 .. Len(log) : q[i] = log[i]
        BY <3>1
      <3> HIDE DEF q, b
      <3>5. /\ q \o b \in Seq(PastFrame) /\ Len(q \o b) \in Nat /\ Len(q) <= Len(q \o b)
            /\ \A i \in 1 .. Len(q) : (q \o b)[i] = q[i]
        BY <3>2, ConcatFacts
      <3>6. \A i \in 1 .. Len(log) : (q \o b)[i] = log[i]
        BY <3>4, <3>5
      <3>7. CASE log' = q
        BY <3>2, <3>4, <3>7
      <3>8. CASE log' = q \o b
        <4>1. Len(log) <= Len(q \o b)
          BY <3>4, <3>5
        <4> QED
          BY <3>4, <3>5, <3>6, <3>8, <4>1
      <3> QED
        BY <3>3, <3>7, <3>8
    <2>2. synced <= Len(log)
      BY <1>1 DEF LogAgrees
    <2>3. Kept /\ synced' \in Nat
      BY <1>1, <2>1, <2>2 DEF Kept
    <2>4. ~failed => Recorded(minted)'
      BY <1>1, <1>7, <2>3, MintedRecorded, RecordedStays
    <2>5. TypeOK' /\ TtlsArePast' /\ QueueIsRecent' /\ WritesWhileUp'
      <3>1. faults' \in Nat /\ planned' \in BOOLEAN /\ crashes' \in Nat
        BY <1>1, <1>7 DEF Fault
      <3> QED
        BY <1>1, <1>3, <1>4, <1>7, <2>1, <3>1, SameSnapshot, SteadyTypes
    <2>6. RetainedOnce' /\ OffsetsReserved' /\ ReservationRecorded'
      BY <1>1, <1>7, <2>4, SameSnapshot, SteadyOffsets
    <2> QED
      BY <2>5, <2>6 DEF IInv
  <1>8. CASE /\ snapshot' = Snapshot(value, ring, p.offsetReserved)
             /\ Dies
             /\ UNCHANGED <<log, faults>>
    BY <1>1, <1>2, <1>5, <1>8, DiesFacts
  <1> QED
    BY <1>6, <1>7, <1>8 DEF FinishClose

-----------------------------------------------------------------------------
(* Asynchronous writes, fsync and close.                                   *)

LEMMA LogExtended ==
    ASSUME NEW S, log \in Seq(S), synced \in 0 .. Len(log), NEW frames \in Seq(S),
           log' = log \o frames, synced' = synced
    PROVE  /\ log' \in Seq(S) /\ synced' \in 0 .. Len(log') /\ Kept
           /\ Len(log') \in Nat
  <1>1. /\ log \o frames \in Seq(S) /\ Len(log \o frames) = Len(log) + Len(frames)
        /\ Len(log) \in Nat /\ Len(frames) \in Nat
        /\ \A i \in 1 .. Len(log) : (log \o frames)[i] = log[i]
    BY ConcatFacts
  <1> QED
    BY <1>1 DEF Kept

LEMMA RecentFrames ==
    ASSUME IInv
    PROVE  /\ persist.batch \in Seq(RecentFrame) /\ persist.queue \in Seq(RecentFrame)
           /\ persist.batch \in Seq(PastFrame)
           /\ \A i \in DOMAIN persist.batch :
                /\ persist.batch[i].rec.at \in 0 .. Len(past) /\ persist.batch[i] \in RecentFrame
           /\ \A f \in RecentFrame : /\ [f EXCEPT !.part = "head"] \in RecentFrame
                                     /\ [f EXCEPT !.part = "rest"] \in RecentFrame
  <1>1. persist.batch \in Seq(RecentFrame) /\ persist.queue \in Seq(RecentFrame)
    BY DEF IInv, QueueIsRecent, Memory
  <1>2. \A f \in RecentFrame : f \in PastFrame /\ f \in Frame /\ f.rec.at <= Len(past)
    BY DEF RecentFrame, PastFrame
  <1>3. persist.batch \in Seq(PastFrame)
    BY <1>1, <1>2, SeqMonotonic
  <1>4. \A i \in DOMAIN persist.batch : persist.batch[i] \in RecentFrame
    BY <1>1, LenProperties
  <1>5. \A f \in RecentFrame : f.rec.at \in 0 .. Len(past)
    <2>1. \A f \in Frame : f.rec.at \in Nat
      BY FrameFacts, RecordFacts
    <2>2. Len(past) \in Nat
      BY Before
    <2> QED
      BY <1>2, <2>1, <2>2
  <1> QED
    BY <1>1, <1>2, <1>3, <1>4, <1>5, FrameFacts

LEMMA WriteLandsStep ==
    ASSUME IInv, WriteLands
    PROVE  IInv'
  <1> DEFINE b == persist.batch
  <1>1. /\ UNCHANGED unchangedByWrites /\ phase' = phase /\ snapshot' = snapshot /\ synced' = synced
        /\ durable' = durable /\ crashes' = crashes /\ planned' = planned
    BY DEF WriteLands
  <1>2. /\ LogAgrees(PastFrame, Len(past), log, synced, landed, durable)
        /\ crashes \in Nat /\ faults \in Nat /\ planned \in BOOLEAN /\ failed \in BOOLEAN
        /\ Len(past) \in Nat /\ synced \in Nat /\ persist \in Memory(RecentFrame)
        /\ phase \in {"up", "closing", "down"}
    BY Before DEF IInv, TypeOK
  <1>3. phase # "down"
    BY DEF WriteLands, IInv, WritesWhileUp
  <1>4. ASSUME NEW w \in {"done", "error"}, NEW r \in Seq(RecentFrame),
               persist' = [persist EXCEPT !.writing = w, !.batch = r]
        PROVE  persist' \in Memory(RecentFrame) /\ persist'.offsetReserved = persist.offsetReserved
    BY <1>2, <1>4 DEF Memory
  <1>5. ASSUME LogAgrees(PastFrame, Len(past), log', synced', landed', durable'), Kept,
               persist' \in Memory(RecentFrame), persist'.offsetReserved = persist.offsetReserved,
               faults' \in Nat, failed' = failed \/ failed' = TRUE
        PROVE  IInv'
    <2>1. failed' \in BOOLEAN /\ (failed => failed')
      <3>1. failed \in BOOLEAN /\ (failed' = failed \/ failed' = TRUE)
        BY <1>2, <1>5
      <3> QED
        BY <3>1, Zenon
    <2>2. ~failed' => Recorded(persist.offsetReserved)'
      BY <1>1, <1>2, <1>3, <1>5, <2>1, RecordedStays DEF IInv, ReservationRecorded
    <2>3. TypeOK' /\ TtlsArePast' /\ QueueIsRecent' /\ WritesWhileUp'
      BY <1>1, <1>2, <1>3, <1>5, <2>1, SameSnapshot, SteadyTypes
    <2>4. RetainedOnce' /\ OffsetsReserved' /\ ReservationRecorded'
      BY <1>1, <1>3, <1>5, <2>1, <2>2, SameSnapshot, SteadyOffsets
    <2> QED
      BY <2>3, <2>4 DEF IInv
  <1>6. CASE /\ Written(b)
             /\ persist' = [persist EXCEPT !.writing = "done", !.batch = <<>>]
             /\ UNCHANGED <<faults, failed>>
    <2>1. landed' \in landed .. Len(past) /\ log' = log \o b
      BY <1>2, <1>6, RecentFrames, WrittenFacts DEF Written
    <2>2. log' \in Seq(PastFrame) /\ synced' \in 0 .. Len(log') /\ Kept
      <3>1. log \in Seq(PastFrame) /\ synced \in 0 .. Len(log) /\ b \in Seq(PastFrame)
        BY <1>2, RecentFrames DEF LogAgrees
      <3> QED
        BY <1>1, <2>1, <3>1, LogExtended
    <2>3. LogAgrees(PastFrame, Len(past), log', synced', landed', durable')
      BY <1>1, <1>2, <2>1, <2>2 DEF LogAgrees
    <2> QED
      BY <1>2, <1>4, <1>5, <1>6, <2>2, <2>3, EmptySeq
  <1>7. CASE \E i \in {j \in DOMAIN b : b[j].part = "whole"} :
               LET t == Tear(b, i)
               IN  /\ Fault("short")
                   /\ log' = log \o t.head
                   /\ persist' = [persist EXCEPT !.writing = "done", !.batch = t.rest]
                   /\ UNCHANGED <<landed, failed>>
    <2>1. PICK i \in DOMAIN b :
            /\ Fault("short")
            /\ log' = log \o Tear(b, i).head
            /\ persist' = [persist EXCEPT !.writing = "done", !.batch = Tear(b, i).rest]
            /\ UNCHANGED <<landed, failed>>
      BY <1>7
    <2>2. Tear(b, i).head \in Seq(RecentFrame) /\ Tear(b, i).rest \in Seq(RecentFrame)
      BY RecentFrames, TearFacts
    <2>3. Tear(b, i).head \in Seq(PastFrame)
      <3>1. RecentFrame \subseteq PastFrame
        BY DEF RecentFrame
      <3> QED
        BY <2>2, <3>1, SeqMonotonic
    <2>4. log' \in Seq(PastFrame) /\ synced' \in 0 .. Len(log') /\ Kept
      <3>1. log \in Seq(PastFrame) /\ synced \in 0 .. Len(log)
        BY <1>2 DEF LogAgrees
      <3> QED
        BY <1>1, <2>1, <2>3, <3>1, LogExtended
    <2>5. LogAgrees(PastFrame, Len(past), log', synced', landed', durable')
      BY <1>1, <1>2, <2>1, <2>4 DEF LogAgrees
    <2>6. faults' \in Nat
      BY <1>2, <2>1 DEF Fault
    <2> QED
      BY <1>4, <1>5, <2>1, <2>2, <2>4, <2>5, <2>6
  <1>8. CASE /\ Fault("write") /\ failed' = TRUE
             /\ persist' = [persist EXCEPT !.writing = "error", !.batch = <<>>]
             /\ UNCHANGED <<log, landed>>
    <2>1. LogAgrees(PastFrame, Len(past), log', synced', landed', durable') /\ Kept
      BY <1>1, <1>2, <1>8 DEF Kept
    <2>2. faults' \in Nat
      BY <1>2, <1>8 DEF Fault
    <2> QED
      BY <1>4, <1>5, <1>8, <2>1, <2>2, EmptySeq
  <1> QED
    BY <1>6, <1>7, <1>8 DEF WriteLands

LEMMA WriteReturnsStep ==
    ASSUME IInv, WriteReturns
    PROVE  IInv'
  <1> DEFINE p == [persist EXCEPT !.writing = "no", !.batch = <<>>,
                                  !.queue = persist.batch \o @, !.compactAfterWrite = FALSE]
             q == IF persist.writing = "done" THEN Drained(p) ELSE p
  <1>1. UNCHANGED unchangedByWrites /\ failed' = failed
    BY DEF WriteReturns
  <1>2. phase # "down"
    BY DEF WriteReturns
  <1>3. q \in Memory(RecentFrame) /\ q.offsetReserved = persist.offsetReserved
    <2>1. persist.batch \o persist.queue \in Seq(RecentFrame) /\ <<>> \in Seq(RecentFrame)
      BY RecentFrames, ConcatProperties, EmptySeq
    <2>2. p \in Memory(RecentFrame) /\ p.offsetReserved = persist.offsetReserved
      BY <2>1, Before DEF Memory
    <2> HIDE DEF p
    <2> QED
      BY <2>2, DrainedFacts
  <1>4. \/ phase = "closing" /\ FinishClose(q)
        \/ phase = "up" /\ Compact(q)
        \/ /\ phase = "up" /\ persist' = q
           /\ UNCHANGED <<phase, disk, crashes, faults, landed, durable, planned>>
    BY DEF WriteReturns
  <1> HIDE DEF p, q
  <1>5. CASE phase = "closing" /\ FinishClose(q)
    BY <1>1, <1>2, <1>3, <1>5, FinishCloseStep
  <1>6. CASE phase = "up" /\ Compact(q)
    BY <1>1, <1>3, <1>6, CompactStep
  <1>7. CASE /\ phase = "up" /\ persist' = q
             /\ UNCHANGED <<phase, disk, crashes, faults, landed, durable, planned>>
    BY <1>1, <1>3, <1>7, QuietStep
  <1> QED
    BY <1>4, <1>5, <1>6, <1>7

LEMMA CloseStep ==
    ASSUME IInv, Close
    PROVE  IInv'
  <1>1. phase = "up" /\ UNCHANGED unchangedByWrites /\ failed' = failed
    BY DEF Close
  <1>2. persist \in Memory(RecentFrame)
    BY Before
  <1>3. CASE persist.writing = "no"
    BY <1>1, <1>2, <1>3, FinishCloseStep DEF Close
  <1>4. CASE persist.writing # "no"
    BY <1>1, <1>2, <1>4, QuietStep DEF Close
  <1> QED
    BY <1>3, <1>4

LEMMA FsyncStep ==
    ASSUME IInv, Fsync
    PROVE  IInv'
  <1>1. /\ phase = "up" /\ synced < Len(log) /\ synced' = Len(log) /\ durable' = landed
        /\ UNCHANGED unchangedByWrites /\ phase' = phase /\ persist' = persist
        /\ snapshot' = snapshot /\ log' = log /\ crashes' = crashes /\ faults' = faults
        /\ landed' = landed /\ planned' = planned /\ failed' = failed
    BY DEF Fsync
  <1>2. /\ LogAgrees(PastFrame, Len(past), log, synced, landed, durable)
        /\ crashes \in Nat /\ faults \in Nat /\ planned \in BOOLEAN /\ failed \in BOOLEAN
        /\ Len(past) \in Nat /\ synced \in Nat /\ Len(log) \in Nat /\ persist \in Memory(RecentFrame)
    BY Before DEF IInv, TypeOK
  <1>3. Kept /\ LogAgrees(PastFrame, Len(past), log', synced', landed', durable')
    BY <1>1, <1>2 DEF Kept, LogAgrees
  <1>4. ~failed => Recorded(persist.offsetReserved)'
    BY <1>1, <1>2, <1>3, RecordedStays DEF IInv, ReservationRecorded
  <1>5. TypeOK' /\ TtlsArePast' /\ QueueIsRecent' /\ WritesWhileUp'
    BY <1>1, <1>2, <1>3, SameSnapshot, SteadyTypes
  <1>6. RetainedOnce' /\ OffsetsReserved' /\ ReservationRecorded'
    BY <1>1, <1>4, SameSnapshot, SteadyOffsets
  <1> QED
    BY <1>5, <1>6 DEF IInv

LEMMA LapseStep ==
    ASSUME IInv, Lapse
    PROVE  IInv'
  <1>1. /\ phase' = phase /\ mode' = mode /\ value' = value /\ ring' = ring /\ nextOffset' = nextOffset
        /\ persist' = persist /\ snapshot' = snapshot /\ log' = log /\ synced' = synced /\ ops' = ops
        /\ crashes' = crashes /\ faults' = faults /\ past' = past /\ landed' = landed
        /\ durable' = durable /\ acked' = acked /\ minted' = minted /\ planned' = planned
        /\ failed' = failed
    BY DEF Lapse, disk, ghost
  <1>2. PICK i \in DOMAIN past, k \in Key :
          past[i][k].e \notin lapsed \cup {0} /\ lapsed' = lapsed \cup {past[i][k].e}
    BY DEF Lapse
  <1>3. past[i][k].e \in 0 .. ops /\ ops \in Nat /\ lapsed \subseteq 1 .. ops
    <2>1. past[i] \in [Key -> PastEntry]
      BY LenProperties DEF IInv, TtlsArePast
    <2> QED
      BY <2>1 DEF PastEntry, IInv, TypeOK
  <1>4. lapsed' \subseteq 1 .. ops
    <2>1. past[i][k].e \in 1 .. ops
      BY <1>2, <1>3
    <2> QED
      BY <1>2, <1>3, <2>1
  <1>5. TypeOK'
    BY <1>1, <1>4 DEF IInv, TypeOK
  <1>6. TtlsArePast' /\ QueueIsRecent' /\ WritesWhileUp'
    <2>1. PastEntry' = PastEntry /\ PastFrame' = PastFrame /\ RecentFrame' = RecentFrame
      BY <1>1 DEF PastEntry, PastFrame, RecentFrame
    <2> QED
      BY <1>1, <2>1 DEF IInv, TtlsArePast, QueueIsRecent, WritesWhileUp
  <1>7. RetainedOnce' /\ OffsetsReserved'
    BY <1>1 DEF IInv, RetainedOnce, OffsetsReserved, Increasing
  <1>8. ReservationRecorded'
    BY <1>1 DEF IInv, ReservationRecorded, Recorded
  <1> QED
    BY <1>5, <1>6, <1>7, <1>8 DEF IInv

-----------------------------------------------------------------------------
(* The end of the process.                                                 *)

\* The process dies, and leaves the log as it is but for what was not synced.
LEMMA DeathStep ==
    ASSUME IInv, Dies, UNCHANGED unchangedByWrites, snapshot' = snapshot, synced' = synced,
           log' \in Seq(PastFrame), synced <= Len(log'), Kept, faults' = faults, failed' = failed,
           landed' \in {landed, durable}, durable' = durable
    PROVE  IInv'
  <1>1. /\ LogAgrees(PastFrame, Len(past), log, synced, landed, durable)
        /\ faults \in Nat /\ failed \in BOOLEAN /\ Len(past) \in Nat /\ synced \in Nat
        /\ minted' = minted
    BY Before DEF IInv, TypeOK, unchangedByWrites
  <1>2. LogAgrees(PastFrame, Len(past), log', synced', landed', durable')
    <2>1. Len(log') \in Nat
      BY LenProperties
    <2> QED
      BY <1>1, <2>1 DEF LogAgrees
  <1>3. ~failed => Recorded(minted)'
    BY <1>1, MintedRecorded, RecordedStays
  <1>4. TypeOK' /\ TtlsArePast' /\ QueueIsRecent' /\ WritesWhileUp'
    BY <1>1, <1>2, DiesFacts, SameSnapshot, SteadyTypes
  <1>5. RetainedOnce' /\ OffsetsReserved' /\ ReservationRecorded'
    BY <1>3, DiesFacts, SameSnapshot, SteadyOffsets
  <1> QED
    BY <1>4, <1>5 DEF IInv

LEMMA KillStep ==
    ASSUME IInv, Kill
    PROVE  IInv'
  <1> DEFINE b == IF persist.writing = "issued" THEN persist.batch ELSE <<>>
  <1>1. /\ Dies /\ UNCHANGED unchangedByWrites /\ snapshot' = snapshot /\ synced' = synced
        /\ faults' = faults /\ landed' = landed /\ durable' = durable /\ failed' = failed
    BY DEF Kill
  <1>2. PICK n \in 0 .. Len(b) : log' = log \o SubSeq(b, 1, n)
    BY DEF Kill, Prefixes
  <1>3. b \in Seq(PastFrame)
    BY RecentFrames, EmptySeq
  <1> HIDE DEF b
  <1>4. SubSeq(b, 1, n) \in Seq(PastFrame)
    BY <1>3, PrefixFacts
  <1>5. log' \in Seq(PastFrame) /\ synced' \in 0 .. Len(log') /\ Kept /\ Len(log') \in Nat
    <2>1. log \in Seq(PastFrame) /\ synced \in 0 .. Len(log)
      BY Before DEF LogAgrees
    <2> QED
      BY <1>1, <1>2, <1>4, <2>1, LogExtended
  <1>6. synced <= Len(log')
    BY <1>1, <1>5
  <1> QED
    BY <1>1, <1>5, <1>6, DeathStep

LEMMA PowerLossStep ==
    ASSUME IInv, PowerLoss
    PROVE  IInv'
  <1>1. /\ Dies /\ UNCHANGED unchangedByWrites /\ snapshot' = snapshot /\ synced' = synced
        /\ faults' = faults /\ landed' = durable /\ durable' = durable /\ failed' = failed
    BY DEF PowerLoss
  <1>2. PICK n \in synced .. Len(log) : log' = SubSeq(log, 1, n)
    BY DEF PowerLoss
  <1>3. log \in Seq(PastFrame) /\ synced \in 0 .. Len(log) /\ Len(log) \in Nat
    BY Before DEF LogAgrees
  <1>4. n \in 0 .. Len(log)
    BY <1>2, <1>3
  <1>5. /\ log' \in Seq(PastFrame) /\ Len(log') = n
        /\ \A i \in 1 .. n : log'[i] = log[i]
    BY <1>2, <1>3, <1>4, PrefixFacts
  <1>6. Kept /\ synced <= Len(log')
    BY <1>1, <1>2, <1>3, <1>5 DEF Kept
  <1> QED
    BY <1>1, <1>5, <1>6, DeathStep

-----------------------------------------------------------------------------
(* Recovery.                                                               *)

\* The places of a set follow one another.
LEMMA NthFacts ==
    ASSUME NEW ps, ps \subseteq Nat, IsFiniteSet(ps)
    PROVE  /\ Cardinality(ps) \in Nat
           /\ \A n \in 1 .. Cardinality(ps) : Nth(ps, n) \in ps
           /\ \A m, n \in 1 .. Cardinality(ps) : m < n => Nth(ps, m) < Nth(ps, n)
           /\ \A i \in ps : \E n \in 1 .. Cardinality(ps) : Nth(ps, n) = i
  <1> DEFINE c == Cardinality(ps)
             UpTo(i) == {j \in ps : j <= i}
             rank == [i \in ps |-> Cardinality(UpTo(i))]
  <1>1. c \in Nat
    BY FS_CardinalityType
  <1>2. \A i \in ps : /\ IsFiniteSet(UpTo(i)) /\ Cardinality(UpTo(i)) \in Nat
                      /\ Cardinality(UpTo(i)) <= c
    BY FS_Subset, FS_CardinalityType
  <1>3. ASSUME NEW i \in ps, NEW j \in ps, i <= j
        PROVE  Cardinality(UpTo(i)) <= Cardinality(UpTo(j))
    <2>1. UpTo(i) \in SUBSET UpTo(j)
      <3>1. i \in Int /\ j \in Int /\ \A x \in ps : x \in Int
        OBVIOUS
      <3>2. \A x \in ps : x <= i => x <= j
        BY <1>3, <3>1
      <3> QED
        BY <3>2
    <2> HIDE DEF UpTo
    <2> QED
      BY <1>2, <2>1, FS_Subset
  <1>4. ASSUME NEW i \in ps, NEW j \in ps, i < j
        PROVE  Cardinality(UpTo(i)) # Cardinality(UpTo(j))
    <2>1. j \notin UpTo(i) /\ UpTo(i) \cup {j} \in SUBSET UpTo(j)
      <3>1. i \in Int /\ j \in Int /\ \A x \in ps : x \in Int
        OBVIOUS
      <3>2. ~(j <= i) /\ j <= j /\ \A x \in ps : x <= i => x <= j
        BY <1>4, <3>1
      <3> QED
        BY <3>2
    <2> HIDE DEF UpTo
    <2>2. Cardinality(UpTo(i) \cup {j}) = Cardinality(UpTo(i)) + 1
      BY <1>2, <2>1, FS_AddElement
    <2>3. Cardinality(UpTo(i) \cup {j}) <= Cardinality(UpTo(j))
      BY <1>2, <2>1, FS_Subset
    <2> QED
      BY <1>2, <2>2, <2>3
  <1>5. rank \in [ps -> 1 .. c]
    <2>1. \A i \in ps : Cardinality(UpTo(i)) \in 1 .. c
      <3> TAKE i \in ps
      <3>1. i \in UpTo(i)
        OBVIOUS
      <3> HIDE DEF UpTo
      <3>2. Cardinality(UpTo(i)) # 0
        BY <1>2, <3>1, FS_EmptySet
      <3> HIDE DEF c
      <3> QED
        BY <1>1, <1>2, <3>2
    <2> HIDE DEF UpTo, c
    <2> QED
      BY <2>1
  <1>6. \A i, j \in ps : rank[i] = rank[j] => i = j
    <2>1. \A i, j \in ps : i < j \/ j < i \/ i = j
      OBVIOUS
    <2> HIDE DEF UpTo
    <2> QED
      BY <1>4, <2>1
  <1>7. rank \in Injection(ps, 1 .. c)
    BY <1>5, <1>6, Zenon DEF Injection, IsInjective
  <1>8. IsFiniteSet(1 .. c) /\ Cardinality(1 .. c) = c
    <2>1. IsFiniteSet(1 .. c) /\ Cardinality(1 .. c) = IF 1 > c THEN 0 ELSE c - 1 + 1
      BY <1>1, FS_Interval
    <2> HIDE DEF c
    <2> QED
      BY <1>1, <2>1
  <1>9. rank \in Surjection(ps, 1 .. c)
    BY <1>7, <1>8, FS_Injection
  <1>10. ASSUME NEW n \in 1 .. c
         PROVE  Nth(ps, n) \in ps /\ Cardinality(UpTo(Nth(ps, n))) = n
    <2>1. PICK i \in ps : rank[i] = n
      BY <1>9, Zenon DEF Surjection
    <2>2. \E x \in ps : Cardinality({j \in ps : j <= x}) = n
      BY <2>1
    <2> QED
      BY <2>2, Zenon DEF Nth
  <1>11. ASSUME NEW m \in 1 .. c, NEW n \in 1 .. c, m < n
         PROVE  Nth(ps, m) < Nth(ps, n)
    <2>1. Nth(ps, m) \in Nat /\ Nth(ps, n) \in Nat
      BY <1>10
    <2>2. Nth(ps, n) <= Nth(ps, m) => n <= m
      BY <1>3, <1>10
    <2> HIDE DEF c
    <2> QED
      BY <1>1, <1>11, <2>1, <2>2
  <1>12. ASSUME NEW i \in ps
         PROVE  \E n \in 1 .. c : Nth(ps, n) = i
    <2> DEFINE n == Cardinality(UpTo(i))
    <2>1. n \in 1 .. c
      BY <1>5
    <2>2. Nth(ps, n) \in ps /\ Cardinality(UpTo(Nth(ps, n))) = n
      BY <1>10, <2>1
    <2>3. Nth(ps, n) = i
      BY <1>6, <2>2
    <2> QED
      BY <2>1, <2>3
  <1> QED
    BY <1>1, <1>10, <1>11, <1>12

\* Recovery reads what it knows, and, of a log that is whole, every whole frame.
LEMMA ReadableFacts ==
    ASSUME IInv
    PROVE  /\ Readable \subseteq 1 .. Len(log)
           /\ LogIsWhole => \A i \in 1 .. Len(log) : log[i].part = "whole" => i \in Readable
  <1> DEFINE T == {m \in 0 .. Len(log) : \A i \in 1 .. m : Decodes(i)}
  <1>1. Len(log) \in Nat
    BY Before
  <1>2. 0 \in T /\ T \subseteq 0 .. Len(log)
    BY <1>1
  <1>3. MaxOf(T) \in 0 .. Len(log) /\ \A m \in T : m <= MaxOf(T)
    <2> HIDE DEF T
    <2> QED
      BY <1>1, <1>2, MaxFacts
  <1>4. Readable = {i \in 1 .. MaxOf(T) : log[i].part # "head"}
    BY DEF Readable
  <1>5. ASSUME LogIsWhole, NEW i \in 1 .. Len(log), log[i].part = "whole"
        PROVE  i \in T
    <2>1. \A j \in 1 .. i : j = i \/ j \in 1 .. Len(log) - 1
      BY <1>1
    <2>2. \A j \in 1 .. i : Decodes(j)
      BY <1>5, <2>1 DEF LogIsWhole, Decodes
    <2> QED
      BY <1>1, <2>2
  <1> HIDE DEF T
  <1>6. Readable \subseteq 1 .. Len(log)
    BY <1>1, <1>3, <1>4
  <1>7. ASSUME LogIsWhole, NEW i \in 1 .. Len(log), log[i].part = "whole"
        PROVE  i \in Readable
    <2>1. i <= MaxOf(T)
      BY <1>3, <1>5, <1>7
    <2> QED
      BY <1>1, <1>3, <1>4, <1>7, <2>1
  <1> QED
    BY <1>6, <1>7

\* What it reads are frames.
LEMMA ReadFrames ==
    ASSUME IInv, NEW i \in Readable
    PROVE  /\ log[i] \in PastFrame /\ i \in 1 .. Len(log)
           /\ log[i].rec.op \in {"offset", "pub"} => log[i].rec.offset \in Nat
           /\ log[i].rec.op = "set" => log[i].rec.entry \in PastEntry
  <1>1. log \in Seq(PastFrame) /\ i \in 1 .. Len(log)
    BY ReadableFacts DEF IInv, TtlsArePast
  <1>2. log[i] \in PastFrame /\ log[i] \in Frame
    BY <1>1, LenProperties DEF PastFrame
  <1>3. log[i].rec.op = "set" => log[i].rec.entry \in Entry /\ log[i].rec.entry.e <= ops
    BY <1>2, FrameFacts DEF PastFrame
  <1>4. ops \in Nat
    BY Before
  <1>5. log[i].rec.op = "set" => log[i].rec.entry \in PastEntry
    BY <1>3, <1>4 DEF Entry, PastEntry
  <1> QED
    BY <1>1, <1>2, <1>5, FrameFacts, RecordFacts

LEMMA RecoveredStore ==
    ASSUME IInv
    PROVE  [k \in Key |-> RecoveredEntry(k)] \in [Key -> PastEntry]
  <1>1. ASSUME NEW k \in Key
        PROVE  RecoveredEntry(k) \in PastEntry
    <2> DEFINE writes == {i \in Readable : Affects(log[i].rec, k)}
               last   == log[MaxOf(writes)].rec
    <2>1. Absent \in PastEntry /\ snapshot.entries[k] \in PastEntry
      <3>1. ops \in Nat /\ snapshot.entries \in [Key -> PastEntry]
        BY Before DEF IInv, TtlsArePast
      <3>2. Absent \in PastEntry
        BY <3>1 DEF Absent, PastEntry
      <3> QED
        BY <3>1, <3>2
    <2>2. writes # {} => MaxOf(writes) \in Readable
      <3>1. Len(log) \in Nat /\ writes \subseteq 0 .. Len(log) /\ writes \subseteq Readable
        BY Before, ReadableFacts
      <3> HIDE DEF writes
      <3> QED
        BY <3>1, MaxFacts
    <2>3. writes # {} /\ last.op = "set" => last.entry \in PastEntry
      BY <2>2, ReadFrames
    <2>4. RecoveredEntry(k) = IF writes = {}
                              THEN IF Live(snapshot.entries[k]) THEN snapshot.entries[k] ELSE Absent
                              ELSE IF last.op = "set" THEN last.entry ELSE Absent
      BY DEF RecoveredEntry
    <2> HIDE DEF writes, last
    <2> QED
      BY <2>1, <2>3, <2>4
  <1> QED
    BY <1>1

\* No offset on record is beyond the one recovery goes on from.
LEMMA OffsetFacts ==
    ASSUME IInv
    PROVE  /\ RecoveredOffset \in Nat /\ snapshot.offset <= RecoveredOffset
           /\ \A i \in Readable :
                log[i].rec.op \in {"offset", "pub"} => log[i].rec.offset <= RecoveredOffset
  <1> DEFINE J == {j \in Readable : log[j].rec.op \in {"offset", "pub"}}
             I == {log[i].rec.offset : i \in J}
             f == [i \in J |-> log[i].rec.offset]
  <1>1. IsFiniteSet(J)
    <2>1. Len(log) \in Nat /\ J \in SUBSET (1 .. Len(log))
      BY Before, ReadableFacts
    <2>2. IsFiniteSet(1 .. Len(log))
      BY <2>1, FS_Interval
    <2> HIDE DEF J
    <2> QED
      BY <2>1, <2>2, FS_Subset
  <1>2. I \subseteq Nat
    BY ReadFrames
  <1>3. IsFiniteSet({snapshot.offset} \cup I)
    <2>1. f \in Surjection(J, I)
      <3> HIDE DEF J
      <3> QED
        BY Zenon DEF Surjection
    <2> HIDE DEF f, I, J
    <2>2. IsFiniteSet(I)
      BY <1>1, <2>1, FS_Surjection
    <2>3. IsFiniteSet(I \cup {snapshot.offset})
      BY <2>2, FS_AddElement
    <2>4. I \cup {snapshot.offset} = {snapshot.offset} \cup I
      OBVIOUS
    <2> QED
      BY <2>3, <2>4
  <1>4. RecoveredOffset = MaxOf({snapshot.offset} \cup I)
    BY DEF RecoveredOffset
  <1>5. \A i \in Readable : log[i].rec.op \in {"offset", "pub"} => log[i].rec.offset \in I
    OBVIOUS
  <1> HIDE DEF I
  <1>6. {snapshot.offset} \cup I \subseteq Nat /\ {snapshot.offset} \cup I # {}
    BY <1>2, Before
  <1> DEFINE T == {snapshot.offset} \cup I
  <1>7. snapshot.offset \in T /\ I \subseteq T /\ T \subseteq Nat /\ T # {} /\ IsFiniteSet(T)
        /\ RecoveredOffset = MaxOf(T)
    BY <1>3, <1>4, <1>6
  <1> HIDE DEF T
  <1>8. RecoveredOffset \in T /\ \A y \in T : y <= RecoveredOffset
    BY <1>7, FiniteMax
  <1> QED
    BY <1>5, <1>7, <1>8

\* What recovery retains, before retention limits it.
AllRecovered ==
    snapshot.pubs \o [n \in 1 .. Cardinality(Recovered) |-> log[Nth(Recovered, n)].rec.offset]

\* The messages recovery adds are newer than those of the snapshot, and each is newer
\* than those before it.
LEMMA AllRecoveredFacts ==
    ASSUME IInv
    PROVE  /\ AllRecovered \in Seq(Nat) /\ Increasing(AllRecovered)
           /\ \A i \in DOMAIN AllRecovered :
                /\ AllRecovered[i] <= RecoveredOffset
                /\ \/ AllRecovered[i] \in ToSet(snapshot.pubs)
                   \/ \E j \in Recovered : AllRecovered[i] = log[j].rec.offset
           /\ ToSet(snapshot.pubs) \subseteq ToSet(AllRecovered)
           /\ \A j \in Recovered : log[j].rec.offset \in ToSet(AllRecovered)
  <1> DEFINE c == Cardinality(Recovered)
             new == [n \in 1 .. c |-> log[Nth(Recovered, n)].rec.offset]
             pubs == snapshot.pubs
             all == pubs \o new
  <1>1. /\ c \in Nat /\ \A n \in 1 .. c : Nth(Recovered, n) \in Recovered
        /\ \A m, n \in 1 .. c : m < n => Nth(Recovered, m) < Nth(Recovered, n)
        /\ \A i \in Recovered : \E n \in 1 .. c : Nth(Recovered, n) = i
    <2>1. Len(log) \in Nat /\ Recovered \in SUBSET (1 .. Len(log))
      BY Before, ReadableFacts DEF Recovered
    <2>2. IsFiniteSet(Recovered) /\ Recovered \subseteq Nat
      <3>1. IsFiniteSet(1 .. Len(log))
        BY <2>1, FS_Interval
      <3>2. 1 .. Len(log) \subseteq Nat
        BY <2>1
      <3> QED
        BY <2>1, <3>1, <3>2, FS_Subset
    <2> QED
      BY <2>2, NthFacts
  <1>2. \A i \in Recovered : /\ i \in Readable /\ i \in Nat /\ log[i].rec.op = "pub" /\ ~Repeats(i)
                             /\ log[i].rec.offset \in Nat /\ log[i].rec.offset <= RecoveredOffset
    BY ReadFrames, ReadableFacts, OffsetFacts DEF Recovered
  <1>3. \A n \in 1 .. c : new[n] \in Nat /\ new[n] <= RecoveredOffset
    BY <1>1, <1>2
  <1>4. \A n \in 1 .. c : \A j \in DOMAIN pubs : ~(new[n] <= pubs[j])
    <2> TAKE n \in 1 .. c
    <2>1. ~Repeats(Nth(Recovered, n))
      BY <1>1, <1>2
    <2> QED
      BY <2>1 DEF Repeats
  <1>5. \A m, n \in 1 .. c : m < n => ~(new[n] <= new[m])
    <2> TAKE m, n \in 1 .. c
    <2> DEFINE i == Nth(Recovered, m)
               j == Nth(Recovered, n)
    <2> HAVE m < n
    <2>1. i \in Readable /\ log[i].rec.op = "pub" /\ i < j /\ ~Repeats(j)
      BY <1>1, <1>2
    <2>2. new[m] = log[i].rec.offset /\ new[n] = log[j].rec.offset
      OBVIOUS
    <2> HIDE DEF i, j, new
    <2> QED
      BY <2>1, <2>2 DEF Repeats
  <1>6. new \in Seq(Nat) /\ Len(new) = c
    <2> HIDE DEF c
    <2> QED
      BY <1>1, <1>3
  <1>7. /\ pubs \in Seq(Nat) /\ Increasing(pubs) /\ RecoveredOffset \in Nat
        /\ \A j \in DOMAIN pubs : pubs[j] <= snapshot.offset
        /\ snapshot.offset <= RecoveredOffset /\ snapshot.offset \in Nat
    BY Before, OffsetFacts DEF IInv, OffsetsReserved
  <1>8. Len(pubs) \in Nat /\ DOMAIN pubs = 1 .. Len(pubs) /\ \A j \in 1 .. Len(pubs) : pubs[j] \in Nat
    BY <1>7, LenProperties
  <1>9. /\ AllRecovered = all
        /\ \A n \in 1 .. c : \E i \in Recovered : new[n] = log[i].rec.offset
        /\ \A i \in Recovered : \E n \in 1 .. c : new[n] = log[i].rec.offset
    <2>1. \A n \in 1 .. c : new[n] = log[Nth(Recovered, n)].rec.offset
      OBVIOUS
    <2>2. AllRecovered = all
      BY DEF AllRecovered
    <2> HIDE DEF new, c, all
    <2> QED
      BY <1>1, <2>1, <2>2
  <1> HIDE DEF new, c, pubs
  <1>10. /\ all \in Seq(Nat) /\ Len(all) = Len(pubs) + c
         /\ \A i \in 1 .. Len(pubs) : all[i] = pubs[i]
         /\ \A n \in 1 .. c : all[Len(pubs) + n] = new[n]
    <2>1. pubs \in Seq(Nat) /\ new \in Seq(Nat)
      BY <1>6, <1>7
    <2>2. /\ all \in Seq(Nat) /\ Len(all) = Len(pubs) + Len(new)
          /\ \A i \in 1 .. Len(pubs) : all[i] = pubs[i]
          /\ \A n \in 1 .. Len(new) : all[Len(pubs) + n] = new[n]
      BY <2>1, ConcatFacts
    <2> HIDE DEF all
    <2> QED
      BY <1>6, <2>2
  <1> HIDE DEF all
  <1>11. DOMAIN all = 1 .. Len(pubs) + c
    BY <1>10, LenProperties
  <1>12. \A i \in DOMAIN all : i \in 1 .. Len(pubs) \/ i - Len(pubs) \in 1 .. c
    BY <1>1, <1>8, <1>11
  <1>13. \A i \in DOMAIN all : i \notin 1 .. Len(pubs) => all[i] = new[i - Len(pubs)]
    <2>1. \A i \in DOMAIN all : Len(pubs) + (i - Len(pubs)) = i
      BY <1>1, <1>8, <1>11
    <2> QED
      BY <1>10, <1>12, <2>1
  <1>14. \A i \in DOMAIN all : all[i] <= RecoveredOffset
    <2> TAKE i \in DOMAIN all
    <2>1. CASE i \in 1 .. Len(pubs)
      BY <1>7, <1>8, <1>10, <2>1
    <2>2. CASE i \notin 1 .. Len(pubs)
      BY <1>3, <1>12, <1>13, <2>2
    <2> QED
      BY <2>1, <2>2
  <1>15. Increasing(all)
    <2> SUFFICES ASSUME NEW i \in DOMAIN all, NEW j \in DOMAIN all, i < j
                 PROVE  all[i] < all[j]
      BY DEF Increasing
    <2>1. CASE j \in 1 .. Len(pubs)
      <3>1. i \in 1 .. Len(pubs)
        BY <1>1, <1>8, <1>11, <2>1
      <3> QED
        BY <1>7, <1>8, <1>10, <2>1, <3>1 DEF Increasing
    <2>2. CASE j \notin 1 .. Len(pubs) /\ i \in 1 .. Len(pubs)
      <3>1. all[i] \in Nat /\ all[j] \in Nat /\ ~(all[j] <= all[i])
        BY <1>3, <1>4, <1>8, <1>10, <1>12, <1>13, <2>2
      <3> QED
        BY <3>1
    <2>3. CASE j \notin 1 .. Len(pubs) /\ i \notin 1 .. Len(pubs)
      <3>1. i - Len(pubs) < j - Len(pubs)
        BY <1>1, <1>8, <1>11
      <3>2. all[i] \in Nat /\ all[j] \in Nat /\ ~(all[j] <= all[i])
        BY <1>3, <1>5, <1>12, <1>13, <2>3, <3>1
      <3> QED
        BY <3>2
    <2> QED
      BY <2>1, <2>2, <2>3
  <1>16. ASSUME NEW i \in DOMAIN all
         PROVE  \/ all[i] \in ToSet(pubs)
                \/ \E j \in Recovered : all[i] = log[j].rec.offset
    <2>1. CASE i \in 1 .. Len(pubs)
      BY <1>8, <1>10, <2>1 DEF ToSet
    <2>2. CASE i \notin 1 .. Len(pubs)
      BY <1>9, <1>12, <1>13, <2>2
    <2> QED
      BY <2>1, <2>2
  <1>17. ToSet(pubs) \subseteq ToSet(all)
    <2>1. \A i \in 1 .. Len(pubs) : i \in DOMAIN all /\ pubs[i] = all[i]
      BY <1>1, <1>8, <1>10, <1>11
    <2> QED
      BY <1>8, <2>1 DEF ToSet
  <1>18. \A j \in Recovered : log[j].rec.offset \in ToSet(all)
    <2>1. \A n \in 1 .. c : Len(pubs) + n \in DOMAIN all /\ new[n] = all[Len(pubs) + n]
      BY <1>1, <1>8, <1>10, <1>11
    <2>2. \A n \in 1 .. c : new[n] \in ToSet(all)
      BY <2>1 DEF ToSet
    <2> QED
      BY <1>9, <2>2
  <1> QED
    BY <1>9, <1>10, <1>14, <1>15, <1>16, <1>17, <1>18 DEF pubs

LEMMA RingFacts ==
    ASSUME IInv
    PROVE  /\ RecoveredRing \in Seq(Nat) /\ Increasing(RecoveredRing)
           /\ \A i \in DOMAIN RecoveredRing : RecoveredRing[i] <= RecoveredOffset
  <1>1. RecoveredRing = Retain(AllRecovered)
    BY DEF RecoveredRing, AllRecovered
  <1>2. AllRecovered \in Seq(Nat) /\ Increasing(AllRecovered)
    BY AllRecoveredFacts
  <1>3. /\ Retain(AllRecovered) \in Seq(Nat) /\ Increasing(Retain(AllRecovered))
        /\ \A i \in DOMAIN Retain(AllRecovered) :
             \E j \in DOMAIN AllRecovered : Retain(AllRecovered)[i] = AllRecovered[j]
    BY <1>2, RetainFacts
  <1>4. \A i \in DOMAIN AllRecovered : AllRecovered[i] <= RecoveredOffset
    BY AllRecoveredFacts
  <1> QED
    BY <1>1, <1>3, <1>4

\* The snapshot recovery writes: no message that it holds, and nothing that was on
\* record, is beyond the offset it holds.
LEMMA RecoveredSnapshot ==
    ASSUME IInv, Load
    PROVE  /\ snapshot' \in PastSnapshot /\ Increasing(snapshot'.pubs)
           /\ \A i \in DOMAIN snapshot'.pubs : snapshot'.pubs[i] <= snapshot'.offset
           /\ snapshot'.pubs = RecoveredRing /\ snapshot'.offset = RecoveredOffset
           /\ ~failed' => minted <= snapshot'.offset
  <1> DEFINE store == [k \in Key |-> RecoveredEntry(k)]
  <1>1. store \in [Key -> PastEntry]
    BY RecoveredStore
  <1>2. snapshot' = Snapshot(store, RecoveredRing, RecoveredOffset)
    BY DEF Load
  <1> HIDE DEF store
  <1>3. /\ snapshot' \in PastSnapshot
        /\ snapshot'.pubs = RecoveredRing /\ snapshot'.offset = RecoveredOffset
    <2>1. ops \in Nat /\ RecoveredRing \in Seq(Nat) /\ RecoveredOffset \in Nat
      BY Before, RingFacts, OffsetFacts
    <2> QED
      BY <1>1, <1>2, <2>1, SnapshotFacts
  <1>4. ASSUME ~failed'
        PROVE  minted <= RecoveredOffset
    <2>1. ~failed /\ LogIsWhole
      BY <1>4 DEF Load
    <2>2. Recorded(minted)
      BY <2>1, MintedRecorded
    <2>3. minted \in Nat /\ snapshot.offset \in Nat /\ RecoveredOffset \in Nat
          /\ snapshot.offset <= RecoveredOffset
      BY Before, OffsetFacts DEF IInv, TypeOK
    <2>4. CASE minted <= snapshot.offset
      BY <2>3, <2>4
    <2>5. ASSUME NEW i \in 1 .. synced, log[i].part = "whole", log[i].rec.op = "offset",
                 minted <= log[i].rec.offset
          PROVE  minted <= RecoveredOffset
      <3>1. i \in 1 .. Len(log)
        BY Before DEF LogAgrees
      <3>2. i \in Readable
        BY <2>1, <2>5, <3>1, ReadableFacts
      <3>3. log[i].rec.offset \in Nat /\ log[i].rec.offset <= RecoveredOffset
        BY <2>5, <3>2, ReadFrames, OffsetFacts
      <3> QED
        BY <2>3, <2>5, <3>3
    <2> QED
      BY <2>2, <2>4, <2>5 DEF Recorded
  <1> QED
    BY <1>3, <1>4, RingFacts

LEMMA LoadStep ==
    ASSUME IInv, Load
    PROVE  IInv'
  <1> DEFINE store == [k \in Key |-> RecoveredEntry(k)]
  <1>1. store \in [Key -> PastEntry]
    BY RecoveredStore
  <1>2. /\ phase = "down" /\ failed' = (failed \/ ~LogIsWhole) /\ mode' = mode /\ lapsed' = lapsed
        /\ ops' = ops /\ faults' = faults /\ acked' = acked /\ minted' = minted
    BY DEF Load
  <1>3. \/ /\ phase' = "up"
           /\ value' = store /\ ring' = RecoveredRing /\ nextOffset' = RecoveredOffset
           /\ persist' = NoPersist(RecoveredOffset)
           /\ log' = <<>> /\ synced' = 0
           /\ past' = <<store>> /\ landed' = 1 /\ durable' = 1
           /\ planned' = FALSE
           /\ UNCHANGED crashes
        \/ /\ Dies
           /\ UNCHANGED <<value, ring, nextOffset, log, synced, past, landed, durable>>
    BY DEF Load
  <1>4. failed' \in BOOLEAN /\ (failed => failed')
    BY <1>2, Zenon
  <1>5. /\ snapshot' \in PastSnapshot /\ Increasing(snapshot'.pubs)
        /\ \A i \in DOMAIN snapshot'.pubs : snapshot'.pubs[i] <= snapshot'.offset
        /\ snapshot'.pubs = RecoveredRing /\ snapshot'.offset = RecoveredOffset
        /\ ~failed' => minted <= snapshot'.offset
    BY RecoveredSnapshot
  <1>6. PastEntry' = PastEntry /\ PastFrame' = PastFrame
    BY <1>2 DEF PastEntry, PastFrame
  <1> HIDE DEF store
  <1>7. CASE /\ phase' = "up"
             /\ value' = store /\ ring' = RecoveredRing /\ nextOffset' = RecoveredOffset
             /\ persist' = NoPersist(RecoveredOffset)
             /\ log' = <<>> /\ synced' = 0
             /\ past' = <<store>> /\ landed' = 1 /\ durable' = 1
             /\ planned' = FALSE
             /\ UNCHANGED crashes
    <2>1. RecoveredOffset \in Nat /\ RecoveredRing \in Seq(Nat)
      BY OffsetFacts, RingFacts
    <2>2. /\ persist' \in Memory(RecentFrame') /\ persist'.offsetReserved = RecoveredOffset
          /\ persist'.writing = "no"
      BY <1>7, <2>1, NoPersistFacts
    <2>3. past' \in Seq([Key -> PastEntry]) /\ DOMAIN past' = 1 .. 1
      <3> DEFINE S == [Key -> PastEntry]
      <3>1. store \in S
        BY <1>1
      <3> HIDE DEF S
      <3>2. <<store>> \in Seq(S) /\ DOMAIN <<store>> = 1 .. 1
        BY <3>1
      <3> QED
        BY <1>7, <3>2 DEF S
    <2>4. log' \in Seq(PastFrame) /\ Len(log') = 0
      BY <1>7, EmptySeq
    <2>5. snapshot'.entries \in [Key -> PastEntry]
      BY <1>5 DEF PastSnapshot
    <2>6. TtlsArePast' /\ QueueIsRecent' /\ WritesWhileUp'
      BY <1>1, <1>6, <1>7, <2>2, <2>3, <2>4, <2>5 DEF TtlsArePast, QueueIsRecent, WritesWhileUp
    <2>7. TypeOK'
      <3>1. /\ value' \in [Key -> Entry] /\ snapshot'.entries \in [Key -> Entry]
            /\ past' \in Seq([Key -> Entry]) /\ log' \in Seq(Frame) /\ persist' \in Memory(Frame)
        BY <1>2, <2>6, Before, BoundedTypes
      <3>2. snapshot' \in [entries : [Key -> Entry], pubs : Seq(Nat), offset : Nat]
        BY <1>5, <3>1 DEF PastSnapshot
      <3>3. planned' \in BOOLEAN
        BY <1>7, Zenon
      <3>4. synced' \in 0 .. Len(log') /\ landed' \in DOMAIN past' /\ durable' \in 1 .. landed'
        BY <1>7, <2>3, <2>4
      <3>5. /\ mode' \in Modes /\ lapsed' \subseteq 1 .. ops' /\ ops' \in Nat /\ crashes' \in Nat
            /\ faults' \in Nat /\ acked' \subseteq Nat /\ minted' \in Nat
        BY <1>2, <1>7 DEF IInv, TypeOK
      <3>6. phase' \in {"up", "closing", "down"} /\ ring' \in Seq(Nat) /\ nextOffset' \in Nat
        BY <1>7, <2>1
      <3> QED
        BY <1>4, <3>1, <3>2, <3>3, <3>4, <3>5, <3>6 DEF TypeOK
    <2>8. RetainedOnce'
      BY <1>7, RingFacts DEF RetainedOnce, Increasing
    <2>9. OffsetsReserved'
      <3>1. nextOffset' <= persist'.offsetReserved
        BY <1>7, <2>1, <2>2
      <3>2. \A i \in DOMAIN ring' : ring'[i] <= nextOffset'
        BY <1>7, RingFacts
      <3>3. Increasing(snapshot.pubs)'
        BY <1>5 DEF Increasing
      <3> QED
        BY <1>5, <3>1, <3>2, <3>3 DEF OffsetsReserved
    <2>10. ReservationRecorded'
      <3>1. ~failed' => minted' <= nextOffset'
        BY <1>2, <1>5, <1>7
      <3>2. Recorded(persist.offsetReserved)'
        BY <1>5, <2>1, <2>2 DEF Recorded
      <3>3. phase' # "down"
        BY <1>7
      <3> QED
        BY <3>1, <3>2, <3>3 DEF ReservationRecorded
    <2> QED
      BY <2>6, <2>7, <2>8, <2>9, <2>10 DEF IInv
  <1>8. CASE /\ Dies
             /\ UNCHANGED <<value, ring, nextOffset, log, synced, past, landed, durable>>
    <2>1. UNCHANGED unchangedByWrites
      BY <1>2, <1>8 DEF unchangedByWrites
    <2>2. LogAgrees(PastFrame, Len(past), log', synced', landed', durable') /\ faults' \in Nat
      BY <1>2, <1>8, Before
    <2>3. ~failed' => Recorded(minted)'
      BY <1>2, <1>5 DEF Recorded
    <2>4. TypeOK' /\ TtlsArePast' /\ QueueIsRecent' /\ WritesWhileUp'
      BY <1>4, <1>5, <1>8, <2>1, <2>2, DiesFacts, SteadyTypes
    <2>5. RetainedOnce' /\ OffsetsReserved' /\ ReservationRecorded'
      BY <1>4, <1>5, <1>8, <2>1, <2>3, DiesFacts, SteadyOffsets
    <2> QED
      BY <2>4, <2>5 DEF IInv
  <1> QED
    BY <1>3, <1>7, <1>8

-----------------------------------------------------------------------------
(* The theorems.                                                           *)

LEMMA StutterStep ==
    ASSUME IInv, UNCHANGED vars
    PROVE  IInv'
  <1>1. /\ phase' = phase /\ mode' = mode /\ value' = value /\ ring' = ring /\ nextOffset' = nextOffset
        /\ persist' = persist /\ snapshot' = snapshot /\ log' = log /\ synced' = synced
        /\ lapsed' = lapsed /\ ops' = ops /\ crashes' = crashes /\ faults' = faults /\ past' = past
        /\ landed' = landed /\ durable' = durable /\ acked' = acked /\ minted' = minted
        /\ planned' = planned /\ failed' = failed
    BY DEF vars, disk, ghost
  <1>2. PastEntry' = PastEntry /\ PastFrame' = PastFrame /\ RecentFrame' = RecentFrame
    BY <1>1 DEF PastEntry, PastFrame, RecentFrame
  <1>3. TypeOK'
    BY <1>1 DEF IInv, TypeOK
  <1>4. TtlsArePast' /\ QueueIsRecent' /\ WritesWhileUp'
    BY <1>1, <1>2 DEF IInv, TtlsArePast, QueueIsRecent, WritesWhileUp
  <1>5. RetainedOnce' /\ OffsetsReserved'
    BY <1>1 DEF IInv, RetainedOnce, OffsetsReserved, Increasing
  <1>6. ReservationRecorded'
    BY <1>1 DEF IInv, ReservationRecorded, Recorded
  <1> QED
    BY <1>3, <1>4, <1>5, <1>6 DEF IInv

LEMMA NextStep ==
    ASSUME IInv, [Next]_vars
    PROVE  IInv'
  <1>1. CASE \/ \E k \in Key : Set(k) \/ Update(k) \/ Delete(k)
             \/ Clear
    BY <1>1, Mutations, MutateStep
  <1>2. CASE \E sync \in BOOLEAN : Publish(sync)
    BY <1>2, PublishStep
  <1>3. CASE RunCompact \/ WriteLands \/ WriteReturns \/ Fsync \/ Lapse
    BY <1>3, RunCompactStep, WriteLandsStep, WriteReturnsStep, FsyncStep, LapseStep
  <1>4. CASE Close \/ Kill \/ PowerLoss \/ Load
    BY <1>4, CloseStep, KillStep, PowerLossStep, LoadStep
  <1>5. CASE UNCHANGED vars
    BY <1>5, StutterStep
  <1> QED
    BY <1>1, <1>2, <1>3, <1>4, <1>5 DEF Next

\* The parts of the invariant hold together, in every state the broker, its file and
\* a crash can reach.
THEOREM Inductive == Spec => []IInv
  <1>1. Init => IInv
    BY InitIInv
  <1>2. IInv /\ [Next]_vars => IInv'
    BY NextStep
  <1> QED
    BY <1>1, <1>2, PTL DEF Spec

\* The state of the broker, of the Persistence object and of its files is of its type.
THEOREM TypeCorrect == Spec => []TypeOK
  <1>1. IInv => TypeOK
    BY DEF IInv
  <1> QED
    BY <1>1, Inductive, PTL

\* However the broker ends, it mints no offset again: what it reserves is on the disk
\* before what it mints, no snapshot forgets it, and recovery goes on from there.
THEOREM OffsetsAreNew == Spec => []OffsetsStayNew
  <1>1. IInv => OffsetsStayNew
    <2> SUFFICES ASSUME IInv, phase = "up", ~failed
                 PROVE  nextOffset >= minted
      BY DEF OffsetsStayNew
    <2>1. minted <= nextOffset /\ minted \in Nat /\ nextOffset \in Nat
      BY DEF IInv, TypeOK, ReservationRecorded
    <2> QED
      BY <2>1
  <1> QED
    BY <1>1, Inductive, PTL

\* A message queued before a compaction and written after it is in the snapshot and in
\* the log: recovery retains it once, in its place.
THEOREM RetainedInOrder == Spec => []RetainedOnce
  <1>1. IInv => RetainedOnce
    BY DEF IInv
  <1> QED
    BY <1>1, Inductive, PTL

-----------------------------------------------------------------------------
(* What recovery brings back: the parts of DurableInv.                     *)

LEMMA DurableBefore ==
    ASSUME DurableInv
    PROVE  /\ IInv /\ ring \in Seq(Nat) /\ Increasing(ring) /\ Len(ring) <= Retention
           /\ Len(ring) \in Nat /\ DOMAIN ring = 1 .. Len(ring)
           /\ nextOffset \in Nat /\ minted \in Nat /\ acked \subseteq Nat
           /\ snapshot.pubs \in Seq(Nat)
           /\ LogAgrees(RetainedFrame, Len(past), log, synced, landed, durable)
           /\ log \in Seq(RetainedFrame) /\ synced \in 0 .. Len(log) /\ synced \in Nat
           /\ Len(log) \in Nat /\ DOMAIN log = 1 .. Len(log)
           /\ persist \in Memory(RetainedFrame)
           /\ persist.queue \in Seq(RetainedFrame) /\ persist.batch \in Seq(RetainedFrame)
           /\ faults \in Nat /\ failed \in BOOLEAN /\ Len(past) \in Nat
  <1>1. IInv /\ RecordsAreRetained
    BY DEF DurableInv
  <1>2. /\ ring \in Seq(Nat) /\ Increasing(ring) /\ nextOffset \in Nat /\ minted \in Nat
        /\ acked \subseteq Nat
    BY <1>1 DEF IInv, TypeOK, RetainedOnce
  <1>3. /\ LogAgrees(PastFrame, Len(past), log, synced, landed, durable)
        /\ Len(past) \in Nat /\ snapshot.pubs \in Seq(Nat) /\ synced \in Nat /\ Len(log) \in Nat
        /\ faults \in Nat /\ failed \in BOOLEAN
    BY <1>1, Before
  <1>4. Len(ring) <= Retention /\ log \in Seq(RetainedFrame) /\ persist \in Memory(RetainedFrame)
    BY <1>1 DEF RecordsAreRetained
  <1>5. persist.queue \in Seq(RetainedFrame) /\ persist.batch \in Seq(RetainedFrame)
    BY <1>4 DEF Memory
  <1>6. LogAgrees(RetainedFrame, Len(past), log, synced, landed, durable)
    BY <1>3, <1>4 DEF LogAgrees
  <1>7. synced \in 0 .. Len(log)
    BY <1>3 DEF LogAgrees
  <1>8. Len(ring) \in Nat /\ DOMAIN ring = 1 .. Len(ring) /\ DOMAIN log = 1 .. Len(log)
    BY <1>2, <1>4, LenProperties
  <1> QED
    BY <1>1, <1>2, <1>3, <1>4, <1>5, <1>6, <1>7, <1>8

\* A step that neither publishes nor takes a snapshot.
LEMMA DurableSteady ==
    ASSUME DurableInv, IInv', ring' = ring, nextOffset' = nextOffset, acked' = acked,
           minted' = minted, snapshot' = snapshot, Kept, failed => failed',
           log' \in Seq(RetainedFrame), persist' \in Memory(RetainedFrame)
    PROVE  DurableInv'
  <1>1. RetainedFrame' = RetainedFrame
    BY DEF RetainedFrame, Retained
  <1>2. RecordsAreRetained'
    BY <1>1 DEF DurableInv, RecordsAreRetained, Retained
  <1>3. ASSUME NEW m, Ahead(m) PROVE Ahead(m)'
    <2>1. synced \in Nat /\ synced' \in Nat
      BY DurableBefore DEF IInv, TypeOK
    <2>2. PICK i \in 1 .. synced :
            /\ log[i].part = "whole" /\ log[i].rec.op = "pub" /\ log[i].rec.offset = m
            /\ \A j \in 1 .. i - 1 : log[j].rec.op = "pub" => log[j].rec.offset < m
      BY <1>3 DEF Ahead
    <2>3. i \in 1 .. synced' /\ log'[i] = log[i] /\ \A j \in 1 .. i - 1 : log'[j] = log[j]
      BY <2>1 DEF Kept
    <2> QED
      BY <1>3, <2>2, <2>3 DEF Ahead
  <1>4. AckedOnDisk'
    BY <1>3 DEF DurableInv, AckedOnDisk
  <1>5. AckedWereMinted'
    BY DEF DurableInv, AckedWereMinted
  <1> QED
    BY <1>2, <1>4, <1>5 DEF DurableInv

\* A step that takes a snapshot: it holds all that is retained.
LEMMA DurableTaken ==
    ASSUME DurableInv, IInv', phase # "down", ring' = ring, nextOffset' = nextOffset,
           acked' = acked, minted' = minted, snapshot'.pubs = ring,
           log' \in Seq(RetainedFrame), persist' \in Memory(RetainedFrame)
    PROVE  DurableInv'
  <1>1. RetainedFrame' = RetainedFrame
    BY DEF RetainedFrame, Retained
  <1>2. \A i \in DOMAIN ring : ring[i] <= nextOffset /\ ring[i] \in ToSet(ring)
    BY DEF DurableInv, IInv, OffsetsReserved, ToSet
  <1>3. \A i \in DOMAIN snapshot'.pubs : Retained(snapshot.pubs[i])'
    BY <1>2 DEF Retained
  <1>4. RecordsAreRetained'
    BY <1>1, <1>3 DEF DurableInv, RecordsAreRetained
  <1>5. AckedOnDisk'
    BY DEF AckedOnDisk
  <1>6. AckedWereMinted'
    BY DEF DurableInv, AckedWereMinted
  <1> QED
    BY <1>4, <1>5, <1>6 DEF DurableInv

LEMMA SnapshotPubs ==
    \A store, pubs, n : Snapshot(store, pubs, n).pubs = pubs
  BY DEF Snapshot

LEMMA DurableMutate ==
    ASSUME DurableInv, IInv', NEW store, NEW rec, Mutation(store, rec)
    PROVE  DurableInv'
  <1>1. /\ Log(persist, <<>>, rec, FALSE) /\ ring' = ring /\ nextOffset' = nextOffset
        /\ acked' = acked /\ minted' = minted /\ snapshot' = snapshot
    BY DEF Mutation, Mutate, Operation
  <1>2. /\ rec \in Record /\ rec.op # "pub" /\ rec.at = Len(past) + 1 /\ Len(past) \in Nat
    BY DurableBefore DEF Mutation
  <1> DEFINE R == {rec}
             n == Len(past) + 1
  <1>3. \A r \in R : r.at \in 0 .. n /\ [rec |-> r, part |-> "whole"] \in RetainedFrame
    BY <1>2 DEF RetainedFrame, Frame
  <1>4. rec \in R /\ <<>> \in Seq(R) /\ n \in Nat /\ FALSE \in BOOLEAN
    BY <1>2, EmptySeq
  <1>5. /\ LogAgrees(RetainedFrame, n, log, synced, landed, durable)
        /\ persist \in Memory(RetainedFrame) /\ faults \in Nat /\ failed \in BOOLEAN
    <2>1. LogAgrees(RetainedFrame, Len(past), log, synced, landed, durable)
      BY DurableBefore
    <2>2. LogAgrees(RetainedFrame, n, log, synced, landed, durable)
      BY <1>2, <2>1 DEF LogAgrees
    <2> QED
      BY <2>2, DurableBefore
  <1> HIDE DEF R, n
  <1>6. /\ LogAgrees(RetainedFrame, n, log', synced', landed', durable') /\ Kept
        /\ (failed => failed') /\ persist' \in Memory(RetainedFrame)
    BY <1>1, <1>3, <1>4, <1>5, LogFacts
  <1>7. log' \in Seq(RetainedFrame)
    BY <1>6 DEF LogAgrees
  <1> QED
    BY <1>1, <1>6, <1>7, DurableSteady

LEMMA AppendedFacts ==
    ASSUME NEW q \in Seq(Nat), Increasing(q), NEW n \in Nat, \A i \in DOMAIN q : q[i] < n
    PROVE  /\ Append(q, n) \in Seq(Nat) /\ Increasing(Append(q, n))
           /\ Len(q) + 1 \in DOMAIN Append(q, n) /\ Append(q, n)[Len(q) + 1] = n
           /\ \A i \in DOMAIN q : i \in DOMAIN Append(q, n) /\ Append(q, n)[i] = q[i]
           /\ \A i \in DOMAIN Append(q, n) : i \in DOMAIN q \/ i = Len(q) + 1
  <1>1. /\ Append(q, n) \in Seq(Nat) /\ Len(Append(q, n)) = Len(q) + 1
        /\ \A i \in 1 .. Len(q) : Append(q, n)[i] = q[i]
        /\ Append(q, n)[Len(q) + 1] = n
    BY AppendProperties
  <1>2. /\ Len(q) \in Nat /\ DOMAIN q = 1 .. Len(q) /\ DOMAIN Append(q, n) = 1 .. Len(q) + 1
    BY <1>1, LenProperties
  <1>3. \A i \in DOMAIN q : q[i] \in Nat /\ q[i] < n
    OBVIOUS
  <1>4. Increasing(Append(q, n))
    BY <1>1, <1>2, <1>3 DEF Increasing
  <1> QED
    BY <1>1, <1>2, <1>4

\* What a publish adds is retained, and pushes out the oldest only.
LEMMA RetainedGrows ==
    ASSUME DurableInv, phase = "up", nextOffset' = nextOffset + 1,
           ring' = Retain(Append(ring, nextOffset + 1))
    PROVE  /\ \A x \in Nat : Retained(x) \/ x = nextOffset + 1 => Retained(x)'
           /\ Len(ring') <= Retention
           /\ ToSet(ring') \subseteq ToSet(ring) \cup {nextOffset + 1}
  <1> DEFINE n == nextOffset + 1
             A == Append(ring, n)
  <1>1. /\ n \in Nat /\ nextOffset \in Nat /\ nextOffset < n /\ ring \in Seq(Nat)
        /\ Increasing(ring) /\ nextOffset' = n /\ ring' = Retain(A)
    BY DurableBefore
  <1>2. \A i \in DOMAIN ring : ring[i] \in Nat /\ ring[i] < n
    <2>1. \A i \in DOMAIN ring : ring[i] <= nextOffset
      BY DEF DurableInv, IInv, OffsetsReserved
    <2> HIDE DEF n
    <2> QED
      BY <1>1, <2>1
  <1> HIDE DEF n
  <1>3. /\ A \in Seq(Nat) /\ Increasing(A) /\ Len(ring) + 1 \in DOMAIN A /\ A[Len(ring) + 1] = n
        /\ \A i \in DOMAIN ring : i \in DOMAIN A /\ A[i] = ring[i]
        /\ \A i \in DOMAIN A : i \in DOMAIN ring \/ i = Len(ring) + 1
    BY <1>1, <1>2, AppendedFacts
  <1> HIDE DEF A
  <1>4. /\ \A i \in DOMAIN ring' : \E j \in DOMAIN A : ring'[i] = A[j]
        /\ Len(ring') <= Retention
        /\ \A i \in DOMAIN ring', j \in DOMAIN A : ring'[i] <= A[j] => A[j] \in ToSet(ring')
    BY <1>1, <1>3, RetainFacts
  <1>5. ASSUME NEW x \in Nat, Retained(x) PROVE Retained(x)'
    <2>1. x <= nextOffset /\ x < n
      BY <1>1, <1>5 DEF Retained
    <2>2. ASSUME NEW i \in DOMAIN ring', ring'[i] <= x PROVE x \in ToSet(ring')
      <3>1. PICK j \in DOMAIN A : ring'[i] = A[j]
        BY <1>4
      <3>2. j \in DOMAIN ring /\ ring[j] <= x
        BY <1>1, <1>3, <2>1, <2>2, <3>1
      <3>3. x \in ToSet(ring)
        BY <1>5, <3>2 DEF Retained
      <3>4. PICK l \in DOMAIN ring : x = ring[l]
        BY <3>3 DEF ToSet
      <3>5. l \in DOMAIN A /\ x = A[l]
        BY <1>3, <3>4
      <3> QED
        BY <1>4, <2>2, <3>5
    <2> QED
      BY <1>1, <2>1, <2>2 DEF Retained
  <1>6. ASSUME NEW x \in Nat, x = n PROVE Retained(x)'
    <2>1. \A i \in DOMAIN ring' : ring'[i] <= n => n \in ToSet(ring')
      BY <1>3, <1>4
    <2> QED
      BY <1>1, <1>6, <2>1 DEF Retained
  <1>7. ToSet(ring') \subseteq ToSet(ring) \cup {n}
    <2>1. \A i \in DOMAIN ring' : \/ ring'[i] = n
                                  \/ \E j \in DOMAIN ring : ring'[i] = ring[j]
      BY <1>3, <1>4
    <2> QED
      BY <2>1 DEF ToSet
  <1> QED
    BY <1>4, <1>5, <1>6, <1>7 DEF n

LEMMA DurablePublish ==
    ASSUME DurableInv, IInv', NEW sync \in BOOLEAN, Publish(sync)
    PROVE  DurableInv'
  <1> DEFINE n     == nextOffset + 1
             new   == n > persist.offsetReserved
             p     == IF new THEN [persist EXCEPT !.offsetReserved = Ceiling(n)] ELSE persist
             block == IF new THEN <<[op |-> "offset", offset |-> Ceiling(n), at |-> 0]>> ELSE <<>>
             rec   == [op |-> "pub", offset |-> n, at |-> 0]
             R     == [op : {"offset"}, offset : Nat, at : {0}] \cup {rec}
  <1>1. /\ Operation /\ nextOffset' = n /\ minted' = MaxOf({minted, n})
        /\ ring' = Retain(Append(ring, n))
        /\ Log(p, block, rec, sync)
        /\ acked' = (IF sync THEN acked \cup {n} ELSE acked)
        /\ past' = past /\ snapshot' = snapshot /\ phase = "up"
    BY DEF Publish, Operation
  <1>2. n \in Nat /\ Ceiling(n) \in Nat /\ nextOffset \in Nat /\ nextOffset < n /\ minted \in Nat
    <2>1. n \in Nat /\ nextOffset \in Nat /\ nextOffset < n /\ minted \in Nat
      BY DurableBefore
    <2> QED
      BY <2>1, CeilingFacts
  <1>3. /\ \A x \in Nat : Retained(x) \/ x = n => Retained(x)'
        /\ Len(ring') <= Retention
        /\ ToSet(ring') \subseteq ToSet(ring) \cup {n}
    BY <1>1, RetainedGrows
  <1>4. RetainedFrame \subseteq RetainedFrame'
    <2>1. \A f \in Frame : f.rec.op = "pub" => f.rec.offset \in Nat
      BY FrameFacts, RecordFacts
    <2> QED
      BY <1>3, <2>1 DEF RetainedFrame
  <1>5. p \in Memory(RetainedFrame')
    <2>1. persist \in Memory(RetainedFrame')
      BY <1>4, DurableBefore, MemoryMonotonic
    <2> HIDE DEF n
    <2> QED
      BY <1>2, <2>1 DEF Memory
  <1>6. rec \in R /\ block \in Seq(R) /\ \A i \in DOMAIN block : block[i].op = "offset"
    <2> DEFINE b == [op |-> "offset", offset |-> Ceiling(n), at |-> 0]
    <2>1. rec \in R /\ b \in R /\ b.op = "offset"
      BY <1>2
    <2> HIDE DEF b, R, rec
    <2>2. <<b>> \in Seq(R) /\ <<>> \in Seq(R)
      BY <2>1, EmptySeq
    <2>3. /\ \A i \in DOMAIN <<b>> : <<b>>[i].op = "offset"
          /\ \A i \in DOMAIN <<>> : <<>>[i].op = "offset"
      BY <2>1
    <2>4. block = <<b>> \/ block = <<>>
      BY DEF b
    <2> HIDE DEF block
    <2>5. CASE block = <<b>>
      BY <2>1, <2>2, <2>3, <2>5
    <2>6. CASE block = <<>>
      BY <2>1, <2>2, <2>3, <2>6
    <2> QED
      BY <2>4, <2>5, <2>6
  <1>7. \A r \in R : r.at \in 0 .. Len(past) /\ [rec |-> r, part |-> "whole"] \in RetainedFrame'
    <2> TAKE r \in R
    <2>1. r \in Record /\ r.at = 0
      BY <1>2 DEF Record
    <2>2. [rec |-> r, part |-> "whole"] \in Frame
      BY <2>1 DEF Frame
    <2>3. r.op = "pub" => r.offset = n
      OBVIOUS
    <2>4. r.op = "pub" => Retained(r.offset)'
      <3>1. \A x : x = n => Retained(x)'
        BY <1>2, <1>3
      <3> HIDE DEF n, R
      <3> SUFFICES ASSUME r.op = "pub" PROVE Retained(r.offset)'
        OBVIOUS
      <3>2. r.offset = n
        BY <2>3
      <3> QED
        BY <3>1, <3>2
    <2>5. [rec |-> r, part |-> "whole"].rec = r
      OBVIOUS
    <2>6. [rec |-> r, part |-> "whole"] \in RetainedFrame'
      BY <2>2, <2>4, <2>5 DEF RetainedFrame
    <2> QED
      BY <2>1, <2>6, DurableBefore
  <1>8. /\ LogAgrees(RetainedFrame', Len(past), log, synced, landed, durable)
        /\ faults \in Nat /\ failed \in BOOLEAN /\ Len(past) \in Nat
        /\ Len(log) \in Nat /\ synced \in Nat
    <2>1. LogAgrees(RetainedFrame, Len(past), log, synced, landed, durable)
      BY DurableBefore
    <2>2. log \in Seq(RetainedFrame')
      BY <1>4, <2>1, SeqMonotonic DEF LogAgrees
    <2>3. LogAgrees(RetainedFrame', Len(past), log, synced, landed, durable)
      BY <2>1, <2>2 DEF LogAgrees
    <2> QED
      BY <2>3, DurableBefore
  <1>9. \A i \in DOMAIN log : log[i].rec.op = "pub" => log[i].rec.offset <= nextOffset
    <2>1. \A i \in DOMAIN log : log[i] \in RetainedFrame
      BY DurableBefore
    <2> QED
      BY <2>1 DEF RetainedFrame, Retained
  <1> HIDE DEF n, p, block, rec, R
  <1>10. /\ LogAgrees(RetainedFrame', Len(past), log', synced', landed', durable') /\ Kept
         /\ (failed => failed') /\ persist' \in Memory(RetainedFrame')
         /\ ~failed' => \A i \in 1 .. Len(block) :
              /\ Len(log) + i \in 1 .. synced'
              /\ log'[Len(log) + i] = [rec |-> block[i], part |-> "whole"]
    BY <1>1, <1>5, <1>6, <1>7, <1>8, LogFacts
  <1>11. /\ \A i \in 1 .. Len(log) : log'[i] = log[i]
         /\ ~failed' /\ sync =>
              /\ Len(log) + (Len(block) + 1) \in 1 .. synced'
              /\ log'[Len(log) + (Len(block) + 1)] = [rec |-> rec, part |-> "whole"]
    BY <1>1, <1>6, <1>7, <1>8, LogSyncFacts
  <1>12. \A i \in DOMAIN snapshot.pubs : /\ Retained(snapshot.pubs[i]) /\ snapshot.pubs[i] \in Nat
                                         /\ snapshot.pubs[i] < n
    <2>1. \A i \in DOMAIN snapshot.pubs : snapshot.pubs[i] \in Nat /\ Retained(snapshot.pubs[i])
      BY DurableBefore DEF DurableInv, RecordsAreRetained
    <2> QED
      BY <1>2, <2>1 DEF Retained
  <1>13. RecordsAreRetained'
    <2>1. log' \in Seq(RetainedFrame')
      BY <1>10 DEF LogAgrees
    <2>2. \A i \in DOMAIN snapshot'.pubs : Retained(snapshot.pubs[i])'
      <3> TAKE i \in DOMAIN snapshot'.pubs
      <3>1. \A x \in Nat : Retained(x) => Retained(x)'
        BY <1>3
      <3>2. \A x : x = snapshot.pubs[i] => x \in Nat /\ Retained(x)'
        BY <1>1, <1>12, <3>1
      <3> QED
        BY <1>1, <3>2
    <2> QED
      BY <1>3, <1>10, <2>1, <2>2 DEF RecordsAreRetained
  <1>14. ASSUME ~failed', sync, NEW m, m = n
         PROVE  Ahead(m)'
    <2> DEFINE l == Len(log) + (Len(block) + 1)
    <2>1. l \in 1 .. synced' /\ log'[l] = [rec |-> rec, part |-> "whole"]
      BY <1>11, <1>14
    <2>2. Len(block) \in Nat /\ DOMAIN block = 1 .. Len(block) /\ DOMAIN log = 1 .. Len(log)
      BY <1>6, <1>8, DurableBefore, LenProperties
    <2>3. ASSUME NEW j \in 1 .. l - 1, log'[j].rec.op = "pub"
          PROVE  log'[j].rec.offset < m
      <3>1. CASE j \in 1 .. Len(log)
        <4>1. log'[j] = log[j] /\ log[j].rec.op = "pub" /\ log[j].rec.offset <= nextOffset
          BY <1>9, <1>11, <2>2, <2>3, <3>1
        <4>2. log[j].rec.offset \in Nat
          <5>1. log[j] \in Frame
            BY <2>2, <3>1, DurableBefore DEF RetainedFrame
          <5> QED
            BY <4>1, <5>1, FrameFacts, RecordFacts
        <4> QED
          BY <1>2, <1>14, <4>1, <4>2
      <3>2. CASE j \notin 1 .. Len(log)
        <4>1. j - Len(log) \in 1 .. Len(block) /\ Len(log) + (j - Len(log)) = j
          BY <1>8, <2>2, <3>2
        <4>2. log'[j] = [rec |-> block[j - Len(log)], part |-> "whole"]
          BY <1>10, <1>14, <4>1
        <4>3. block[j - Len(log)].op = "offset"
          BY <1>6, <2>2, <4>1
        <4> QED
          BY <2>3, <4>2, <4>3
      <3> QED
        BY <3>1, <3>2
    <2>4. \A i \in DOMAIN snapshot'.pubs : snapshot'.pubs[i] < m
      BY <1>1, <1>12, <1>14
    <2>5. log'[l].part = "whole" /\ log'[l].rec.op = "pub" /\ log'[l].rec.offset = m
      BY <1>14, <2>1 DEF rec
    <2> HIDE DEF l
    <2> QED
      BY <2>1, <2>3, <2>4, <2>5 DEF Ahead
  <1>15. ASSUME NEW m, Ahead(m) PROVE Ahead(m)'
    <2>1. synced \in Nat /\ synced' \in Nat
      BY <1>8 DEF IInv, TypeOK
    <2>2. PICK i \in 1 .. synced :
            /\ log[i].part = "whole" /\ log[i].rec.op = "pub" /\ log[i].rec.offset = m
            /\ \A j \in 1 .. i - 1 : log[j].rec.op = "pub" => log[j].rec.offset < m
      BY <1>15 DEF Ahead
    <2>3. i \in 1 .. synced' /\ log'[i] = log[i] /\ \A j \in 1 .. i - 1 : log'[j] = log[j]
      BY <1>10, <2>1 DEF Kept
    <2> QED
      BY <1>1, <1>15, <2>2, <2>3 DEF Ahead
  <1>16. AckedOnDisk'
    <2> SUFFICES ASSUME ~failed', NEW m \in ToSet(ring') \cap acked'
                 PROVE  m \in ToSet(snapshot'.pubs) \/ Ahead(m)'
      BY DEF AckedOnDisk
    <2>1. ~failed
      BY <1>10
    <2>2. n \notin acked
      <3>1. minted <= nextOffset
        BY <1>1, <2>1, DurableBefore DEF IInv, ReservationRecorded
      <3>2. n \in acked => n <= minted
        BY DEF DurableInv, AckedWereMinted
      <3> QED
        BY <1>2, <3>1, <3>2
    <2>3. CASE m = n
      BY <1>1, <1>14, <2>2, <2>3
    <2>4. CASE m # n
      <3>1. m \in ToSet(ring) \cap acked
        BY <1>1, <1>3, <2>4
      <3>2. m \in ToSet(snapshot.pubs) \/ Ahead(m)
        BY <2>1, <3>1 DEF DurableInv, AckedOnDisk
      <3> QED
        BY <1>1, <1>15, <3>2
    <2> QED
      BY <2>3, <2>4
  <1>17. AckedWereMinted'
    <2>1. minted' \in Nat /\ minted <= minted' /\ n <= minted'
      <3>1. {minted, n} \subseteq 0 .. minted + n /\ {minted, n} # {} /\ minted + n \in Nat
        BY <1>2
      <3>2. MaxOf({minted, n}) \in {minted, n} /\ \A y \in {minted, n} : y <= MaxOf({minted, n})
        BY <3>1, MaxFacts
      <3> QED
        BY <1>1, <1>2, <3>2
    <2>2. \A m \in acked : m \in Nat /\ m <= minted
      BY DurableBefore DEF DurableInv, AckedWereMinted
    <2>3. \A m \in acked : m <= minted'
      BY <1>2, <2>1, <2>2
    <2> QED
      BY <1>1, <2>1, <2>3 DEF AckedWereMinted
  <1> QED
    BY <1>13, <1>16, <1>17 DEF DurableInv

LEMMA RetainedFrameFacts ==
    /\ \A f \in RetainedFrame : /\ [f EXCEPT !.part = "head"] \in RetainedFrame
                                /\ [f EXCEPT !.part = "rest"] \in RetainedFrame
    /\ \A n \in Nat : NoPersist(n) \in Memory(RetainedFrame)
  <1>1. ASSUME NEW f \in RetainedFrame, NEW p \in {"head", "rest"}
        PROVE  [f EXCEPT !.part = p] \in RetainedFrame
    <2>1. [f EXCEPT !.part = p] \in Frame /\ [f EXCEPT !.part = p].rec = f.rec
      BY DEF RetainedFrame, Frame
    <2> QED
      BY <2>1 DEF RetainedFrame
  <1> QED
    BY <1>1, NoPersistFacts

\* What a step between operations leaves alone.
LEMMA BetweenOperations ==
    ASSUME UNCHANGED unchangedByWrites
    PROVE  ring' = ring /\ nextOffset' = nextOffset /\ acked' = acked /\ minted' = minted
  BY DEF unchangedByWrites

LEMMA DurableCompact ==
    ASSUME DurableInv, IInv', phase = "up", NEW p \in Memory(RetainedFrame), Compact(p),
           UNCHANGED unchangedByWrites, failed' = failed
    PROVE  DurableInv'
  <1>1. ring' = ring /\ nextOffset' = nextOffset /\ acked' = acked /\ minted' = minted
    BY BetweenOperations
  <1> DEFINE new == Snapshot(value, ring, p.offsetReserved)
  <1>2. CASE /\ snapshot' = new /\ Truncated
             /\ persist' = [p EXCEPT !.opsSinceSnapshot = 0]
             /\ UNCHANGED <<phase, crashes, faults, planned>>
    <2>1. persist' \in Memory(RetainedFrame)
      BY <1>2 DEF Memory
    <2>2. log' \in Seq(RetainedFrame)
      BY <1>2, EmptySeq DEF Truncated
    <2>3. snapshot'.pubs = ring
      BY <1>2, SnapshotPubs
    <2> QED
      BY <1>1, <2>1, <2>2, <2>3, DurableTaken
  <1>3. CASE /\ Fault("snapshot")
             /\ persist' = p
             /\ UNCHANGED <<phase, crashes, planned, disk, landed, durable>>
    <2>1. snapshot' = snapshot /\ log' = log /\ synced' = synced
      BY <1>3 DEF disk
    <2>2. Kept /\ log' \in Seq(RetainedFrame)
      BY <2>1, DurableBefore DEF Kept
    <2> QED
      BY <1>1, <1>3, <2>1, <2>2, DurableSteady
  <1>4. CASE /\ HalfCompacted(new)
             /\ Dies
             /\ UNCHANGED <<landed, durable, faults>>
    <2>1. log' \in Seq(RetainedFrame) /\ persist' \in Memory(RetainedFrame)
      BY <1>4, DurableBefore, RetainedFrameFacts DEF HalfCompacted, Dies
    <2>2. snapshot'.pubs = ring
      BY <1>4, SnapshotPubs DEF HalfCompacted
    <2> QED
      BY <1>1, <2>1, <2>2, DurableTaken
  <1> QED
    BY <1>2, <1>3, <1>4 DEF Compact

LEMMA DurableQuiet ==
    ASSUME DurableInv, IInv', persist' \in Memory(RetainedFrame), UNCHANGED unchangedByWrites,
           failed' = failed, UNCHANGED disk
    PROVE  DurableInv'
  <1>1. snapshot' = snapshot /\ log' = log /\ synced' = synced
    BY DEF disk
  <1>2. Kept /\ log' \in Seq(RetainedFrame)
    BY <1>1, DurableBefore DEF Kept
  <1> QED
    BY <1>1, <1>2, BetweenOperations, DurableSteady

LEMMA DurableRunCompact ==
    ASSUME DurableInv, IInv', RunCompact
    PROVE  DurableInv'
  <1> DEFINE p == [persist EXCEPT !.compactScheduled = FALSE]
  <1>1. /\ phase = "up" /\ UNCHANGED unchangedByWrites /\ failed' = failed
        /\ persist \in Memory(RetainedFrame)
    BY DurableBefore DEF RunCompact
  <1>2. p \in Memory(RetainedFrame)
    BY <1>1 DEF Memory
  <1>3. CASE persist.writing # "no"
    <2>1. persist' = [p EXCEPT !.compactAfterWrite = TRUE] /\ UNCHANGED disk
      BY <1>3 DEF RunCompact
    <2>2. persist' \in Memory(RetainedFrame)
      BY <1>2, <2>1 DEF Memory
    <2> QED
      BY <1>1, <2>1, <2>2, DurableQuiet
  <1>4. CASE persist.writing = "no"
    <2>1. Compact(p)
      BY <1>4 DEF RunCompact
    <2> HIDE DEF p
    <2> QED
      BY <1>1, <1>2, <2>1, DurableCompact
  <1> QED
    BY <1>3, <1>4

LEMMA DurableFinishClose ==
    ASSUME DurableInv, IInv', phase # "down", NEW p \in Memory(RetainedFrame), FinishClose(p),
           UNCHANGED unchangedByWrites, failed' = failed
    PROVE  DurableInv'
  <1>1. ring' = ring /\ nextOffset' = nextOffset /\ acked' = acked /\ minted' = minted
    BY BetweenOperations
  <1>2. /\ log \in Seq(RetainedFrame) /\ synced \in 0 .. Len(log) /\ Len(log) \in Nat
        /\ p.queue \in Seq(RetainedFrame) /\ p.batch \in Seq(RetainedFrame)
    BY DurableBefore DEF Memory
  <1>3. persist' \in Memory(RetainedFrame) /\ synced' = Len(log')
    <2>1. persist' = NoPersist(0)
      BY DEF FinishClose, Dies
    <2> QED
      BY <2>1, RetainedFrameFacts DEF FinishClose
  <1>4. CASE /\ Fault("snapshot")
             /\ log' \in {log \o p.queue, log \o p.queue \o p.batch}
             /\ UNCHANGED <<snapshot, planned, crashes>>
    <2>1. PICK frames \in Seq(RetainedFrame) : log' = log \o frames
      <3>1. p.queue \o p.batch \in Seq(RetainedFrame)
        BY <1>2, ConcatProperties
      <3>2. (log \o p.queue) \o p.batch = log \o (p.queue \o p.batch)
        <4> DEFINE a == p.queue
                   b == p.batch
        <4>1. log \in Seq(RetainedFrame) /\ a \in Seq(RetainedFrame) /\ b \in Seq(RetainedFrame)
          BY <1>2
        <4> HIDE DEF a, b
        <4>2. (log \o a) \o b = log \o (a \o b)
          BY <4>1, ConcatAssociative
        <4> QED
          BY <4>2 DEF a, b
      <3>3. log' = log \o p.queue \/ log' = log \o (p.queue \o p.batch)
        BY <1>4, <3>2
      <3> QED
        BY <1>2, <3>1, <3>3, Zenon
    <2>2. /\ log' \in Seq(RetainedFrame) /\ Len(log') = Len(log) + Len(frames) /\ Len(frames) \in Nat
          /\ \A i \in 1 .. Len(log) : log'[i] = log[i]
      BY <1>2, <2>1, ConcatFacts
    <2>3. Kept
      BY <1>2, <1>3, <2>2 DEF Kept
    <2> QED
      BY <1>1, <1>3, <1>4, <2>2, <2>3, DurableSteady
  <1>5. ASSUME snapshot' = Snapshot(value, ring, p.offsetReserved), log' \in Seq(RetainedFrame)
        PROVE  DurableInv'
    <2>1. snapshot'.pubs = ring
      BY <1>5, SnapshotPubs
    <2> QED
      BY <1>1, <1>3, <1>5, <2>1, DurableTaken
  <1>6. CASE /\ snapshot' = Snapshot(value, ring, p.offsetReserved)
             /\ log' \in Leftover(p)
    <2>1. log' \in Seq(RetainedFrame)
      BY <1>2, <1>6, EmptySeq DEF Leftover
    <2> QED
      BY <1>5, <1>6, <2>1
  <1>7. CASE snapshot' = Snapshot(value, ring, p.offsetReserved) /\ log' = log
    BY <1>2, <1>5, <1>7
  <1> QED
    BY <1>4, <1>6, <1>7 DEF FinishClose

LEMMA DurableWriteReturns ==
    ASSUME DurableInv, IInv', WriteReturns
    PROVE  DurableInv'
  <1> DEFINE p == [persist EXCEPT !.writing = "no", !.batch = <<>>,
                                  !.queue = persist.batch \o @, !.compactAfterWrite = FALSE]
             q == IF persist.writing = "done" THEN Drained(p) ELSE p
  <1>1. UNCHANGED unchangedByWrites /\ failed' = failed /\ phase # "down"
    BY DEF WriteReturns
  <1>2. q \in Memory(RetainedFrame)
    <2>1. persist.batch \o persist.queue \in Seq(RetainedFrame) /\ <<>> \in Seq(RetainedFrame)
      BY DurableBefore, ConcatProperties, EmptySeq
    <2>2. p \in Memory(RetainedFrame)
      BY <2>1, DurableBefore DEF Memory
    <2> HIDE DEF p
    <2> QED
      BY <2>2, DrainedFacts
  <1>3. \/ phase = "closing" /\ FinishClose(q)
        \/ phase = "up" /\ Compact(q)
        \/ /\ phase = "up" /\ persist' = q
           /\ UNCHANGED <<phase, disk, crashes, faults, landed, durable, planned>>
    BY DEF WriteReturns
  <1> HIDE DEF p, q
  <1>4. CASE phase = "closing" /\ FinishClose(q)
    BY <1>1, <1>2, <1>4, DurableFinishClose
  <1>5. CASE phase = "up" /\ Compact(q)
    BY <1>1, <1>2, <1>5, DurableCompact
  <1>6. CASE /\ phase = "up" /\ persist' = q
             /\ UNCHANGED <<phase, disk, crashes, faults, landed, durable, planned>>
    BY <1>1, <1>2, <1>6, DurableQuiet
  <1> QED
    BY <1>3, <1>4, <1>5, <1>6

LEMMA DurableClose ==
    ASSUME DurableInv, IInv', Close
    PROVE  DurableInv'
  <1>1. phase = "up" /\ UNCHANGED unchangedByWrites /\ failed' = failed
    BY DEF Close
  <1>2. persist \in Memory(RetainedFrame)
    BY DurableBefore
  <1>3. CASE persist.writing = "no"
    BY <1>1, <1>2, <1>3, DurableFinishClose DEF Close
  <1>4. CASE persist.writing # "no"
    BY <1>1, <1>2, <1>4, DurableQuiet DEF Close
  <1> QED
    BY <1>3, <1>4

LEMMA DurableWriteLands ==
    ASSUME DurableInv, IInv', WriteLands
    PROVE  DurableInv'
  <1> DEFINE b == persist.batch
  <1>1. /\ UNCHANGED unchangedByWrites /\ snapshot' = snapshot /\ synced' = synced
    BY DEF WriteLands
  <1>2. /\ log \in Seq(RetainedFrame) /\ synced \in 0 .. Len(log) /\ synced \in Nat
        /\ persist \in Memory(RetainedFrame) /\ b \in Seq(RetainedFrame)
        /\ failed \in BOOLEAN
    BY DurableBefore
  <1>3. ASSUME NEW frames \in Seq(RetainedFrame), log' = log \o frames,
               NEW w \in {"done", "error"}, NEW r \in Seq(RetainedFrame),
               persist' = [persist EXCEPT !.writing = w, !.batch = r], failed' = failed
        PROVE  DurableInv'
    <2>1. log' \in Seq(RetainedFrame) /\ Kept
      BY <1>1, <1>2, <1>3, LogExtended
    <2>2. persist' \in Memory(RetainedFrame)
      BY <1>2, <1>3 DEF Memory
    <2> QED
      BY <1>1, <1>3, <2>1, <2>2, BetweenOperations, DurableSteady
  <1>4. CASE /\ Written(b)
             /\ persist' = [persist EXCEPT !.writing = "done", !.batch = <<>>]
             /\ UNCHANGED <<faults, failed>>
    <2>1. log' = log \o b
      BY <1>4 DEF Written
    <2> QED
      BY <1>2, <1>3, <1>4, <2>1, EmptySeq
  <1>5. CASE \E i \in {j \in DOMAIN b : b[j].part = "whole"} :
               LET t == Tear(b, i)
               IN  /\ Fault("short")
                   /\ log' = log \o t.head
                   /\ persist' = [persist EXCEPT !.writing = "done", !.batch = t.rest]
                   /\ UNCHANGED <<landed, failed>>
    <2>1. PICK i \in DOMAIN b :
            /\ log' = log \o Tear(b, i).head
            /\ persist' = [persist EXCEPT !.writing = "done", !.batch = Tear(b, i).rest]
            /\ failed' = failed
      BY <1>5
    <2>2. Tear(b, i).head \in Seq(RetainedFrame) /\ Tear(b, i).rest \in Seq(RetainedFrame)
      BY <1>2, RetainedFrameFacts, TearFacts
    <2> QED
      BY <1>3, <2>1, <2>2
  <1>6. CASE /\ Fault("write") /\ failed' = TRUE
             /\ persist' = [persist EXCEPT !.writing = "error", !.batch = <<>>]
             /\ UNCHANGED <<log, landed>>
    <2>1. Kept /\ log' \in Seq(RetainedFrame)
      BY <1>1, <1>2, <1>6 DEF Kept
    <2>2. persist' \in Memory(RetainedFrame)
      BY <1>2, <1>6, EmptySeq DEF Memory
    <2>3. failed => failed'
      BY <1>6
    <2> QED
      BY <1>1, <2>1, <2>2, <2>3, BetweenOperations, DurableSteady
  <1> QED
    BY <1>4, <1>5, <1>6 DEF WriteLands

LEMMA DurableFsync ==
    ASSUME DurableInv, IInv', Fsync
    PROVE  DurableInv'
  <1>1. /\ synced < Len(log) /\ synced' = Len(log) /\ UNCHANGED unchangedByWrites
        /\ persist' = persist /\ snapshot' = snapshot /\ log' = log /\ failed' = failed
    BY DEF Fsync
  <1>2. Kept /\ log' \in Seq(RetainedFrame) /\ persist' \in Memory(RetainedFrame)
    BY <1>1, DurableBefore DEF Kept
  <1> QED
    BY <1>1, <1>2, BetweenOperations, DurableSteady

LEMMA DurableKill ==
    ASSUME DurableInv, IInv', Kill
    PROVE  DurableInv'
  <1> DEFINE b == IF persist.writing = "issued" THEN persist.batch ELSE <<>>
  <1>1. /\ Dies /\ UNCHANGED unchangedByWrites /\ snapshot' = snapshot /\ synced' = synced
        /\ failed' = failed
    BY DEF Kill
  <1>2. PICK n \in 0 .. Len(b) : log' = log \o SubSeq(b, 1, n)
    BY DEF Kill, Prefixes
  <1>3. b \in Seq(RetainedFrame)
    BY DurableBefore, EmptySeq
  <1> HIDE DEF b
  <1>4. SubSeq(b, 1, n) \in Seq(RetainedFrame)
    BY <1>3, PrefixFacts
  <1>5. log' \in Seq(RetainedFrame) /\ Kept
    BY <1>1, <1>2, <1>4, DurableBefore, LogExtended
  <1>6. persist' \in Memory(RetainedFrame)
    BY <1>1, RetainedFrameFacts DEF Dies
  <1> QED
    BY <1>1, <1>5, <1>6, BetweenOperations, DurableSteady

LEMMA DurablePowerLoss ==
    ASSUME DurableInv, IInv', PowerLoss
    PROVE  DurableInv'
  <1>1. /\ Dies /\ UNCHANGED unchangedByWrites /\ snapshot' = snapshot /\ synced' = synced
        /\ failed' = failed
    BY DEF PowerLoss
  <1>2. PICK n \in synced .. Len(log) : log' = SubSeq(log, 1, n)
    BY DEF PowerLoss
  <1>3. log \in Seq(RetainedFrame) /\ synced \in Nat /\ Len(log) \in Nat
    BY DurableBefore
  <1>4. n \in 0 .. Len(log)
    BY <1>2, <1>3
  <1>5. /\ log' \in Seq(RetainedFrame) /\ \A i \in 1 .. n : log'[i] = log[i]
    BY <1>2, <1>3, <1>4, PrefixFacts
  <1>6. Kept
    BY <1>1, <1>2, <1>3, <1>5 DEF Kept
  <1>7. persist' \in Memory(RetainedFrame)
    BY <1>1, RetainedFrameFacts DEF Dies
  <1> QED
    BY <1>1, <1>5, <1>6, <1>7, BetweenOperations, DurableSteady

\* What recovery retains without a limit is retained, or older than all that are.
LEMMA RecoveredRetained ==
    ASSUME DurableInv
    PROVE  \A i \in DOMAIN AllRecovered : Retained(AllRecovered[i])
  <1>1. IInv
    BY DEF DurableInv
  <1>2. \A x \in ToSet(snapshot.pubs) : Retained(x)
    BY DEF DurableInv, RecordsAreRetained, ToSet
  <1>3. ASSUME NEW j \in Recovered PROVE Retained(log[j].rec.offset)
    <2>1. j \in 1 .. Len(log) /\ log[j].rec.op = "pub"
      BY <1>1, ReadableFacts DEF Recovered
    <2>2. log[j] \in RetainedFrame
      BY <2>1, DurableBefore
    <2> QED
      BY <2>1, <2>2 DEF RetainedFrame
  <1>4. \A i \in DOMAIN AllRecovered :
          \/ AllRecovered[i] \in ToSet(snapshot.pubs)
          \/ \E j \in Recovered : AllRecovered[i] = log[j].rec.offset
    BY <1>1, AllRecoveredFacts
  <1> QED
    BY <1>2, <1>3, <1>4

\* What holds a message that is retained, and only messages that are or that are
\* older, has few enough newer ones: each is retained, at a place of its own.
LEMMA FewNewer ==
    ASSUME DurableInv, NEW q \in Seq(Nat), Increasing(q), \A i \in DOMAIN q : Retained(q[i]),
           NEW k \in DOMAIN q, q[k] \in ToSet(ring)
    PROVE  Len(q) - k < Retention
  <1>1. /\ Len(q) \in Nat /\ DOMAIN q = 1 .. Len(q) /\ \A i \in DOMAIN q : q[i] \in Nat
        /\ Len(ring) \in Nat /\ Len(ring) <= Retention /\ DOMAIN ring = 1 .. Len(ring)
        /\ Retention \in Nat /\ k \in 1 .. Len(q)
    <2>1. Len(ring) \in Nat /\ Len(ring) <= Retention /\ DOMAIN ring = 1 .. Len(ring)
      BY DurableBefore
    <2>2. Len(q) \in Nat /\ DOMAIN q = 1 .. Len(q) /\ \A i \in DOMAIN q : q[i] \in Nat
      BY LenProperties
    <2>3. Retention \in Nat
      BY PersistenceAssumption
    <2> QED
      BY <2>1, <2>2, <2>3, Zenon
  <1>2. ASSUME NEW j \in k .. Len(q) PROVE \E i \in 1 .. Len(ring) : ring[i] = q[j]
    <2>1. j \in DOMAIN q /\ (j = k \/ k < j)
      BY <1>1
    <2>2. q[k] <= q[j]
      BY <1>1, <2>1 DEF Increasing
    <2>3. q[j] \in ToSet(ring)
      BY <2>1, <2>2 DEF Retained, ToSet
    <2> QED
      BY <1>1, <2>3 DEF ToSet
  <1> DEFINE f == [j \in k .. Len(q) |-> CHOOSE i \in 1 .. Len(ring) : ring[i] = q[j]]
  <1>3. \A j \in k .. Len(q) : f[j] \in 1 .. Len(ring) /\ ring[f[j]] = q[j]
    BY <1>2
  <1>4. \A i, j \in k .. Len(q) : q[i] = q[j] => i = j
    <2>1. \A i, j \in k .. Len(q) : i \in DOMAIN q /\ j \in DOMAIN q /\ (i = j \/ i < j \/ j < i)
      BY <1>1
    <2>2. \A i, j \in DOMAIN q : i < j => q[i] # q[j]
      BY <1>1 DEF Increasing
    <2> QED
      BY <2>1, <2>2
  <1>5. f \in [k .. Len(q) -> 1 .. Len(ring)]
    BY <1>3
  <1> HIDE DEF f
  <1>6. f \in Injection(k .. Len(q), 1 .. Len(ring))
    <2>1. \A i, j \in k .. Len(q) : f[i] = f[j] => i = j
      BY <1>3, <1>4, Zenon
    <2> QED
      BY <1>5, <2>1, Zenon DEF Injection, IsInjective
  <1>7. /\ IsFiniteSet(1 .. Len(ring)) /\ Cardinality(1 .. Len(ring)) = Len(ring)
        /\ Cardinality(k .. Len(q)) = Len(q) - k + 1
    <2>1. /\ IsFiniteSet(1 .. Len(ring))
          /\ Cardinality(1 .. Len(ring)) = IF 1 > Len(ring) THEN 0 ELSE Len(ring) - 1 + 1
      <3>1. 1 \in Int /\ Len(ring) \in Int
        BY <1>1
      <3> QED
        BY <3>1, FS_Interval
    <2>2. k \in Int /\ Len(q) \in Int
      BY <1>1
    <2>3. Cardinality(k .. Len(q)) = IF k > Len(q) THEN 0 ELSE Len(q) - k + 1
      BY <2>2, FS_Interval
    <2> QED
      BY <1>1, <2>1, <2>3
  <1>8. Cardinality(k .. Len(q)) <= Cardinality(1 .. Len(ring))
    BY <1>6, <1>7, FS_Injection
  <1> QED
    BY <1>1, <1>7, <1>8

\* The message of a frame that is on the disk is among what recovery retains.
LEMMA AheadRecovered ==
    ASSUME IInv, LogIsWhole, NEW m \in Nat, Ahead(m)
    PROVE  m \in ToSet(AllRecovered)
  <1>1. PICK i \in 1 .. synced :
          /\ log[i].part = "whole" /\ log[i].rec.op = "pub" /\ log[i].rec.offset = m
          /\ \A j \in 1 .. i - 1 : log[j].rec.op = "pub" => log[j].rec.offset < m
    BY DEF Ahead
  <1>2. /\ i \in 1 .. Len(log) /\ i \in Nat /\ Len(log) \in Nat
        /\ \A j \in DOMAIN snapshot.pubs : snapshot.pubs[j] \in Nat /\ snapshot.pubs[j] < m
    <2>1. synced \in 0 .. Len(log) /\ Len(log) \in Nat
      BY Before DEF LogAgrees
    <2>2. \A j \in DOMAIN snapshot.pubs : snapshot.pubs[j] \in Nat /\ snapshot.pubs[j] < m
      <3>1. \A j \in DOMAIN snapshot.pubs : snapshot.pubs[j] < m
        BY DEF Ahead
      <3>2. \A j \in DOMAIN snapshot.pubs : snapshot.pubs[j] \in Nat
        <4>1. snapshot.pubs \in Seq(Nat)
          BY Before
        <4>2. \A q \in Seq(Nat) : \A j \in DOMAIN q : q[j] \in Nat
          OBVIOUS
        <4> QED
          BY <4>1, <4>2, Zenon
      <3> QED
        BY <3>1, <3>2
    <2> QED
      BY <2>1, <2>2
  <1>3. i \in Readable
    BY <1>1, <1>2, ReadableFacts
  <1>4. ~Repeats(i)
    <2>1. \A j \in DOMAIN snapshot.pubs : ~(log[i].rec.offset <= snapshot.pubs[j])
      BY <1>1, <1>2
    <2>2. ASSUME NEW j \in Readable, j < i, log[j].rec.op = "pub"
          PROVE  ~(log[i].rec.offset <= log[j].rec.offset)
      <3>1. log[j].rec.offset \in Nat /\ j \in 1 .. i - 1
        BY <1>2, <2>2, ReadFrames
      <3> QED
        BY <1>1, <2>2, <3>1
    <2> QED
      BY <2>1, <2>2 DEF Repeats
  <1>5. i \in Recovered
    BY <1>1, <1>3, <1>4 DEF Recovered
  <1> QED
    BY <1>1, <1>5, AllRecoveredFacts

\* Recovery brings back the acked messages that retention has not dropped.
LEMMA Survives ==
    ASSUME DurableInv, ~failed, LogIsWhole
    PROVE  ToSet(ring) \cap acked \subseteq ToSet(RecoveredRing)
  <1> SUFFICES ASSUME NEW m \in ToSet(ring) \cap acked
               PROVE  m \in ToSet(RecoveredRing)
    OBVIOUS
  <1>1. IInv /\ m \in Nat
    BY DurableBefore
  <1>2. /\ AllRecovered \in Seq(Nat) /\ Increasing(AllRecovered)
        /\ RecoveredRing = Retain(AllRecovered)
    BY <1>1, AllRecoveredFacts DEF RecoveredRing, AllRecovered
  <1>3. m \in ToSet(AllRecovered)
    <2>1. m \in ToSet(snapshot.pubs) \/ Ahead(m)
      BY DEF DurableInv, AckedOnDisk
    <2>2. CASE m \in ToSet(snapshot.pubs)
      BY <1>1, <2>2, AllRecoveredFacts
    <2>3. CASE Ahead(m)
      BY <1>1, <2>3, AheadRecovered
    <2> QED
      BY <2>1, <2>2, <2>3
  <1>4. PICK k \in DOMAIN AllRecovered : AllRecovered[k] = m
    BY <1>3 DEF ToSet
  <1>5. \A i \in DOMAIN AllRecovered : Retained(AllRecovered[i])
    BY RecoveredRetained
  <1>6. Len(AllRecovered) - k < Retention
    BY <1>2, <1>4, <1>5, FewNewer
  <1> QED
    BY <1>2, <1>4, <1>6, RetainFacts

LEMMA DurableLoad ==
    ASSUME DurableInv, IInv', Load
    PROVE  DurableInv'
  <1>1. IInv
    BY DEF DurableInv
  <1>2. /\ snapshot'.pubs = RecoveredRing /\ acked' = acked /\ minted' = minted
        /\ failed' = (failed \/ ~LogIsWhole)
    BY <1>1, RecoveredSnapshot DEF Load
  <1>3. /\ AllRecovered \in Seq(Nat) /\ Increasing(AllRecovered)
        /\ RecoveredRing = Retain(AllRecovered)
    BY <1>1, AllRecoveredFacts DEF RecoveredRing, AllRecovered
  <1>4. AckedWereMinted'
    BY <1>2 DEF DurableInv, AckedWereMinted
  <1>5. CASE /\ ring' = RecoveredRing /\ nextOffset' = RecoveredOffset
             /\ persist' = NoPersist(RecoveredOffset) /\ log' = <<>>
    <2>1. Len(ring') <= Retention
      BY <1>3, <1>5, RetainFacts
    <2>2. \A i \in DOMAIN snapshot'.pubs : Retained(snapshot.pubs[i])'
      <3>1. \A i \in DOMAIN RecoveredRing : /\ RecoveredRing[i] <= RecoveredOffset
                                            /\ RecoveredRing[i] \in ToSet(RecoveredRing)
        BY <1>1, RingFacts DEF ToSet
      <3> QED
        BY <1>2, <1>5, <3>1 DEF Retained
    <2>3. log' \in Seq(RetainedFrame') /\ persist' \in Memory(RetainedFrame')
      <3>1. RecoveredOffset \in Nat
        BY <1>1, OffsetFacts
      <3> QED
        BY <1>5, <3>1, EmptySeq, NoPersistFacts
    <2>4. RecordsAreRetained'
      BY <2>1, <2>2, <2>3 DEF RecordsAreRetained
    <2>5. AckedOnDisk'
      BY <1>2, <1>5 DEF AckedOnDisk
    <2> QED
      BY <1>4, <2>4, <2>5 DEF DurableInv
  <1>6. CASE Dies /\ UNCHANGED <<ring, nextOffset, log, synced>>
    <2>1. RetainedFrame' = RetainedFrame /\ \A x : Retained(x) => Retained(x)'
      BY <1>6 DEF RetainedFrame, Retained
    <2>2. \A i \in DOMAIN snapshot'.pubs : Retained(snapshot.pubs[i])'
      <3>1. \A i \in DOMAIN RecoveredRing : \E j \in DOMAIN AllRecovered :
              RecoveredRing[i] = AllRecovered[j]
        BY <1>3, RetainFacts
      <3>2. \A i \in DOMAIN RecoveredRing : Retained(RecoveredRing[i])
        BY <3>1, RecoveredRetained
      <3> QED
        BY <1>2, <1>6, <3>2 DEF Retained
    <2>3. log' \in Seq(RetainedFrame') /\ persist' \in Memory(RetainedFrame')
      BY <1>6, <2>1, DurableBefore, RetainedFrameFacts DEF Dies
    <2>4. Len(ring') <= Retention
      BY <1>6, DurableBefore
    <2>5. RecordsAreRetained'
      BY <2>2, <2>3, <2>4 DEF RecordsAreRetained
    <2>6. AckedOnDisk'
      <3>1. ~failed' => ToSet(ring) \cap acked \subseteq ToSet(RecoveredRing)
        BY <1>2, Survives
      <3> QED
        BY <1>2, <1>6, <3>1 DEF AckedOnDisk
    <2> QED
      BY <1>4, <2>5, <2>6 DEF DurableInv
  <1> QED
    BY <1>5, <1>6 DEF Load

LEMMA DurableLapse ==
    ASSUME DurableInv, IInv', Lapse
    PROVE  DurableInv'
  <1>1. /\ ring' = ring /\ nextOffset' = nextOffset /\ acked' = acked /\ minted' = minted
        /\ snapshot' = snapshot /\ log' = log /\ synced' = synced /\ persist' = persist
        /\ failed' = failed
    BY DEF Lapse, disk, ghost
  <1>2. Kept /\ log' \in Seq(RetainedFrame) /\ persist' \in Memory(RetainedFrame)
    BY <1>1, DurableBefore DEF Kept
  <1> QED
    BY <1>1, <1>2, DurableSteady

LEMMA DurableStutter ==
    ASSUME DurableInv, IInv', UNCHANGED vars
    PROVE  DurableInv'
  <1>1. /\ ring' = ring /\ nextOffset' = nextOffset /\ acked' = acked /\ minted' = minted
        /\ snapshot' = snapshot /\ log' = log /\ synced' = synced /\ persist' = persist
        /\ failed' = failed
    BY DEF vars, disk, ghost
  <1>2. Kept /\ log' \in Seq(RetainedFrame) /\ persist' \in Memory(RetainedFrame)
    BY <1>1, DurableBefore DEF Kept
  <1> QED
    BY <1>1, <1>2, DurableSteady

LEMMA DurableNext ==
    ASSUME DurableInv, [Next]_vars
    PROVE  DurableInv'
  <1>1. IInv /\ IInv'
    BY NextStep DEF DurableInv
  <1>2. CASE \/ \E k \in Key : Set(k) \/ Update(k) \/ Delete(k)
             \/ Clear
    BY <1>1, <1>2, Mutations, DurableMutate
  <1>3. CASE \E sync \in BOOLEAN : Publish(sync)
    BY <1>1, <1>3, DurablePublish
  <1>4. CASE RunCompact \/ WriteLands \/ WriteReturns \/ Fsync \/ Lapse
    BY <1>1, <1>4, DurableRunCompact, DurableWriteLands, DurableWriteReturns, DurableFsync, DurableLapse
  <1>5. CASE Close \/ Kill \/ PowerLoss \/ Load
    BY <1>1, <1>5, DurableClose, DurableKill, DurablePowerLoss, DurableLoad
  <1>6. CASE UNCHANGED vars
    BY <1>1, <1>6, DurableStutter
  <1> QED
    BY <1>2, <1>3, <1>4, <1>5, <1>6 DEF Next

LEMMA InitDurable == Init => DurableInv
  <1> SUFFICES ASSUME Init PROVE DurableInv
    OBVIOUS
  <1>1. /\ ring = <<>> /\ log = <<>> /\ snapshot.pubs = <<>> /\ acked = {}
        /\ persist = NoPersist(0)
    BY DEF Init
  <1>2. Len(ring) <= Retention /\ DOMAIN snapshot.pubs = {}
    BY <1>1, PersistenceAssumption
  <1>3. log \in Seq(RetainedFrame) /\ persist \in Memory(RetainedFrame)
    BY <1>1, EmptySeq, RetainedFrameFacts
  <1> QED
    BY <1>1, <1>2, <1>3, InitIInv DEF DurableInv, RecordsAreRetained, AckedOnDisk, AckedWereMinted

\* The log and the snapshot hold between them every acked message that is retained,
\* and nothing newer than what retention keeps that would push it out.
THEOREM DurableInductive == Spec => []DurableInv
  <1>1. Init => DurableInv
    BY InitDurable
  <1>2. DurableInv /\ [Next]_vars => DurableInv'
    BY DurableNext
  <1> QED
    BY <1>1, <1>2, PTL DEF Spec

\* A broker that is down does nothing but recover.
LEMMA OnlyLoadRecovers ==
    ASSUME IInv, Next, phase = "down", phase' = "up"
    PROVE  Load
  <1>1. persist.writing = "no"
    BY DEF IInv, WritesWhileUp
  <1>2. CASE \/ \E k \in Key : Set(k) \/ Update(k) \/ Delete(k)
             \/ Clear
    <2>1. \E store, rec : Mutation(store, rec)
      BY <1>2, Mutations
    <2> QED
      BY <2>1 DEF Mutation, Mutate, Operation
  <1>3. CASE \E sync \in BOOLEAN : Publish(sync)
    BY <1>3 DEF Publish, Operation
  <1>4. CASE RunCompact \/ Fsync \/ Close
    BY <1>4 DEF RunCompact, Fsync, Close
  <1>5. CASE WriteLands \/ WriteReturns
    BY <1>1, <1>5 DEF WriteLands, WriteReturns
  <1>6. CASE Lapse
    BY <1>6 DEF Lapse
  <1>7. CASE Kill \/ PowerLoss
    BY <1>7 DEF Kill, PowerLoss
  <1> QED
    BY <1>2, <1>3, <1>4, <1>5, <1>6, <1>7 DEF Next

\* A message published with acks "all" is there again after any crash, any restart and
\* any crash of recovery, as long as the writes of the log succeed: only retention
\* drops it.
THEOREM AckedSurvive == Spec => AckedMessagesSurvive
  <1>1. ASSUME DurableInv, [Next]_vars
        PROVE  [Recovers /\ ~failed' => ToSet(ring) \cap acked \subseteq ToSet(ring')]_vars
    <2> SUFFICES ASSUME Next, phase = "down", phase' = "up", ~failed'
                 PROVE  ToSet(ring) \cap acked \subseteq ToSet(ring')
      BY <1>1 DEF Recovers
    <2>1. Load
      BY <1>1, OnlyLoadRecovers DEF DurableInv
    <2>2. ring' = RecoveredRing /\ ~failed /\ LogIsWhole
      BY <2>1 DEF Load, Dies
    <2> QED
      BY <1>1, <2>2, Survives
  <1> QED
    BY <1>1, DurableInductive, PTL DEF Spec, AckedMessagesSurvive

-----------------------------------------------------------------------------
(* The mutations on record: whole frames and halves, in order.             *)

\* A frame that holds the record of a mutation: the head of one that was torn does not.
Mutates(f) == f.part # "head" /\ f.rec.at > 0

\* The mutations that the frames s record.
Ats(s) == {s[i].rec.at : i \in {j \in DOMAIN s : Mutates(s[j])}}

Ordered(s) ==
    \A i, j \in DOMAIN s :
        i < j /\ Mutates(s[i]) /\ Mutates(s[j]) => s[i].rec.at < s[j].rec.at

Precede(S, T) == \A x \in S, y \in T : x < y

LEMMA AtsFacts ==
    ASSUME NEW S, NEW s \in Seq(S)
    PROVE  /\ \A i \in 1 .. Len(s) : Mutates(s[i]) => s[i].rec.at \in Ats(s)
           /\ \A x \in Ats(s) : \E i \in 1 .. Len(s) : Mutates(s[i]) /\ s[i].rec.at = x
  <1>1. DOMAIN s = 1 .. Len(s)
    BY LenProperties
  <1> QED
    BY <1>1 DEF Ats

LEMMA AtsNat ==
    ASSUME NEW S, S \subseteq Frame, NEW s \in Seq(S)
    PROVE  Ats(s) \subseteq Nat \ {0} /\ \A i \in 1 .. Len(s) : s[i] \in S /\ s[i].rec.at \in Nat
  <1>1. \A i \in 1 .. Len(s) : s[i] \in S
    BY ElementOfSeq
  <1>2. \A i \in 1 .. Len(s) : s[i].rec.at \in Nat
    BY <1>1, FrameFacts, RecordFacts
  <1>3. \A x \in Ats(s) : \E i \in 1 .. Len(s) : s[i].rec.at > 0 /\ s[i].rec.at = x
    BY AtsFacts DEF Mutates
  <1> QED
    BY <1>1, <1>2, <1>3

LEMMA AtsConcat ==
    ASSUME NEW S, NEW s \in Seq(S), NEW t \in Seq(S)
    PROVE  Ats(s \o t) = Ats(s) \cup Ats(t)
  <1>1. /\ s \o t \in Seq(S) /\ Len(s \o t) = Len(s) + Len(t)
        /\ Len(s) \in Nat /\ Len(t) \in Nat
        /\ \A i \in 1 .. Len(s) : (s \o t)[i] = s[i]
        /\ \A i \in 1 .. Len(t) : (s \o t)[Len(s) + i] = t[i]
    BY ConcatFacts
  <1> DEFINE u == s \o t
  <1> HIDE DEF u
  <1>2. \A i \in 1 .. Len(u) : i \in 1 .. Len(s) \/ \E j \in 1 .. Len(t) : i = Len(s) + j
    <2> SUFFICES ASSUME NEW i \in 1 .. Len(u), i \notin 1 .. Len(s)
                 PROVE  \E j \in 1 .. Len(t) : i = Len(s) + j
      OBVIOUS
    <2>1. i - Len(s) \in 1 .. Len(t) /\ i = Len(s) + (i - Len(s))
      BY <1>1 DEF u
    <2> QED
      BY <2>1
  <1>3. ASSUME NEW x \in Ats(u)
        PROVE  x \in Ats(s) \cup Ats(t)
    <2>1. PICK i \in 1 .. Len(u) : Mutates(u[i]) /\ u[i].rec.at = x
      BY <1>1, <1>3, AtsFacts DEF u
    <2>2. CASE i \in 1 .. Len(s)
      BY <1>1, <2>1, <2>2, AtsFacts DEF u
    <2>3. CASE \E j \in 1 .. Len(t) : i = Len(s) + j
      BY <1>1, <2>1, <2>3, AtsFacts DEF u
    <2> QED
      BY <1>2, <2>2, <2>3
  <1>4. ASSUME NEW x \in Ats(s)
        PROVE  x \in Ats(u)
    <2>1. PICK i \in 1 .. Len(s) : Mutates(s[i]) /\ s[i].rec.at = x
      BY <1>4, AtsFacts
    <2>2. i \in 1 .. Len(u) /\ u[i] = s[i] /\ u \in Seq(S)
      BY <1>1 DEF u
    <2> QED
      BY <2>1, <2>2, AtsFacts
  <1>5. ASSUME NEW x \in Ats(t)
        PROVE  x \in Ats(u)
    <2>1. PICK i \in 1 .. Len(t) : Mutates(t[i]) /\ t[i].rec.at = x
      BY <1>5, AtsFacts
    <2>2. Len(s) + i \in 1 .. Len(u) /\ u[Len(s) + i] = t[i] /\ u \in Seq(S)
      BY <1>1 DEF u
    <2> QED
      BY <2>1, <2>2, AtsFacts
  <1> QED
    BY <1>3, <1>4, <1>5 DEF u

LEMMA OrderedConcat ==
    ASSUME NEW S, NEW s \in Seq(S), NEW t \in Seq(S)
    PROVE  Ordered(s \o t) <=> Ordered(s) /\ Ordered(t) /\ Precede(Ats(s), Ats(t))
  <1> DEFINE u == s \o t
             Up(q, i, j) == Mutates(q[i]) /\ Mutates(q[j]) => q[i].rec.at < q[j].rec.at
  <1>1. /\ u \in Seq(S) /\ Len(u) = Len(s) + Len(t)
        /\ Len(s) \in Nat /\ Len(t) \in Nat
        /\ \A i \in 1 .. Len(s) : u[i] = s[i]
        /\ \A i \in 1 .. Len(t) : u[Len(s) + i] = t[i]
    BY ConcatFacts
  <1> HIDE DEF u
  <1>2. ASSUME NEW q \in Seq(S)
        PROVE  Ordered(q) <=> \A i, j \in 1 .. Len(q) : i < j => Up(q, i, j)
    <2>1. DOMAIN q = 1 .. Len(q)
      BY LenProperties
    <2> QED
      BY <2>1 DEF Ordered
  <1>3. ASSUME Ordered(u)
        PROVE  Ordered(s) /\ Ordered(t) /\ Precede(Ats(s), Ats(t))
    <2>1. \A i, j \in 1 .. Len(u) : i < j => Up(u, i, j)
      BY <1>1, <1>2, <1>3
    <2>2. \A i, j \in 1 .. Len(s) : i < j => Up(s, i, j)
      BY <1>1, <2>1
    <2>3. \A i, j \in 1 .. Len(t) : i < j => Up(t, i, j)
      <3> TAKE i, j \in 1 .. Len(t)
      <3>1. /\ Len(s) + i \in 1 .. Len(u) /\ Len(s) + j \in 1 .. Len(u)
            /\ i < j => Len(s) + i < Len(s) + j
        BY <1>1
      <3> QED
        BY <1>1, <2>1, <3>1
    <2>4. Precede(Ats(s), Ats(t))
      <3> SUFFICES ASSUME NEW x \in Ats(s), NEW y \in Ats(t)
                   PROVE  x < y
        BY DEF Precede
      <3>1. PICK i \in 1 .. Len(s) : Mutates(s[i]) /\ s[i].rec.at = x
        BY AtsFacts
      <3>2. PICK j \in 1 .. Len(t) : Mutates(t[j]) /\ t[j].rec.at = y
        BY AtsFacts
      <3>3. i \in 1 .. Len(u) /\ Len(s) + j \in 1 .. Len(u) /\ i < Len(s) + j
        BY <1>1
      <3> QED
        BY <1>1, <2>1, <3>1, <3>2, <3>3
    <2> QED
      BY <1>2, <2>2, <2>3, <2>4
  <1>4. ASSUME Ordered(s), Ordered(t), Precede(Ats(s), Ats(t))
        PROVE  Ordered(u)
    <2> SUFFICES ASSUME NEW i \in 1 .. Len(u), NEW j \in 1 .. Len(u), i < j
                 PROVE  Up(u, i, j)
      BY <1>1, <1>2
    <2>1. CASE j \in 1 .. Len(s)
      <3>1. i \in 1 .. Len(s)
        BY <1>1, <2>1
      <3> QED
        BY <1>1, <1>2, <1>4, <2>1, <3>1
    <2>2. CASE i \in 1 .. Len(s) /\ j \notin 1 .. Len(s)
      <3> DEFINE m == j - Len(s)
      <3>1. m \in 1 .. Len(t) /\ j = Len(s) + m
        BY <1>1, <2>2
      <3> HIDE DEF m
      <3>2. u[i] = s[i] /\ u[j] = t[m]
        BY <1>1, <2>2, <3>1
      <3>3. Mutates(s[i]) /\ Mutates(t[m]) => s[i].rec.at < t[m].rec.at
        BY <1>4, <2>2, <3>1, AtsFacts DEF Precede
      <3> QED
        BY <3>2, <3>3
    <2>3. CASE i \notin 1 .. Len(s)
      <3> DEFINE l == i - Len(s)
                 m == j - Len(s)
      <3>1. l \in 1 .. Len(t) /\ m \in 1 .. Len(t) /\ i = Len(s) + l /\ j = Len(s) + m /\ l < m
        BY <1>1, <2>3
      <3> HIDE DEF l, m
      <3>2. u[i] = t[l] /\ u[j] = t[m]
        BY <1>1, <3>1
      <3>3. Up(t, l, m)
        BY <1>2, <1>4, <3>1
      <3> QED
        BY <3>2, <3>3
    <2> QED
      BY <2>1, <2>2, <2>3
  <1> QED
    BY <1>3, <1>4 DEF u

LEMMA AtsPrefix ==
    ASSUME NEW S, S \subseteq Frame, NEW s \in Seq(S), Ordered(s), NEW n \in 0 .. Len(s)
    PROVE  LET p == SubSeq(s, 1, n)
           IN  /\ Ordered(p) /\ Ats(p) \subseteq Ats(s)
               /\ \A x \in Ats(p), y \in Ats(s) : y <= x => y \in Ats(p)
  <1> DEFINE p == SubSeq(s, 1, n)
  <1>1. /\ p \in Seq(S) /\ Len(p) = n /\ \A i \in 1 .. n : p[i] = s[i]
    BY PrefixFacts
  <1>2. Len(s) \in Nat /\ DOMAIN s = 1 .. Len(s) /\ DOMAIN p = 1 .. n /\ n \in Nat
    BY <1>1, LenProperties
  <1> HIDE DEF p
  <1>3. Ordered(p)
    BY <1>1, <1>2 DEF Ordered
  <1>4. Ats(p) \subseteq Ats(s)
    BY <1>1, <1>2, AtsFacts
  <1>5. ASSUME NEW x \in Ats(p), NEW y \in Ats(s), y <= x
        PROVE  y \in Ats(p)
    <2>1. PICK i \in 1 .. n : Mutates(p[i]) /\ p[i].rec.at = x
      BY <1>1, AtsFacts
    <2>2. PICK j \in 1 .. Len(s) : Mutates(s[j]) /\ s[j].rec.at = y
      BY AtsFacts
    <2>3. x \in Nat /\ y \in Nat
      BY <1>4, AtsNat
    <2>4. j <= n
      BY <1>1, <1>2, <1>5, <2>1, <2>2, <2>3 DEF Ordered
    <2> QED
      BY <1>1, <1>2, <2>2, <2>4, AtsFacts
  <1> QED
    BY <1>3, <1>4, <1>5 DEF p

LEMMA Associative ==
    ASSUME NEW S, NEW s \in Seq(S), NEW t \in Seq(S), NEW u \in Seq(S)
    PROVE  (s \o t) \o u = s \o (t \o u)
  <1>1. (s \o t) \o u \in Seq(S) /\ s \o (t \o u) \in Seq(S)
    BY ConcatProperties
  <1>2. Len((s \o t) \o u) = Len(s \o (t \o u))
    BY ConcatProperties, LenProperties
  <1> QED
    BY <1>1, <1>2, SeqEqual

LEMMA NoAts == Ats(<<>>) = {} /\ Ordered(<<>>)
  BY DEF Ats, Ordered

LEMMA OneAt ==
    ASSUME NEW f
    PROVE  /\ Ats(<<f>>) = IF Mutates(f) THEN {f.rec.at} ELSE {}
           /\ Ordered(<<f>>)
  <1>1. DOMAIN <<f>> = {1} /\ <<f>>[1] = f
    OBVIOUS
  <1> QED
    BY <1>1 DEF Ats, Ordered

\* The mutations whose record has lost its head: what is left of it is read as nothing.
Headed(s, j) == \E h \in 1 .. j - 1 : s[h] = [s[j] EXCEPT !.part = "head"]
Bare(s) ==
    {s[i].rec.at : i \in {j \in DOMAIN s : s[j].part = "rest" /\ s[j].rec.at > 0 /\ ~Headed(s, j)}}

\* Frames of t that are halves are those of s, with as much before them.
Inherits(t, s) ==
    \A j \in 1 .. Len(t) :
        t[j].part = "rest" /\ t[j].rec.at > 0 =>
            \/ Headed(t, j)
            \/ \E i \in 1 .. Len(s) :
                 /\ s[i] = t[j]
                 /\ \A g \in 1 .. i - 1 : s[g].part = "head" => \E h \in 1 .. j - 1 : t[h] = s[g]

LEMMA BareFacts ==
    ASSUME NEW S, S \subseteq Frame, NEW s \in Seq(S), NEW t \in Seq(S), Inherits(t, s)
    PROVE  Bare(t) \subseteq Bare(s)
  <1>1. DOMAIN s = 1 .. Len(s) /\ DOMAIN t = 1 .. Len(t)
    BY LenProperties
  <1> SUFFICES ASSUME NEW j \in 1 .. Len(t), t[j].part = "rest", t[j].rec.at > 0, ~Headed(t, j)
               PROVE  t[j].rec.at \in Bare(s)
    BY <1>1 DEF Bare
  <1>2. PICK i \in 1 .. Len(s) :
           /\ s[i] = t[j]
           /\ \A g \in 1 .. i - 1 : s[g].part = "head" => \E h \in 1 .. j - 1 : t[h] = s[g]
    BY DEF Inherits
  <1>3. ~Headed(s, i)
    <2> SUFFICES ASSUME NEW g \in 1 .. i - 1, s[g] = [s[i] EXCEPT !.part = "head"]
                 PROVE  FALSE
      BY DEF Headed
    <2>1. s[i] \in Frame
      BY ElementOfSeq
    <2>2. s[g].part = "head"
      BY <2>1 DEF Frame
    <2>3. PICK h \in 1 .. j - 1 : t[h] = s[g]
      BY <1>2, <2>2
    <2>4. t[h] = [t[j] EXCEPT !.part = "head"]
      BY <1>2, <2>3
    <2> QED
      BY <2>4 DEF Headed
  <1> QED
    BY <1>1, <1>2, <1>3 DEF Bare

\* A prefix has the halves it has.
LEMMA BarePrefix ==
    ASSUME NEW S, S \subseteq Frame, NEW s \in Seq(S), NEW n \in 0 .. Len(s)
    PROVE  Bare(SubSeq(s, 1, n)) \subseteq Bare(s)
  <1> DEFINE p == SubSeq(s, 1, n)
  <1>1. p \in Seq(S) /\ Len(p) = n /\ Len(s) \in Nat /\ \A i \in 1 .. n : p[i] = s[i]
    BY PrefixFacts, LenProperties
  <1> HIDE DEF p
  <1>2. \A j \in 1 .. Len(p) :
          /\ j \in 1 .. Len(s) /\ s[j] = p[j]
          /\ \A g \in 1 .. j - 1 : p[g] = s[g]
    BY <1>1
  <1>3. Inherits(p, s)
    BY <1>2 DEF Inherits
  <1>4. p \in Seq(S)
    BY <1>1
  <1> QED
    BY <1>3, <1>4, BareFacts DEF p

\* Frames that record no mutation.
Still(s) == \A i \in DOMAIN s : s[i].rec.at = 0

LEMMA StillFacts ==
    ASSUME NEW S, NEW s \in Seq(S), Still(s)
    PROVE  Ats(s) = {} /\ Ordered(s)
  BY LenProperties, AtsFacts DEF Still, Mutates, Ordered

\* The frames w hold the records that v holds.
SameRecords(w, v) ==
    Ats(w) = Ats(v) /\ (Ordered(v) => Ordered(w)) /\ Bare(w) \subseteq Bare(v)

\* Frames between those of s that record no mutation make no difference.
LEMMA Inserted ==
    ASSUME NEW S, S \subseteq Frame, NEW s \in Seq(S), NEW f \in Seq(S), NEW t \in Seq(S), Still(f)
    PROVE  SameRecords((s \o f) \o t, s \o t)
  <1> DEFINE u == s \o f
             v == s \o t
             w == u \o t
  <1>1. /\ u \in Seq(S) /\ Len(u) = Len(s) + Len(f) /\ Len(s) \in Nat /\ Len(f) \in Nat
        /\ \A i \in 1 .. Len(s) : u[i] = s[i]
        /\ \A i \in 1 .. Len(f) : u[Len(s) + i] = f[i]
    BY ConcatFacts
  <1>2. /\ v \in Seq(S) /\ Len(v) = Len(s) + Len(t) /\ Len(t) \in Nat
        /\ \A i \in 1 .. Len(s) : v[i] = s[i]
        /\ \A i \in 1 .. Len(t) : v[Len(s) + i] = t[i]
    BY ConcatFacts
  <1>3. Ats(f) = {} /\ Ordered(f) /\ Ats(u) = Ats(s) \cup Ats(f) /\ Ats(v) = Ats(s) \cup Ats(t)
    BY StillFacts, AtsConcat
  <1>4. Ordered(v) => Ordered(s) /\ Ordered(t) /\ Precede(Ats(s), Ats(t))
    BY OrderedConcat
  <1>5. Ordered(u) <=> Ordered(s) /\ Ordered(f) /\ Precede(Ats(s), Ats(f))
    BY OrderedConcat
  <1> HIDE DEF u, v
  <1>6. u \in Seq(S) /\ v \in Seq(S)
    BY <1>1, <1>2
  <1>7. /\ w \in Seq(S) /\ Len(w) = Len(u) + Len(t)
        /\ \A i \in 1 .. Len(u) : w[i] = u[i]
        /\ \A i \in 1 .. Len(t) : w[Len(u) + i] = t[i]
    BY <1>6, ConcatFacts
  <1>8. /\ Ats(w) = Ats(u) \cup Ats(t)
        /\ Ordered(w) <=> Ordered(u) /\ Ordered(t) /\ Precede(Ats(u), Ats(t))
    BY <1>6, AtsConcat, OrderedConcat
  <1> HIDE DEF w
  <1>9. Ats(w) = Ats(v)
    BY <1>3, <1>8
  <1>10. Ordered(v) => Ordered(w)
    BY <1>3, <1>4, <1>5, <1>8 DEF Precede
  <1>11. \A i \in 1 .. Len(s) : i \in 1 .. Len(v) /\ v[i] = s[i] /\ i \in 1 .. Len(w) /\ w[i] = s[i]
    BY <1>1, <1>2, <1>7
  <1>12. ASSUME NEW j \in 1 .. Len(w), w[j].part = "rest", w[j].rec.at > 0
         PROVE  \E i \in 1 .. Len(v) :
                  /\ v[i] = w[j]
                  /\ \A g \in 1 .. i - 1 : v[g].part = "head" => \E h \in 1 .. j - 1 : w[h] = v[g]
    <2>1. CASE j \in 1 .. Len(s)
      <3>1. \A g \in 1 .. j - 1 : v[g] = w[g]
        BY <1>1, <1>11, <2>1
      <3> QED
        BY <1>11, <2>1, <3>1
    <2>2. CASE j \in Len(s) + 1 .. Len(u)
      <3> DEFINE m == j - Len(s)
      <3>1. m \in 1 .. Len(f) /\ j = Len(s) + m
        BY <1>1, <2>2
      <3> HIDE DEF m
      <3>2. w[j] = f[m] /\ DOMAIN f = 1 .. Len(f)
        BY <1>1, <1>7, <2>2, <3>1, LenProperties
      <3> QED
        BY <1>12, <3>1, <3>2 DEF Still
    <2>3. CASE j \in Len(u) + 1 .. Len(w)
      <3> DEFINE m == j - Len(u)
      <3>1. m \in 1 .. Len(t) /\ j = Len(u) + m
        BY <1>1, <1>2, <1>7, <2>3
      <3> HIDE DEF m
      <3> DEFINE i == Len(s) + m
      <3>2. i \in 1 .. Len(v) /\ v[i] = w[j]
        BY <1>1, <1>2, <1>7, <3>1
      <3>3. ASSUME NEW g \in 1 .. i - 1, v[g].part = "head"
            PROVE  \E h \in 1 .. j - 1 : w[h] = v[g]
        <4>1. CASE g \in 1 .. Len(s)
          <5>1. g \in 1 .. j - 1
            BY <1>1, <3>1, <4>1
          <5> QED
            BY <1>11, <4>1, <5>1
        <4>2. CASE g \notin 1 .. Len(s)
          <5> DEFINE l == g - Len(s)
          <5>1. l \in 1 .. Len(t) /\ l < m /\ g = Len(s) + l
            BY <1>1, <1>2, <3>1, <4>2
          <5> HIDE DEF l
          <5>2. Len(u) + l \in 1 .. j - 1
            <6>1. Len(u) \in Nat /\ l \in Nat /\ l > 0 /\ m \in Nat /\ l < m /\ j = Len(u) + m
              BY <1>1, <1>2, <3>1, <5>1
            <6> QED
              BY <6>1
          <5>3. w[Len(u) + l] = t[l] /\ v[g] = t[l]
            BY <1>2, <1>7, <5>1
          <5> QED
            BY <5>2, <5>3
        <4> QED
          BY <4>1, <4>2
      <3> HIDE DEF i
      <3> QED
        BY <3>2, <3>3
    <2>4. j \in 1 .. Len(s) \/ j \in Len(s) + 1 .. Len(u) \/ j \in Len(u) + 1 .. Len(w)
      BY <1>1, <1>7
    <2> QED
      BY <2>1, <2>2, <2>3, <2>4
  <1>13. Bare(w) \subseteq Bare(v)
    <2>1. Inherits(w, v)
      BY <1>12 DEF Inherits
    <2>2. w \in Seq(S)
      BY <1>7
    <2> QED
      BY <1>6, <2>1, <2>2, BareFacts
  <1> QED
    BY <1>9, <1>10, <1>13 DEF SameRecords, u, v, w

\* The halves of a whole frame.
Halves(f, h, r) ==
    f.part = "whole" /\ h = [f EXCEPT !.part = "head"] /\ r = [f EXCEPT !.part = "rest"]

\* Nor does the end of a write inside frame f.
LEMMA TornInTwo ==
    ASSUME NEW S, S \subseteq Frame, NEW s \in Seq(S), NEW t \in Seq(S),
           NEW f \in S, NEW h \in S, NEW r \in S, Halves(f, h, r)
    PROVE  SameRecords((s \o <<h>>) \o (<<r>> \o t), s \o (<<f>> \o t))
  <1> DEFINE a == <<f>>
             b == <<h>>
             c == <<r>>
             u == a \o t
             v == s \o u
             x == s \o b
             y == c \o t
             w == x \o y
  <1>1. /\ h.rec = f.rec /\ h.part = "head" /\ r.rec = f.rec /\ r.part = "rest"
        /\ [r EXCEPT !.part = "head"] = h /\ (Mutates(r) <=> Mutates(f)) /\ ~Mutates(h)
    BY DEF Frame, Mutates, Halves
  <1>2. /\ Ats(a) = Ats(c) /\ Ats(b) = {} /\ Ordered(a) /\ Ordered(b) /\ Ordered(c)
    <2>1. Ordered(a) /\ Ordered(b) /\ Ordered(c)
      BY OneAt
    <2>2. Ats(b) = {}
      BY <1>1, OneAt
    <2>3. /\ Ats(a) = IF Mutates(f) THEN {f.rec.at} ELSE {}
          /\ Ats(c) = IF Mutates(r) THEN {r.rec.at} ELSE {}
      BY OneAt
    <2>4. r.rec.at = f.rec.at /\ (Mutates(r) <=> Mutates(f))
      BY <1>1
    <2> HIDE DEF a, c
    <2>5. Ats(a) = Ats(c)
      BY <2>3, <2>4
    <2> QED
      BY <2>1, <2>2, <2>5
  <1>3. a \in Seq(S) /\ b \in Seq(S) /\ c \in Seq(S)
    OBVIOUS
  <1>4. /\ Len(a) = 1 /\ Len(b) = 1 /\ Len(c) = 1 /\ a[1] = f /\ b[1] = h /\ c[1] = r
        /\ Len(s) \in Nat /\ Len(t) \in Nat
    BY LenProperties
  <1> HIDE DEF a, b, c
  <1>5. u \in Seq(S) /\ x \in Seq(S) /\ y \in Seq(S)
    BY <1>3, ConcatProperties
  <1>6. /\ Len(u) = Len(a) + Len(t) /\ \A i \in 1 .. Len(a) : u[i] = a[i]
        /\ \A i \in 1 .. Len(t) : u[Len(a) + i] = t[i]
        /\ Ats(u) = Ats(a) \cup Ats(t)
        /\ Ordered(u) <=> Ordered(a) /\ Ordered(t) /\ Precede(Ats(a), Ats(t))
    BY <1>3, ConcatFacts, AtsConcat, OrderedConcat
  <1>7. /\ Len(x) = Len(s) + Len(b) /\ \A i \in 1 .. Len(s) : x[i] = s[i]
        /\ \A i \in 1 .. Len(b) : x[Len(s) + i] = b[i]
        /\ Ats(x) = Ats(s) \cup Ats(b)
        /\ Ordered(x) <=> Ordered(s) /\ Ordered(b) /\ Precede(Ats(s), Ats(b))
    BY <1>3, ConcatFacts, AtsConcat, OrderedConcat
  <1>8. /\ Len(y) = Len(c) + Len(t) /\ \A i \in 1 .. Len(c) : y[i] = c[i]
        /\ \A i \in 1 .. Len(t) : y[Len(c) + i] = t[i]
        /\ Ats(y) = Ats(c) \cup Ats(t)
        /\ Ordered(y) <=> Ordered(c) /\ Ordered(t) /\ Precede(Ats(c), Ats(t))
    BY <1>3, ConcatFacts, AtsConcat, OrderedConcat
  <1> HIDE DEF u, x, y
  <1>9. /\ v \in Seq(S) /\ Len(v) = Len(s) + Len(u)
        /\ \A i \in 1 .. Len(s) : v[i] = s[i]
        /\ \A i \in 1 .. Len(u) : v[Len(s) + i] = u[i]
        /\ Ats(v) = Ats(s) \cup Ats(u)
        /\ Ordered(v) <=> Ordered(s) /\ Ordered(u) /\ Precede(Ats(s), Ats(u))
    BY <1>5, ConcatFacts, AtsConcat, OrderedConcat
  <1>10. /\ w \in Seq(S) /\ Len(w) = Len(x) + Len(y)
         /\ \A i \in 1 .. Len(x) : w[i] = x[i]
         /\ \A i \in 1 .. Len(y) : w[Len(x) + i] = y[i]
         /\ Ats(w) = Ats(x) \cup Ats(y)
         /\ Ordered(w) <=> Ordered(x) /\ Ordered(y) /\ Precede(Ats(x), Ats(y))
    BY <1>5, ConcatFacts, AtsConcat, OrderedConcat
  <1> HIDE DEF v, w
  <1>11. Ats(w) = Ats(v)
    BY <1>2, <1>6, <1>7, <1>8, <1>9, <1>10
  <1>12. Ordered(v) => Ordered(w)
    BY <1>2, <1>6, <1>7, <1>8, <1>9, <1>10 DEF Precede
  <1>13. /\ \A i \in 1 .. Len(s) : v[i] = s[i] /\ w[i] = s[i]
         /\ v[Len(s) + 1] = f /\ w[Len(s) + 1] = h /\ w[Len(s) + 2] = r
         /\ \A i \in 1 .. Len(t) : v[Len(s) + 1 + i] = t[i] /\ w[Len(s) + 2 + i] = t[i]
         /\ Len(v) = Len(s) + 1 + Len(t) /\ Len(w) = Len(s) + 2 + Len(t)
    <2>1. Len(u) = 1 + Len(t) /\ Len(x) = Len(s) + 1 /\ Len(y) = 1 + Len(t)
      BY <1>4, <1>6, <1>7, <1>8
    <2>2. \A i \in 1 .. Len(t) : /\ Len(s) + 1 + i = Len(s) + (1 + i) /\ 1 + i \in 1 .. Len(u)
                                 /\ Len(s) + 2 + i = Len(x) + (1 + i) /\ 1 + i \in 1 .. Len(y)
      <3>1. Len(s) \in Nat /\ Len(t) \in Nat
        BY <1>4
      <3> TAKE i \in 1 .. Len(t)
      <3>2. 1 + i \in 1 .. 1 + Len(t)
        BY <3>1
      <3>3. Len(s) + 1 + i = Len(s) + (1 + i) /\ Len(s) + 2 + i = (Len(s) + 1) + (1 + i)
        BY <3>1
      <3> QED
        BY <2>1, <3>2, <3>3
    <2>3. \A i \in 1 .. Len(t) : v[Len(s) + 1 + i] = t[i] /\ w[Len(s) + 2 + i] = t[i]
      BY <1>4, <1>6, <1>8, <1>9, <1>10, <2>2
    <2>4. /\ \A i \in 1 .. Len(s) : v[i] = s[i] /\ w[i] = s[i]
          /\ v[Len(s) + 1] = f /\ w[Len(s) + 1] = h
      <3>1. 1 \in 1 .. Len(a) /\ 1 \in 1 .. Len(b) /\ 1 \in 1 .. Len(u) /\ Len(s) + 1 \in 1 .. Len(x)
        BY <1>4, <2>1
      <3>2. 1 \in 1 .. Len(u) /\ u[1] = f /\ Len(s) + 1 \in 1 .. Len(x) /\ x[Len(s) + 1] = h
        BY <1>4, <1>6, <1>7, <3>1
      <3>3. v[Len(s) + 1] = f /\ w[Len(s) + 1] = h
        BY <1>9, <1>10, <3>2
      <3>4. \A i \in 1 .. Len(s) : i \in 1 .. Len(x)
        BY <1>4, <2>1
      <3> QED
        BY <1>7, <1>9, <1>10, <3>3, <3>4
    <2>5. w[Len(s) + 2] = r
      <3>1. Len(s) + 2 = Len(x) + 1 /\ 1 \in 1 .. Len(y) /\ y[1] = r
        BY <1>4, <1>7, <1>8
      <3> QED
        BY <1>10, <3>1
    <2>6. Len(v) = Len(s) + 1 + Len(t) /\ Len(w) = Len(s) + 2 + Len(t)
      BY <1>4, <1>6, <1>7, <1>8, <1>9, <1>10
    <2> QED
      BY <2>3, <2>4, <2>5, <2>6
  <1>14. ASSUME NEW j \in 1 .. Len(w), w[j].part = "rest", w[j].rec.at > 0
         PROVE  \/ Headed(w, j)
                \/ \E i \in 1 .. Len(v) :
                     /\ v[i] = w[j]
                     /\ \A g \in 1 .. i - 1 : v[g].part = "head" => \E k \in 1 .. j - 1 : w[k] = v[g]
    <2>1. CASE j \in 1 .. Len(s)
      <3>1. j \in 1 .. Len(v) /\ \A g \in 1 .. j : g \in 1 .. Len(s)
        BY <1>4, <1>13, <2>1
      <3>2. v[j] = w[j] /\ \A g \in 1 .. j - 1 : w[g] = v[g]
        BY <1>13, <2>1, <3>1
      <3> QED
        BY <3>1, <3>2
    <2>2. CASE j = Len(s) + 1
      BY <1>1, <1>13, <1>14, <2>2
    <2>3. CASE j = Len(s) + 2
      <3>1. Len(s) + 1 \in 1 .. j - 1 /\ w[Len(s) + 1] = [w[j] EXCEPT !.part = "head"]
        BY <1>1, <1>4, <1>13, <2>3
      <3> QED
        BY <3>1 DEF Headed
    <2>4. CASE j > Len(s) + 2
      <3> DEFINE m == j - (Len(s) + 2)
      <3>1. m \in 1 .. Len(t) /\ j = Len(s) + 2 + m
        BY <1>4, <1>13, <2>4
      <3> HIDE DEF m
      <3> DEFINE i == Len(s) + 1 + m
      <3>2. i \in 1 .. Len(v) /\ v[i] = w[j]
        BY <1>4, <1>13, <3>1
      <3>3. ASSUME NEW g \in 1 .. i - 1, v[g].part = "head"
            PROVE  \E k \in 1 .. j - 1 : w[k] = v[g]
        <4>1. CASE g \in 1 .. Len(s)
          <5>1. g \in 1 .. j - 1
            BY <1>4, <3>1, <4>1
          <5> QED
            BY <1>13, <4>1, <5>1
        <4>2. g # Len(s) + 1
          BY <1>13, <3>3 DEF Halves
        <4>3. CASE g > Len(s) + 1
          <5> DEFINE l == g - (Len(s) + 1)
          <5>1. l \in 1 .. Len(t) /\ l < m /\ g = Len(s) + 1 + l
            BY <1>4, <3>1, <4>3
          <5> HIDE DEF l
          <5>2. Len(s) + 2 + l \in 1 .. j - 1 /\ w[Len(s) + 2 + l] = v[g]
            BY <1>4, <1>13, <3>1, <5>1
          <5> QED
            BY <5>2
        <4> QED
          BY <1>4, <4>1, <4>2, <4>3
      <3> HIDE DEF i
      <3> QED
        BY <3>2, <3>3
    <2> QED
      BY <1>4, <2>1, <2>2, <2>3, <2>4
  <1>15. Bare(w) \subseteq Bare(v)
    <2>1. Inherits(w, v)
      BY <1>14 DEF Inherits
    <2>2. w \in Seq(S) /\ v \in Seq(S)
      BY <1>9, <1>10
    <2> QED
      BY <2>1, <2>2, BareFacts
  <1> QED
    BY <1>11, <1>12, <1>15 DEF SameRecords, a, b, c, u, v, w, x, y

-----------------------------------------------------------------------------
(* What is in the log or will be: the parts of RecentInv.                  *)

-----------------------------------------------------------------------------
(* The inductive invariant of RecoveryIsRecent and PlannedRestartIsLossless: what is in
   the log and what is still to be written are, together and in order, the mutations
   since some moment. *)

\* A record says what its mutation made of the cache.
Says(rec) ==
    rec.op \in {"set", "del", "clear"} =>
        /\ rec.at \in 2 .. Len(past)
        /\ \A k \in Key :
            past[rec.at][k] = IF Writes(rec, k) THEN Result(rec) ELSE past[rec.at - 1][k]

\* Where messages are on record, some are retained.
SaidFrame ==
    {f \in Frame : Says(f.rec) /\ (f.rec.op = "pub" => ring # <<>> \/ Retention = 0)}

\* What is still to be written, the rest of a frame that was torn before the others.
PendingOf(p) == p.batch \o p.queue
Pending == PendingOf(persist)
Fresh(s) == \A i \in DOMAIN s : s[i].part = "whole" \/ (i = 1 /\ s[i].part = "rest")

\* All that is in the log, or will be.
Journal == log \o Pending

\* The mutations up to the last one.
Recent(S) == \A x \in S : x .. Len(past) \subseteq S

InOrder ==
    /\ value = past[Len(past)]
    /\ log \in Seq(SaidFrame) /\ persist \in Memory(SaidFrame)
    /\ Ordered(Journal)
    /\ Recent(Ats(Pending)) /\ \A x \in Ats(Pending) : landed < x
    /\ Fresh(Pending)
    /\ persist.writing = "no" => persist.batch = <<>>
    /\ mode = "always" \/ phase = "down" => Pending = <<>>

LEMMA PendingFacts ==
    ASSUME NEW S, NEW p \in Memory(S)
    PROVE  p.batch \in Seq(S) /\ p.queue \in Seq(S) /\ PendingOf(p) \in Seq(S)
  BY ConcatProperties DEF Memory, PendingOf

LEMMA DrainedPending ==
    ASSUME NEW S, NEW p \in Memory(S), p.writing = "no" => p.batch = <<>>
    PROVE  /\ PendingOf(Drained(p)) = PendingOf(p)
           /\ Drained(p).writing = "no" => Drained(p).batch = <<>>
           /\ p.writing = "no" => Drained(p).batch = <<>> \/ Drained(p).queue = <<>>
  <1>1. p.queue \in Seq(S)
    BY PendingFacts
  <1>2. CASE p.writing # "no" \/ p.queue = <<>>
    BY <1>2 DEF Drained
  <1>3. CASE p.writing = "no" /\ p.queue # <<>>
    <2>1. Drained(p) = [p EXCEPT !.writing = "issued", !.batch = p.queue, !.queue = <<>>]
      BY <1>3 DEF Drained
    <2>2. /\ Drained(p).batch = p.queue /\ Drained(p).queue = <<>>
          /\ Drained(p).writing = "issued" /\ p.batch = <<>>
      BY <1>3, <2>1 DEF Memory
    <2>3. p.queue \o <<>> = p.queue /\ <<>> \o p.queue = p.queue
      BY <1>1, ConcatEmptySeq
    <2> QED
      BY <2>2, <2>3 DEF PendingOf
  <1> QED
    BY <1>2, <1>3

LEMMA CountedPending ==
    ASSUME NEW S, NEW p \in Memory(S)
    PROVE  /\ PendingOf(Counted(p)) = PendingOf(p)
           /\ Counted(p).writing = p.writing /\ Counted(p).batch = p.batch
  <1> DEFINE b == p.compactScheduled \/ p.opsSinceSnapshot + 1 >= AofRewriteOps
             n == p.opsSinceSnapshot + 1
  <1>1. Counted(p) = [p EXCEPT !.opsSinceSnapshot = n, !.compactScheduled = b]
    BY DEF Counted
  <1> HIDE DEF b, n
  <1> QED
    BY <1>1 DEF Memory, PendingOf

LEMMA WholeOne ==
    ASSUME NEW S, NEW rec, [rec |-> rec, part |-> "whole"] \in S
    PROVE  Whole(<<rec>>) = <<[rec |-> rec, part |-> "whole"]>> /\ Whole(<<rec>>) \in Seq(S)
  <1> DEFINE R == {rec}
             s == <<rec>>
             f == [rec |-> rec, part |-> "whole"]
             u == <<f>>
  <1>1. s \in Seq(R) /\ Len(s) = 1 /\ s[1] = rec
    OBVIOUS
  <1>2. f \in S /\ \A r \in R : [rec |-> r, part |-> "whole"] \in S
    OBVIOUS
  <1> HIDE DEF s, R
  <1>3. /\ Whole(s) \in Seq(S) /\ Len(Whole(s)) = Len(s)
        /\ \A i \in 1 .. Len(s) : Whole(s)[i] = [rec |-> s[i], part |-> "whole"]
    BY <1>1, <1>2, WholeFacts
  <1> HIDE DEF f
  <1>4. u \in Seq(S) /\ Len(u) = 1 /\ u[1] = f
    BY <1>2
  <1> HIDE DEF u
  <1>5. Len(Whole(s)) = Len(u) /\ \A i \in 1 .. Len(u) : Whole(s)[i] = u[i]
    BY <1>1, <1>3, <1>4 DEF f
  <1>6. Whole(s) \in Seq(S) /\ u \in Seq(S)
    BY <1>3, <1>4
  <1>7. Whole(s) = u
    BY <1>5, <1>6, SeqEqual
  <1> QED
    BY <1>6, <1>7 DEF s, u, f

LEMMA QueuedPending ==
    ASSUME NEW S, NEW p \in Memory(S), p.writing = "no" => p.batch = <<>>,
           NEW rec, [rec |-> rec, part |-> "whole"] \in S
    PROVE  /\ PendingOf(Queued(p, rec)) = PendingOf(p) \o <<[rec |-> rec, part |-> "whole"]>>
           /\ Queued(p, rec).writing = "no" => Queued(p, rec).batch = <<>>
  <1> DEFINE w == <<[rec |-> rec, part |-> "whole"]>>
             q == [p EXCEPT !.queue = @ \o w]
  <1>1. w = Whole(<<rec>>) /\ w \in Seq(S)
    BY WholeOne
  <1> HIDE DEF w
  <1>2. p.batch \in Seq(S) /\ p.queue \in Seq(S)
    BY PendingFacts
  <1>3. p.queue \o w \in Seq(S)
    BY <1>1, <1>2, ConcatProperties
  <1>4. q \in Memory(S) /\ q.batch = p.batch /\ q.queue = p.queue \o w /\ q.writing = p.writing
    BY <1>3 DEF Memory
  <1>5. PendingOf(q) = PendingOf(p) \o w
    <2> DEFINE b == p.batch
               c == p.queue
    <2>1. w \in Seq(S) /\ b \in Seq(S) /\ c \in Seq(S)
      BY <1>1, <1>2
    <2> HIDE DEF b, c
    <2>2. (b \o c) \o w = b \o (c \o w)
      BY <2>1, Associative
    <2> QED
      BY <1>4, <2>2 DEF PendingOf, b, c
  <1>6. Queued(p, rec) = Drained(q)
    BY <1>1 DEF Queued
  <1> HIDE DEF q
  <1> QED
    BY <1>4, <1>5, <1>6, DrainedPending DEF w

LEMMA SaidFacts ==
    ASSUME NEW f \in SaidFrame
    PROVE  /\ f \in Frame /\ f.rec.at \in Nat /\ Says(f.rec)
           /\ f.rec.at > 0 => f.rec.op \in {"set", "del", "clear"} /\ f.rec.at \in 2 .. Len(past)
           /\ [f EXCEPT !.part = "head"] \in SaidFrame /\ [f EXCEPT !.part = "rest"] \in SaidFrame
  <1>1. f \in Frame /\ Says(f.rec) /\ (f.rec.op = "pub" => ring # <<>> \/ Retention = 0)
    BY DEF SaidFrame
  <1>2. f.rec \in Record /\ f.rec.at \in Nat /\ f.rec.op \in {"set", "del", "clear", "offset", "pub"}
        /\ (f.rec.op \in {"offset", "pub"} => f.rec.at = 0)
    BY <1>1, FrameFacts, RecordFacts
  <1>3. ASSUME NEW p \in {"head", "rest"}
        PROVE  [f EXCEPT !.part = p] \in SaidFrame
    <2>1. [f EXCEPT !.part = p] \in Frame /\ [f EXCEPT !.part = p].rec = f.rec
      BY <1>1, <1>2 DEF Frame
    <2> QED
      BY <1>1, <2>1 DEF SaidFrame
  <1>4. f.rec.at > 0 => f.rec.op \in {"set", "del", "clear"}
    BY <1>2
  <1>5. f.rec.op \in {"set", "del", "clear"} => f.rec.at \in 2 .. Len(past)
    BY <1>1 DEF Says
  <1> QED
    BY <1>1, <1>2, <1>3, <1>4, <1>5

LEMMA SaidAts ==
    ASSUME NEW s \in Seq(SaidFrame)
    PROVE  Ats(s) \subseteq 2 .. Len(past)
  <1>1. \A i \in 1 .. Len(s) : s[i] \in SaidFrame
    BY ElementOfSeq
  <1>2. \A i \in 1 .. Len(s) : s[i].rec.at > 0 => s[i].rec.at \in 2 .. Len(past)
    BY <1>1, SaidFacts
  <1> QED
    BY <1>2, AtsFacts DEF Mutates

\* What the steps need to know of the state before them.
LEMMA OrderBefore ==
    ASSUME IInv, InOrder
    PROVE  /\ SaidFrame \subseteq Frame
           /\ log \in Seq(SaidFrame) /\ persist.batch \in Seq(SaidFrame)
           /\ persist.queue \in Seq(SaidFrame) /\ Pending \in Seq(SaidFrame)
           /\ Journal \in Seq(SaidFrame)
           /\ persist \in Memory(SaidFrame)
           /\ Len(past) \in Nat /\ Len(past) > 0 /\ DOMAIN past = 1 .. Len(past)
           /\ LogAgrees(SaidFrame, Len(past), log, synced, landed, durable)
           /\ landed \in 1 .. Len(past) /\ durable \in 1 .. landed
           /\ Len(log) \in Nat /\ synced \in 0 .. Len(log)
           /\ Ats(Journal) = Ats(log) \cup Ats(Pending) /\ Ats(Journal) \subseteq 2 .. Len(past)
           /\ Ordered(log) /\ Ordered(Pending) /\ Precede(Ats(log), Ats(Pending))
           /\ faults \in Nat /\ failed \in BOOLEAN
  <1>1. /\ log \in Seq(SaidFrame) /\ persist \in Memory(SaidFrame) /\ Ordered(Journal)
    BY DEF InOrder
  <1>2. /\ persist.batch \in Seq(SaidFrame) /\ persist.queue \in Seq(SaidFrame)
        /\ Pending \in Seq(SaidFrame)
    BY <1>1, PendingFacts DEF Pending
  <1>3. Journal \in Seq(SaidFrame)
    BY <1>1, <1>2, ConcatProperties DEF Journal
  <1>4. Ats(Journal) = Ats(log) \cup Ats(Pending)
    BY <1>1, <1>2, AtsConcat DEF Journal
  <1>5. Ordered(log) /\ Ordered(Pending) /\ Precede(Ats(log), Ats(Pending))
    BY <1>1, <1>2, OrderedConcat DEF Journal
  <1>6. Ats(Journal) \subseteq 2 .. Len(past)
    BY <1>3, SaidAts
  <1>7. SaidFrame \subseteq Frame
    BY DEF SaidFrame
  <1>8. /\ LogAgrees(PastFrame, Len(past), log, synced, landed, durable)
        /\ Len(past) \in Nat /\ Len(past) > 0 /\ DOMAIN past = 1 .. Len(past) /\ Len(log) \in Nat
        /\ faults \in Nat /\ failed \in BOOLEAN
    BY Before
  <1>9. /\ LogAgrees(SaidFrame, Len(past), log, synced, landed, durable)
        /\ landed \in 1 .. Len(past) /\ durable \in 1 .. landed /\ synced \in 0 .. Len(log)
    BY <1>1, <1>8 DEF LogAgrees
  <1> QED
    BY <1>1, <1>2, <1>3, <1>4, <1>5, <1>6, <1>7, <1>8, <1>9

LEMMA SameSaid ==
    ASSUME past' = past, ring' = ring
    PROVE  SaidFrame' = SaidFrame
  BY DEF SaidFrame, Says

\* Of what is still to be written, the end is the most recent.
LEMMA RecentEnd ==
    ASSUME NEW S, S \subseteq Nat, NEW T, T \subseteq Nat, Len(past) \in Nat,
           Recent(S \cup T), Precede(S, T)
    PROVE  Recent(T)
  <1> SUFFICES ASSUME NEW x \in T, NEW y \in x .. Len(past)
               PROVE  y \in T
    BY DEF Recent
  <1>1. y \in S \cup T
    BY DEF Recent
  <1>2. y \notin S
    BY DEF Precede
  <1> QED
    BY <1>1, <1>2

\* A broker that goes down has nothing left to write.
LEMMA OrderDown ==
    ASSUME InOrder, value' = value, past' = past, ring' = ring, phase' = "down",
           persist' = NoPersist(0), log' \in Seq(SaidFrame), Ordered(log')
    PROVE  InOrder' /\ Pending' = <<>> /\ Journal' = log'
  <1>1. SaidFrame' = SaidFrame
    BY SameSaid
  <1>2. persist' \in Memory(SaidFrame)
    BY NoPersistFacts
  <1>3. Pending' = <<>> /\ persist'.batch = <<>> /\ Journal' = log'
    <2>1. persist'.batch = <<>> /\ persist'.queue = <<>>
      BY DEF NoPersist
    <2>2. Pending' = <<>>
      BY <2>1 DEF Pending, PendingOf
    <2>3. Journal' = log' \o <<>> /\ log' \o <<>> = log'
      BY <2>2, ConcatEmptySeq DEF Journal
    <2> QED
      BY <2>1, <2>2, <2>3
  <1>4. Recent(Ats(Pending))' /\ (\A x \in Ats(Pending) : landed < x)' /\ Fresh(Pending)'
    BY <1>3, NoAts DEF Recent, Fresh, Ats
  <1> QED
    BY <1>1, <1>2, <1>3, <1>4 DEF InOrder

\* What is still to be written stays so, behind a log that keeps its mutations or none.
LEMMA OrderKept ==
    ASSUME IInv, InOrder, value' = value, past' = past, ring' = ring, mode' = mode,
           phase' # "down", phase # "down", persist' \in Memory(SaidFrame), Pending' = Pending,
           persist'.writing = "no" => persist'.batch = <<>>,
           landed' = landed, log' = log \/ log' = <<>>
    PROVE  InOrder'
  <1>1. SaidFrame' = SaidFrame
    BY SameSaid
  <1>2. log' \in Seq(SaidFrame)
    BY EmptySeq, OrderBefore
  <1>3. Ordered(Journal')
    <2>1. CASE log' = log
      BY <2>1 DEF InOrder, Journal
    <2>2. CASE log' = <<>>
      <3>1. Journal' = Pending
        BY <2>2, OrderBefore, ConcatEmptySeq DEF Journal
      <3> QED
        BY <3>1, OrderBefore
    <2> QED
      BY <2>1, <2>2
  <1>4. Recent(Ats(Pending))' /\ (\A x \in Ats(Pending) : landed < x)' /\ Fresh(Pending)'
    <2>1. Ats(Pending)' = Ats(Pending)
      BY DEF Ats
    <2> QED
      BY <2>1 DEF InOrder, Recent, Fresh
  <1>5. Ordered(Journal)'
    BY <1>3 DEF Ordered
  <1> QED
    BY <1>1, <1>2, <1>4, <1>5 DEF InOrder

\* The first n of the frames s hold a mutation as late as the d-th, or else the snapshot
\* does, of the b-th cache.
Covered(s, n, d, b) ==
    \/ \E i \in 1 .. n : Mutates(s[i]) /\ d <= s[i].rec.at
    \/ d <= b /\ \A i \in 1 .. n : ~Mutates(s[i])

\* ... whatever of it is lost with the power.
Safe(b) ==
    /\ \A n \in synced .. Len(log) : Covered(log, n, durable, b)
    /\ Covered(log, Len(log), landed, b)

\* What a step appends to the log is later than all that has landed.
LEMMA SafeGrows ==
    ASSUME NEW S, S \subseteq Frame, log \in Seq(S), NEW frames \in Seq(S), log' = log \o frames,
           NEW n \in Nat, landed \in 1 .. n, durable \in 1 .. landed, synced \in 0 .. Len(log),
           \A i \in 1 .. Len(frames) : Mutates(frames[i]) => landed < frames[i].rec.at,
           \/ landed' = landed
           \/ \E i \in 1 .. Len(frames) : Mutates(frames[i]) /\ landed' = frames[i].rec.at,
           synced' \in synced .. Len(log'),
           durable' = durable \/ (durable' = landed' /\ synced' = Len(log')),
           NEW b \in Nat, NEW c \in Nat, b <= c, Safe(b)
    PROVE  Safe(c)'
  <1>1. /\ log' \in Seq(S) /\ Len(log') = Len(log) + Len(frames)
        /\ Len(log) \in Nat /\ Len(frames) \in Nat
        /\ \A i \in 1 .. Len(log) : log'[i] = log[i]
        /\ \A i \in 1 .. Len(frames) : log'[Len(log) + i] = frames[i]
    BY ConcatFacts
  <1>2. /\ \A i \in 1 .. Len(log') : log'[i].rec.at \in Nat
        /\ \A i \in 1 .. Len(log) : log[i].rec.at \in Nat
        /\ \A i \in 1 .. Len(frames) : frames[i].rec.at \in Nat
    <2>1. log' \in Seq(S)
      BY <1>1
    <2> QED
      BY <2>1, AtsNat
  <1>3. \A i \in 1 .. Len(log') : i \in 1 .. Len(log) \/ \E j \in 1 .. Len(frames) : i = Len(log) + j
    <2> SUFFICES ASSUME NEW i \in 1 .. Len(log'), i \notin 1 .. Len(log)
                 PROVE  \E j \in 1 .. Len(frames) : i = Len(log) + j
      OBVIOUS
    <2> DEFINE j == i - Len(log)
    <2>1. j \in 1 .. Len(frames) /\ i = Len(log) + j
      BY <1>1
    <2> HIDE DEF j
    <2> QED
      BY <2>1
  <1>4. \A i \in 1 .. Len(log') :
          i \notin 1 .. Len(log) /\ Mutates(log'[i]) => landed < log'[i].rec.at
    BY <1>1, <1>3
  <1>5. ASSUME NEW m \in Len(log) .. Len(log'), NEW d \in Nat, d <= landed
        PROVE  Covered(log', m, d, c)
    <2>1. CASE \E i \in 1 .. Len(log) : Mutates(log[i]) /\ landed <= log[i].rec.at
      <3>1. PICK i \in 1 .. Len(log) : Mutates(log[i]) /\ landed <= log[i].rec.at
        BY <2>1
      <3>2. i \in 1 .. m /\ log'[i] = log[i] /\ d <= log[i].rec.at
        BY <1>1, <1>2, <1>5, <3>1
      <3> QED
        BY <3>1, <3>2 DEF Covered
    <2>2. CASE /\ landed <= b /\ \A i \in 1 .. Len(log) : ~Mutates(log[i])
               /\ \E i \in 1 .. m : Mutates(log'[i])
      <3>1. PICK i \in 1 .. m : Mutates(log'[i])
        BY <2>2
      <3>2. i \in 1 .. Len(log') /\ i \notin 1 .. Len(log)
        BY <1>1, <1>5, <2>2, <3>1
      <3>3. d <= log'[i].rec.at
        <4>1. landed < log'[i].rec.at /\ log'[i].rec.at \in Nat
          BY <1>2, <1>4, <3>1, <3>2
        <4>2. landed \in Nat
          OBVIOUS
        <4>3. \A a \in Nat : landed < a => d <= a
          BY <1>5, <4>2
        <4> QED
          BY <4>1, <4>3
      <3> QED
        BY <3>1, <3>3 DEF Covered
    <2>3. CASE landed <= b /\ \A i \in 1 .. m : ~Mutates(log'[i])
      <3>1. d <= c
        BY <1>5, <2>3
      <3> QED
        BY <2>3, <3>1 DEF Covered
    <2> QED
      BY <2>1, <2>2, <2>3 DEF Safe, Covered
  <1>6. Covered(log', Len(log'), landed', c)
    <2>1. CASE landed' = landed
      BY <1>1, <1>5, <2>1
    <2>2. CASE \E i \in 1 .. Len(frames) : Mutates(frames[i]) /\ landed' = frames[i].rec.at
      <3>1. PICK i \in 1 .. Len(frames) : Mutates(frames[i]) /\ landed' = frames[i].rec.at
        BY <2>2
      <3> DEFINE j == Len(log) + i
      <3>2. j \in 1 .. Len(log') /\ log'[j] = frames[i]
        BY <1>1
      <3>3. landed' <= log'[j].rec.at /\ Mutates(log'[j])
        <4>1. landed' \in Nat
          BY <1>2, <3>1
        <4> QED
          BY <3>1, <3>2, <4>1
      <3> HIDE DEF j
      <3> QED
        BY <3>2, <3>3 DEF Covered
    <2> QED
      BY <2>1, <2>2
  <1>7. ASSUME NEW m \in synced' .. Len(log')
        PROVE  Covered(log', m, durable', c)
    <2>1. CASE durable' = landed' /\ synced' = Len(log')
      <3>1. m = Len(log')
        BY <1>1, <2>1
      <3> QED
        BY <1>6, <2>1, <3>1
    <2>2. CASE durable' = durable /\ m > Len(log)
      BY <1>1, <1>5, <2>2
    <2>3. CASE durable' = durable /\ m <= Len(log)
      <3>1. m \in synced .. Len(log) /\ \A i \in 1 .. m : i \in 1 .. Len(log) /\ log'[i] = log[i]
        BY <1>1, <2>3
      <3>2. Covered(log, m, durable, b)
        BY <3>1 DEF Safe
      <3>3. durable \in Nat /\ (durable <= b => durable <= c)
        OBVIOUS
      <3> QED
        BY <2>3, <3>1, <3>2, <3>3 DEF Covered
    <2> QED
      BY <1>1, <2>1, <2>2, <2>3
  <1> QED
    BY <1>6, <1>7 DEF Safe

LEMMA LandedFacts ==
    ASSUME NEW S, S \subseteq Frame, NEW frames \in Seq(S), NEW n \in Nat,
           \A i \in 1 .. Len(frames) : frames[i].rec.at <= n, landed \in 1 .. n, Written(frames)
    PROVE  /\ landed <= landed' /\ landed' \in Nat
           /\ landed' = landed \/ \E i \in 1 .. Len(frames) : landed' = frames[i].rec.at
           /\ \A i \in 1 .. Len(frames) : frames[i].rec.at <= landed'
  <1> DEFINE T == {landed} \cup {frames[i].rec.at : i \in 1 .. Len(frames)}
  <1>1. DOMAIN frames = 1 .. Len(frames)
    BY LenProperties
  <1>2. landed' = MaxOf(T)
    BY <1>1 DEF Written
  <1>3. \A i \in 1 .. Len(frames) : frames[i].rec.at \in 0 .. n
    <2>1. \A i \in 1 .. Len(frames) : frames[i].rec.at \in Nat
      BY AtsNat
    <2> QED
      BY <2>1
  <1>4. T \subseteq 0 .. n /\ landed \in T
    BY <1>3
  <1>5. \A x \in T : x = landed \/ \E i \in 1 .. Len(frames) : x = frames[i].rec.at
    OBVIOUS
  <1>6. \A i \in 1 .. Len(frames) : frames[i].rec.at \in T
    OBVIOUS
  <1> HIDE DEF T
  <1>7. MaxOf(T) \in T /\ \A x \in T : x <= MaxOf(T)
    BY <1>4, MaxFacts
  <1>8. landed' \in T /\ \A x \in T : x <= landed'
    BY <1>2, <1>7
  <1>9. landed' \in Nat
    BY <1>4, <1>8
  <1> QED
    BY <1>4, <1>5, <1>6, <1>8, <1>9

LEMMA NothingPending ==
    ASSUME NEW S, NEW p \in Memory(S), PendingOf(p) = <<>>
    PROVE  p.batch = <<>> /\ p.queue = <<>>
  <1>1. p.batch \in Seq(S) /\ p.queue \in Seq(S)
    BY PendingFacts
  <1> DEFINE b == p.batch
             c == p.queue
  <1>2. b \in Seq(S) /\ c \in Seq(S) /\ b \o c = <<>>
    BY <1>1 DEF PendingOf
  <1> HIDE DEF b, c
  <1>3. b = <<>> /\ c = <<>>
    BY <1>2, ConcatEqualIffEmpty
  <1> QED
    BY <1>3 DEF b, c

LEMMA FreshParts ==
    ASSUME NEW S, NEW s \in Seq(S), NEW t \in Seq(S), Fresh(s \o t)
    PROVE  /\ Fresh(s) /\ Fresh(t)
           /\ \A i \in 1 .. Len(s) : s[i].part # "head"
           /\ Len(s) > 0 => \A i \in 1 .. Len(t) : t[i].part = "whole"
  <1> DEFINE u == s \o t
  <1>1. /\ u \in Seq(S) /\ Len(u) = Len(s) + Len(t) /\ Len(s) \in Nat /\ Len(t) \in Nat
        /\ \A i \in 1 .. Len(s) : u[i] = s[i]
        /\ \A i \in 1 .. Len(t) : u[Len(s) + i] = t[i]
    BY ConcatFacts
  <1> HIDE DEF u
  <1>2. DOMAIN u = 1 .. Len(u) /\ DOMAIN s = 1 .. Len(s) /\ DOMAIN t = 1 .. Len(t)
    BY <1>1, LenProperties
  <1>3. \A i \in 1 .. Len(u) : u[i].part = "whole" \/ (i = 1 /\ u[i].part = "rest")
    BY <1>2 DEF Fresh, u
  <1>4. \A i \in 1 .. Len(s) : s[i].part = "whole" \/ (i = 1 /\ s[i].part = "rest")
    BY <1>1, <1>3
  <1>5. \A i \in 1 .. Len(t) :
          /\ t[i].part = "whole" \/ (i = 1 /\ t[i].part = "rest")
          /\ Len(s) > 0 => t[i].part = "whole"
    <2> TAKE i \in 1 .. Len(t)
    <2>1. Len(s) + i \in 1 .. Len(u) /\ (Len(s) + i = 1 => i = 1) /\ (Len(s) > 0 => Len(s) + i # 1)
      BY <1>1
    <2> QED
      BY <1>1, <1>3, <2>1
  <1> QED
    BY <1>2, <1>4, <1>5 DEF Fresh

\* The halves of a write that ends inside frame i, and the frames around it.
LEMMA TearParts ==
    ASSUME NEW S, NEW q \in Seq(S), NEW i \in DOMAIN q
    PROVE  LET A == SubSeq(q, 1, i - 1)
               B == SubSeq(q, i + 1, Len(q))
           IN  /\ A \in Seq(S) /\ B \in Seq(S) /\ q = A \o (<<q[i]>> \o B)
               /\ Tear(q, i).head = A \o <<[q[i] EXCEPT !.part = "head"]>>
               /\ Tear(q, i).rest = <<[q[i] EXCEPT !.part = "rest"]>> \o B
  <1> DEFINE A == SubSeq(q, 1, i - 1)
             B == SubSeq(q, i + 1, Len(q))
             f == <<q[i]>>
             R == f \o B
             u == A \o R
  <1>1. /\ Len(q) \in Nat /\ i \in 1 .. Len(q) /\ q[i] \in S /\ f \in Seq(S)
        /\ Len(f) = 1 /\ f[1] = q[i]
    BY LenProperties, ElementOfSeq
  <1>2. A \in Seq(S) /\ Len(A) = i - 1 /\ \A j \in 1 .. i - 1 : A[j] = q[j]
    <2>1. i - 1 \in 0 .. Len(q)
      BY <1>1
    <2> QED
      BY <2>1, PrefixFacts
  <1>3. /\ B \in Seq(S) /\ Len(B) = Len(q) - i
        /\ \A j \in 1 .. Len(q) - i : B[j] = q[i + j]
    <2>1. /\ i + 1 \in 1 .. Len(q) + 1 /\ Len(q) + 1 - (i + 1) = Len(q) - i
          /\ \A j \in 1 .. Len(q) - i : (i + 1) - 1 + j = i + j
      BY <1>1
    <2>2. /\ SubSeq(q, i + 1, Len(q)) \in Seq(S)
          /\ Len(SubSeq(q, i + 1, Len(q))) = Len(q) + 1 - (i + 1)
          /\ \A j \in 1 .. Len(q) + 1 - (i + 1) : SubSeq(q, i + 1, Len(q))[j] = q[(i + 1) - 1 + j]
      BY <2>1, SuffixFacts
    <2> QED
      BY <2>1, <2>2
  <1>4. /\ Tear(q, i).head = Append(A, [q[i] EXCEPT !.part = "head"])
        /\ Tear(q, i).rest = <<[q[i] EXCEPT !.part = "rest"]>> \o B
    BY DEF Tear
  <1> HIDE DEF A, B, f
  <1>5. /\ R \in Seq(S) /\ Len(R) = 1 + Len(B) /\ R[1] = f[1]
        /\ \A j \in 1 .. Len(B) : R[1 + j] = B[j]
    <2>1. f \in Seq(S) /\ B \in Seq(S)
      BY <1>1, <1>3
    <2>2. /\ R \in Seq(S) /\ Len(R) = Len(f) + Len(B)
          /\ \A j \in 1 .. Len(f) : R[j] = f[j]
          /\ \A j \in 1 .. Len(B) : R[Len(f) + j] = B[j]
      BY <2>1, ConcatFacts
    <2>3. Len(f) = 1 /\ 1 \in 1 .. Len(f)
      BY <1>1
    <2> HIDE DEF R
    <2> QED
      BY <2>2, <2>3
  <1> HIDE DEF R
  <1>6. /\ u \in Seq(S) /\ Len(u) = Len(A) + Len(R)
        /\ \A j \in 1 .. Len(A) : u[j] = A[j]
        /\ \A j \in 1 .. Len(R) : u[Len(A) + j] = R[j]
    <2>1. A \in Seq(S) /\ R \in Seq(S)
      BY <1>2, <1>5
    <2> QED
      BY <2>1, ConcatFacts
  <1> HIDE DEF u
  <1>7. Len(u) = Len(q)
    <2>1. Len(q) \in Int /\ i \in Int
      BY <1>1
    <2>2. (i - 1) + (1 + (Len(q) - i)) = Len(q)
      BY <2>1
    <2>3. Len(u) = Len(A) + Len(R) /\ Len(R) = 1 + Len(B)
      BY <1>5, <1>6
    <2>4. Len(A) = i - 1 /\ Len(B) = Len(q) - i
      BY <1>2, <1>3
    <2> QED
      BY <2>2, <2>3, <2>4
  <1>8. ASSUME NEW j \in 1 .. Len(q)
        PROVE  u[j] = q[j]
    <2>1. CASE j \in 1 .. i - 1
      BY <1>2, <1>6, <2>1
    <2>2. CASE j = i
      <3>1. 1 \in 1 .. Len(R) /\ j = Len(A) + 1
        BY <1>1, <1>2, <1>3, <1>5, <2>2
      <3> QED
        BY <1>1, <1>5, <1>6, <2>2, <3>1
    <2>3. CASE j \in i + 1 .. Len(q)
      <3> DEFINE m == j - i
      <3>1. /\ m \in 1 .. Len(B) /\ j = i + m /\ 1 + m \in 1 .. Len(R)
            /\ Len(A) + (1 + m) = j
        <4>1. m \in 1 .. Len(q) - i /\ j = i + m
          BY <1>1, <2>3
        <4>2. 1 + m \in 1 .. 1 + (Len(q) - i) /\ (i - 1) + (1 + m) = j
          BY <1>1, <2>3
        <4> HIDE DEF m
        <4> QED
          BY <1>2, <1>3, <1>5, <4>1, <4>2
      <3> HIDE DEF m
      <3>2. u[j] = R[1 + m] /\ R[1 + m] = B[m] /\ B[m] = q[j]
        BY <1>3, <1>5, <1>6, <3>1
      <3> QED
        BY <3>2
    <2> QED
      BY <1>1, <2>1, <2>2, <2>3
  <1>9. u = q
    BY <1>6, <1>7, <1>8, SeqEqual
  <1>10. \A x : Append(A, x) = A \o <<x>>
    BY <1>2, AppendIsConcat
  <1> QED
    BY <1>2, <1>3, <1>4, <1>9, <1>10 DEF A, B, f, R, u

LEMMA Associates ==
    ASSUME NEW S
    PROVE  /\ \A x, y, z \in Seq(S) : (x \o y) \o z = x \o (y \o z)
           /\ \A x, y \in Seq(S) : x \o y \in Seq(S)
  BY Associative, ConcatProperties

\* The journal l, A, f, C, q, before and after the end of a write inside frame f.
LEMMA TornJournal ==
    ASSUME NEW S, S \subseteq Frame, NEW l \in Seq(S), NEW A \in Seq(S), NEW C \in Seq(S),
           NEW q \in Seq(S), NEW f \in S, NEW h \in S, NEW r \in S, Halves(f, h, r)
    PROVE  /\ (A \o (<<f>> \o C)) \o q = A \o (<<f>> \o (C \o q))
           /\ (<<r>> \o C) \o q = <<r>> \o (C \o q)
           /\ SameRecords((l \o (A \o <<h>>)) \o ((<<r>> \o C) \o q),
                          l \o ((A \o (<<f>> \o C)) \o q))
  <1> DEFINE L == l \o A
             R == C \o q
             a == <<f>>
             b == <<h>>
             c == <<r>>
             Sq == Seq(S)
             Cat(x, y) == x \o y
  <1>1. L \in Seq(S) /\ R \in Seq(S)
    BY ConcatProperties
  <1>2. SameRecords((L \o <<h>>) \o (<<r>> \o R), L \o (<<f>> \o R))
    <2> HIDE DEF L, R
    <2> QED
      BY <1>1, TornInTwo
  <1>3. /\ \A x, y, z \in Sq : Cat(Cat(x, y), z) = Cat(x, Cat(y, z))
        /\ \A x, y \in Sq : Cat(x, y) \in Sq
    BY Associates, Zenon
  <1>4. /\ l \in Sq /\ A \in Sq /\ C \in Sq /\ q \in Sq /\ a \in Sq /\ b \in Sq /\ c \in Sq
    OBVIOUS
  <1> HIDE DEF Sq, Cat, a, b, c
  <1>5. Cat(Cat(A, Cat(a, C)), q) = Cat(A, Cat(a, Cat(C, q)))
    BY <1>3, <1>4
  <1>6. Cat(Cat(c, C), q) = Cat(c, Cat(C, q))
    BY <1>3, <1>4
  <1>7. Cat(l, Cat(A, Cat(a, Cat(C, q)))) = Cat(Cat(l, A), Cat(a, Cat(C, q)))
    BY <1>3, <1>4
  <1>8. Cat(l, Cat(A, b)) = Cat(Cat(l, A), b)
    BY <1>3, <1>4
  <1> QED
    BY <1>2, <1>5, <1>6, <1>7, <1>8, Zenon DEF a, b, c, Cat

\* What is left to write, A, f and R, after the end of a write inside frame f.
TornPending(A, R, f, h, r) ==
    /\ Ats(<<r>> \o R) = Ats(<<f>> \o R) /\ Ats(A \o <<h>>) = Ats(A)
    /\ Ats(A \o (<<f>> \o R)) = Ats(A) \cup Ats(<<f>> \o R)
    /\ Precede(Ats(A), Ats(<<f>> \o R))
    /\ Fresh(<<r>> \o R)

LEMMA TornPendingFacts ==
    ASSUME NEW S, S \subseteq Frame, NEW A \in Seq(S), NEW R \in Seq(S),
           NEW f \in S, NEW h \in S, NEW r \in S, Halves(f, h, r),
           Ordered(A \o (<<f>> \o R)), Fresh(A \o (<<f>> \o R))
    PROVE  TornPending(A, R, f, h, r)
  <1> DEFINE a == <<f>>
             b == <<h>>
             c == <<r>>
             w == a \o R
             z == c \o R
  <1>1. ~Mutates(h) /\ (Mutates(r) <=> Mutates(f)) /\ r.rec.at = f.rec.at /\ r.part = "rest"
    <2>1. f \in Frame
      OBVIOUS
    <2> QED
      BY <2>1 DEF Mutates, Frame, Halves
  <1>2. /\ Ats(a) = IF Mutates(f) THEN {f.rec.at} ELSE {}
        /\ Ats(c) = IF Mutates(r) THEN {r.rec.at} ELSE {}
        /\ Ats(b) = IF Mutates(h) THEN {h.rec.at} ELSE {}
    BY OneAt
  <1>3. a \in Seq(S)
    OBVIOUS
  <1>4. b \in Seq(S)
    OBVIOUS
  <1>5. c \in Seq(S) /\ Len(c) = 1 /\ c[1] = r
    OBVIOUS
  <1> HIDE DEF a, b, c
  <1>6. Ats(a) = Ats(c) /\ Ats(b) = {}
    BY <1>1, <1>2
  <1>7. w \in Seq(S)
    BY <1>3, ConcatProperties
  <1>8. Ats(w) = Ats(a) \cup Ats(R)
    BY <1>3, AtsConcat
  <1>9. Ats(z) = Ats(c) \cup Ats(R)
    BY <1>5, AtsConcat
  <1>10. Ats(A \o b) = Ats(A) \cup Ats(b)
    BY <1>4, AtsConcat
  <1>11. Ordered(A \o w) /\ Fresh(A \o w)
    BY DEF a
  <1>12. Fresh(w)
    <2> HIDE DEF w
    <2> QED
      BY <1>7, <1>11, FreshParts
  <1>13. Ats(A \o w) = Ats(A) \cup Ats(w) /\ Precede(Ats(A), Ats(w))
    <2> HIDE DEF w
    <2>1. Ats(A \o w) = Ats(A) \cup Ats(w)
      BY <1>7, AtsConcat
    <2>2. Ordered(A \o w) <=> Ordered(A) /\ Ordered(w) /\ Precede(Ats(A), Ats(w))
      BY <1>7, OrderedConcat
    <2> QED
      BY <1>11, <2>1, <2>2
  <1>14. Fresh(z)
    <2>1. \A i \in 1 .. Len(R) : R[i].part = "whole"
      <3>1. Len(a) > 0
        BY DEF a
      <3> QED
        BY <1>3, <1>12, <3>1, FreshParts
    <2>2. /\ z \in Seq(S) /\ Len(z) = Len(c) + Len(R) /\ Len(R) \in Nat
          /\ \A j \in 1 .. Len(c) : z[j] = c[j]
          /\ \A j \in 1 .. Len(R) : z[Len(c) + j] = R[j]
      <3>1. c \in Seq(S)
        BY <1>5
      <3> QED
        BY <3>1, ConcatFacts
    <2> HIDE DEF z
    <2>3. DOMAIN z = 1 .. Len(z)
      BY <2>2, LenProperties
    <2>4. z[1].part = "rest"
      <3>1. 1 \in 1 .. Len(c)
        BY <1>5
      <3>2. z[1] = r
        BY <1>5, <2>2, <3>1
      <3> QED
        BY <1>1, <3>2
    <2>5. \A j \in 1 .. Len(z) : j # 1 => z[j].part = "whole"
      <3> TAKE j \in 1 .. Len(z)
      <3> DEFINE m == j - 1
      <3>1. j # 1 => m \in 1 .. Len(R) /\ j = Len(c) + m
        BY <1>5, <2>2
      <3> HIDE DEF m
      <3> QED
        BY <2>1, <2>2, <3>1
    <2> QED
      BY <2>3, <2>4, <2>5 DEF Fresh
  <1> QED
    BY <1>6, <1>8, <1>9, <1>10, <1>13, <1>14 DEF TornPending, a, b, c, w, z

\* A write lands, or a part of it: what was to be written is in the log, in its order.
LEMMA OrderWriteLands ==
    ASSUME IInv, InOrder, WriteLands
    PROVE  /\ InOrder'
           /\ ~failed' => /\ Ats(Journal') = Ats(Journal) /\ Bare(Journal') \subseteq Bare(Journal)
                          /\ \A b \in Nat : Safe(b) => Safe(b)'
  <1> DEFINE B == persist.batch
             Q == persist.queue
             S == SaidFrame
  <1>1. /\ S \subseteq Frame /\ log \in Seq(S) /\ B \in Seq(S) /\ Q \in Seq(S) /\ persist \in Memory(S)
        /\ Len(past) \in Nat /\ landed \in 1 .. Len(past) /\ durable \in 1 .. landed
        /\ Len(log) \in Nat /\ synced \in 0 .. Len(log)
        /\ Journal = log \o (B \o Q) /\ Pending = B \o Q
    BY OrderBefore DEF Journal, Pending, PendingOf
  <1>2. /\ value' = value /\ past' = past /\ ring' = ring /\ mode' = mode /\ phase' = phase
        /\ synced' = synced /\ durable' = durable /\ snapshot' = snapshot
    BY DEF WriteLands, unchangedByWrites
  <1>3. S' = S
    BY <1>2, SameSaid
  <1>4. /\ Ordered(Journal) /\ Recent(Ats(Pending)) /\ Fresh(Pending)
        /\ value = past[Len(past)] /\ \A x \in Ats(Pending) : landed < x
        /\ mode = "always" \/ phase = "down" => Pending = <<>>
    BY DEF InOrder
  <1>5. Pending = <<>> => B = <<>> /\ Q = <<>>
    BY <1>1, NothingPending DEF Pending
  <1> HIDE DEF S
  <1>6. /\ Ats(B \o Q) = Ats(B) \cup Ats(Q)
        /\ Ordered(B) /\ Ordered(Q) /\ Precede(Ats(B), Ats(Q))
    <2>1. Ordered(B \o Q)
      BY <1>1, OrderBefore
    <2> QED
      BY <1>1, <2>1, AtsConcat, OrderedConcat
  <1>7. Fresh(Q) /\ \A i \in 1 .. Len(B) : B[i].part # "head"
    BY <1>1, <1>4, FreshParts
  <1>8. Ats(log) \subseteq Nat /\ Ats(B) \subseteq Nat /\ Ats(Q) \subseteq Nat
    BY <1>1, AtsNat
  <1>9. \A i \in 1 .. Len(B) : Mutates(B[i]) => landed < B[i].rec.at
    BY <1>1, <1>4, <1>6, AtsFacts
  <1>10. Pending' = persist'.batch \o persist'.queue /\ Journal' = log' \o Pending'
    BY DEF Journal, Pending, PendingOf
  <1>11. CASE /\ Written(B) /\ UNCHANGED <<faults, failed>>
              /\ persist' = [persist EXCEPT !.writing = "done", !.batch = <<>>]
    <2>1. /\ persist'.batch = <<>> /\ persist'.queue = Q /\ persist'.writing = "done"
          /\ persist' \in Memory(S)
      BY <1>1, <1>11, EmptySeq DEF Memory
    <2>2. Pending' = Q /\ log' = log \o B
      BY <1>1, <1>10, <1>11, <2>1, ConcatEmptySeq DEF Written
    <2>3. Journal' = Journal
      <3> DEFINE L == log
                 b == B
                 q == Q
      <3>1. L \in Seq(S) /\ b \in Seq(S) /\ q \in Seq(S)
        BY <1>1
      <3> HIDE DEF L, b, q
      <3>2. (L \o b) \o q = L \o (b \o q)
        BY <3>1, Associative
      <3>3. Journal' = (L \o b) \o q /\ Journal = L \o (b \o q)
        BY <1>1, <1>10, <2>2 DEF L, b, q
      <3> QED
        BY <3>2, <3>3
    <2>4. /\ landed' \in Nat /\ landed <= landed'
          /\ landed' = landed \/ \E i \in 1 .. Len(B) : landed' = B[i].rec.at
      <3>1. \A i \in 1 .. Len(B) : B[i].rec.at <= Len(past)
        <4>1. DOMAIN B = 1 .. Len(B)
          BY <1>1, LenProperties
        <4>2. \A i \in 1 .. Len(B) : B[i].rec.at \in 0 .. Len(past)
          BY <4>1, RecentFrames
        <4> QED
          BY <1>1, <4>2
      <3> HIDE DEF B
      <3> QED
        BY <1>1, <1>11, <3>1, LandedFacts
    <2>5. landed' = landed \/ \E i \in 1 .. Len(B) : Mutates(B[i]) /\ landed' = B[i].rec.at
      <3> SUFFICES ASSUME NEW i \in 1 .. Len(B), landed' = B[i].rec.at
                   PROVE  Mutates(B[i])
        BY <2>4
      <3>1. landed' > 0
        BY <1>1, <2>4
      <3> QED
        BY <1>7, <3>1 DEF Mutates
    <2>6. \A x \in Ats(Q) : landed' < x
      <3> SUFFICES ASSUME NEW x \in Ats(Q)
                   PROVE  landed' < x
        OBVIOUS
      <3>1. landed < x
        BY <1>1, <1>4, <1>6
      <3>2. \A i \in 1 .. Len(B) : Mutates(B[i]) => B[i].rec.at < x
        BY <1>1, <1>6, AtsFacts DEF Precede
      <3> QED
        BY <2>5, <3>1, <3>2
    <2>7. Recent(Ats(Q))
      BY <1>1, <1>4, <1>6, <1>8, RecentEnd
    <2>8. InOrder'
      <3>1. log' \in Seq(S) /\ Ordered(Journal)'
        <4>1. log' \in Seq(S)
          BY <1>1, <2>2, ConcatProperties
        <4> QED
          BY <1>4, <2>3, <4>1 DEF Ordered
      <3>2. Recent(Ats(Pending))' /\ (\A x \in Ats(Pending) : landed < x)' /\ Fresh(Pending)'
        <4>1. Ats(Pending)' = Ats(Q)
          BY <2>2 DEF Ats
        <4>2. Fresh(Pending)' <=> Fresh(Q)
          BY <2>2 DEF Fresh
        <4> QED
          BY <1>2, <1>7, <2>6, <2>7, <4>1, <4>2 DEF Recent
      <3>3. (mode = "always" \/ phase = "down" => Pending = <<>>)'
        BY <1>2, <1>4, <1>5, <2>2
      <3> QED
        BY <1>2, <1>3, <1>4, <2>1, <3>1, <3>2, <3>3 DEF InOrder, S
    <2>9. \A b \in Nat : Safe(b) => Safe(b)'
      <3> SUFFICES ASSUME NEW b \in Nat, Safe(b)
                   PROVE  Safe(b)'
        OBVIOUS
      <3>1. synced' \in synced .. Len(log') /\ durable' = durable
        BY <1>1, <1>2, <2>2, ConcatFacts
      <3>2. B \in Seq(S) /\ log' = log \o B /\ b <= b
        BY <1>1, <2>2
      <3> HIDE DEF B
      <3> QED
        BY <1>1, <1>9, <2>5, <3>1, <3>2, SafeGrows
    <2> QED
      BY <2>3, <2>8, <2>9
  <1>12. ASSUME NEW i \in DOMAIN B, B[i].part = "whole",
                log' = log \o Tear(B, i).head, landed' = landed, failed' = failed,
                persist' = [persist EXCEPT !.writing = "done", !.batch = Tear(B, i).rest]
         PROVE  /\ InOrder' /\ Ats(Journal') = Ats(Journal) /\ Bare(Journal') \subseteq Bare(Journal)
                /\ \A b \in Nat : Safe(b) => Safe(b)'
    <2> DEFINE f == B[i]
               h == [f EXCEPT !.part = "head"]
               r == [f EXCEPT !.part = "rest"]
               A == SubSeq(B, 1, i - 1)
               C == SubSeq(B, i + 1, Len(B))
               R == C \o Q
               T == A \o <<h>>
    <2>1. /\ A \in Seq(S) /\ C \in Seq(S) /\ B = A \o (<<f>> \o C)
          /\ Tear(B, i).head = T /\ Tear(B, i).rest = <<r>> \o C
      BY <1>1, TearParts
    <2>2. f \in S /\ h \in S /\ r \in S /\ f.part = "whole" /\ h.part = "head" /\ f.rec.at = r.rec.at
      <3>1. f \in SaidFrame
        BY <1>1, ElementOfSeq DEF S
      <3>2. f \in Frame
        BY <3>1, SaidFacts
      <3> QED
        BY <1>12, <3>1, <3>2, SaidFacts DEF S, Frame
    <2>3. /\ persist'.batch = <<r>> \o C /\ persist'.queue = Q /\ persist'.writing = "done"
          /\ persist' \in Memory(S)
      <3>1. <<r>> \in Seq(S)
        BY <2>2
      <3>2. <<r>> \o C \in Seq(S)
        BY <2>1, <3>1, ConcatProperties
      <3> QED
        BY <1>1, <1>12, <2>1, <3>2 DEF Memory
    <2>4. <<f>> \in Seq(S) /\ <<h>> \in Seq(S) /\ <<r>> \in Seq(S)
      BY <2>2
    <2>5. /\ Pending = A \o (<<f>> \o R) /\ Pending' = <<r>> \o R
          /\ SameRecords(Journal', Journal)
      <3> DEFINE F == f
                 H == h
                 G == r
                 l == log
                 q == Q
      <3>1. /\ F \in S /\ H \in S /\ G \in S /\ F.part = "whole" /\ S \subseteq Frame
            /\ l \in Seq(S) /\ A \in Seq(S) /\ C \in Seq(S) /\ q \in Seq(S)
        BY <1>1, <2>1, <2>2
      <3>2. Halves(F, H, G)
        BY <2>2 DEF Halves
      <3>3. /\ Pending = (A \o (<<F>> \o C)) \o q /\ Journal = l \o ((A \o (<<F>> \o C)) \o q)
            /\ Pending' = (<<G>> \o C) \o q
            /\ Journal' = (l \o (A \o <<H>>)) \o ((<<G>> \o C) \o q)
        BY <1>1, <1>10, <1>12, <2>1, <2>3
      <3> HIDE DEF F, H, G, l, q, A, C
      <3>4. /\ (A \o (<<F>> \o C)) \o q = A \o (<<F>> \o (C \o q))
            /\ (<<G>> \o C) \o q = <<G>> \o (C \o q)
            /\ SameRecords((l \o (A \o <<H>>)) \o ((<<G>> \o C) \o q),
                           l \o ((A \o (<<F>> \o C)) \o q))
        BY <3>1, <3>2, TornJournal
      <3> QED
        BY <3>3, <3>4 DEF F, G, q
    <2>6. /\ <<r>> \in Seq(S) /\ <<f>> \in Seq(S) /\ <<h>> \in Seq(S)
          /\ R \in Seq(S) /\ T \in Seq(S)
      <3>1. <<r>> \in Seq(S) /\ <<f>> \in Seq(S) /\ <<h>> \in Seq(S)
        BY <2>2
      <3>2. R \in Seq(S)
        <4> HIDE DEF C
        <4> QED
          BY <1>1, <2>1, ConcatProperties
      <3>3. T \in Seq(S)
        <4> DEFINE b == <<h>>
        <4>1. b \in Seq(S)
          BY <3>1
        <4> HIDE DEF A, b
        <4>2. A \o b \in Seq(S)
          BY <2>1, <4>1, ConcatProperties
        <4> QED
          BY <4>2 DEF b
      <3> QED
        BY <3>1, <3>2, <3>3
    <2>7. TornPending(A, R, f, h, r)
      <3> DEFINE F == f
                 H == h
                 G == r
      <3>1. F \in S /\ H \in S /\ G \in S /\ A \in Seq(S) /\ R \in Seq(S) /\ S \subseteq Frame
        BY <1>1, <2>1, <2>2, <2>6
      <3>2. Halves(F, H, G)
        BY <2>2 DEF Halves
      <3>3. Ordered(A \o (<<F>> \o R)) /\ Fresh(A \o (<<F>> \o R))
        <4>1. Pending = A \o (<<F>> \o R)
          BY <2>5
        <4>2. Ordered(Pending)
          BY OrderBefore
        <4> QED
          BY <1>4, <4>1, <4>2
      <3> HIDE DEF F, H, G, A, R
      <3>4. TornPending(A, R, F, H, G)
        BY <3>1, <3>2, <3>3, TornPendingFacts
      <3> QED
        BY <3>4 DEF F, G, H
    <2>8. /\ Ats(Pending') = Ats(<<f>> \o R) /\ Ats(Pending') \subseteq Ats(Pending)
          /\ Ats(T) \subseteq Ats(Pending)
      BY <2>5, <2>7 DEF TornPending
    <2>9. Recent(Ats(<<f>> \o R))
      <3> DEFINE V == Ats(A)
                 W == Ats(<<f>> \o R)
      <3>1. V \subseteq Nat /\ W \subseteq Nat
        <4>1. Ats(Pending) \subseteq Nat
          BY <1>1, OrderBefore, AtsNat
        <4> QED
          BY <2>5, <2>7, <4>1 DEF TornPending
      <3>2. Recent(V \cup W) /\ Precede(V, W)
        BY <1>4, <2>5, <2>7 DEF TornPending
      <3> HIDE DEF V, W
      <3>3. Recent(W)
        BY <1>1, <3>1, <3>2, RecentEnd
      <3> QED
        BY <3>3 DEF W
    <2>10. Fresh(Pending')
      BY <2>5, <2>7 DEF TornPending
    <2>11. log' = log \o T
      BY <1>12, <2>1
    <2>12. InOrder'
      <3>1. log' \in Seq(S) /\ Ordered(Journal)'
        <4>1. log' \in Seq(S)
          <5> HIDE DEF T
          <5> QED
            BY <1>1, <2>6, <2>11, ConcatProperties
        <4>2. Ordered(Journal')
          BY <1>4, <2>5 DEF SameRecords
        <4>3. Ordered(Journal)'
          BY <4>2 DEF Ordered
        <4> QED
          BY <4>1, <4>3
      <3>2. Recent(Ats(Pending))' /\ (\A x \in Ats(Pending) : landed < x)' /\ Fresh(Pending)'
        <4>1. Ats(Pending)' = Ats(Pending')
          BY DEF Ats
        <4>2. Recent(Ats(Pending'))
          BY <2>8, <2>9
        <4>3. Recent(Ats(Pending))'
          BY <1>2, <4>1, <4>2 DEF Recent
        <4>4. (\A x \in Ats(Pending) : landed < x)'
          BY <1>4, <1>12, <2>8, <4>1
        <4>5. Fresh(Pending)'
          BY <2>10 DEF Fresh
        <4> QED
          BY <4>3, <4>4, <4>5
      <3>3. (mode = "always" \/ phase = "down" => Pending = <<>>)'
        <4>1. B # <<>>
          BY <1>12
        <4> QED
          BY <1>2, <1>4, <1>5, <4>1
      <3> QED
        BY <1>2, <1>3, <1>4, <2>3, <3>1, <3>2, <3>3 DEF InOrder, S
    <2>13. \A d \in Nat : Safe(d) => Safe(d)'
      <3> SUFFICES ASSUME NEW d \in Nat, Safe(d)
                   PROVE  Safe(d)'
        OBVIOUS
      <3>1. T \in Seq(S) /\ log' = log \o T /\ d <= d
        BY <2>6, <2>11
      <3>2. \A j \in 1 .. Len(T) : Mutates(T[j]) => landed < T[j].rec.at
        <4>1. \A x \in Ats(T) : landed < x
          BY <1>4, <2>8
        <4> HIDE DEF T
        <4> QED
          BY <3>1, <4>1, AtsFacts
      <3> HIDE DEF T
      <3>3. synced' \in synced .. Len(log') /\ durable' = durable
        BY <1>1, <1>2, <3>1, ConcatFacts
      <3> QED
        BY <1>1, <1>12, <3>1, <3>2, <3>3, SafeGrows
    <2> QED
      BY <2>5, <2>12, <2>13 DEF SameRecords
  <1>13. CASE /\ failed' = TRUE /\ UNCHANGED <<log, landed>>
              /\ persist' = [persist EXCEPT !.writing = "error", !.batch = <<>>]
    <2>1. /\ persist'.batch = <<>> /\ persist'.queue = Q /\ persist'.writing = "error"
          /\ persist' \in Memory(S)
      BY <1>1, <1>13, EmptySeq DEF Memory
    <2>2. Pending' = Q /\ Journal' = log \o Q
      BY <1>1, <1>10, <1>13, <2>1, ConcatEmptySeq
    <2>3. Ordered(log \o Q)
      <3>1. Ordered(log) /\ Precede(Ats(log), Ats(Q))
        BY <1>1, <1>6, OrderBefore DEF Precede
      <3> HIDE DEF Q
      <3> QED
        BY <1>1, <1>6, <3>1, OrderedConcat
    <2>4. Recent(Ats(Q))
      BY <1>1, <1>4, <1>6, <1>8, RecentEnd
    <2>5. \A x \in Ats(Q) : landed < x
      BY <1>1, <1>4, <1>6
    <2>6. Ordered(Journal)' /\ Recent(Ats(Pending))' /\ (\A x \in Ats(Pending) : landed < x)' /\ Fresh(Pending)'
      <3>1. Ats(Pending)' = Ats(Q)
        BY <2>2 DEF Ats
      <3>2. Fresh(Pending)' <=> Fresh(Q)
        BY <2>2 DEF Fresh
      <3>3. Ordered(Journal)' <=> Ordered(log \o Q)
        BY <2>2 DEF Ordered
      <3> QED
        BY <1>2, <1>7, <1>13, <2>3, <2>4, <2>5, <3>1, <3>2, <3>3 DEF Recent
    <2>7. (mode = "always" \/ phase = "down" => Pending = <<>>)'
      BY <1>2, <1>4, <1>5, <2>2
    <2>8. InOrder'
      BY <1>1, <1>2, <1>3, <1>4, <1>13, <2>1, <2>6, <2>7 DEF InOrder, S
    <2> QED
      BY <1>13, <2>8
  <1> QED
    <2>1. \/ <1>11!1
          \/ \E i \in DOMAIN B :
               /\ B[i].part = "whole" /\ log' = log \o Tear(B, i).head
               /\ landed' = landed /\ failed' = failed
               /\ persist' = [persist EXCEPT !.writing = "done", !.batch = Tear(B, i).rest]
          \/ <1>13!1
      BY DEF WriteLands
    <2> QED
      BY <1>11, <1>12, <1>13, <2>1

LEMMA BareAts ==
    ASSUME NEW S, NEW s \in Seq(S)
    PROVE  Bare(s) \subseteq Ats(s)
  BY LenProperties DEF Bare, Ats, Mutates

\* What is still to be written has lost the head of its first frame at most.
LEMMA FreshBare ==
    ASSUME NEW S, S \subseteq Frame, NEW s \in Seq(S), Fresh(s), Ordered(s)
    PROVE  \A x \in Bare(s), y \in Ats(s) : x <= y
  <1> SUFFICES ASSUME NEW x \in Bare(s), NEW y \in Ats(s)
               PROVE  x <= y
    OBVIOUS
  <1>1. DOMAIN s = 1 .. Len(s) /\ Len(s) \in Nat
    BY LenProperties
  <1>2. PICK i \in 1 .. Len(s) : s[i].part = "rest" /\ s[i].rec.at > 0 /\ s[i].rec.at = x
    BY <1>1 DEF Bare
  <1>3. i = 1
    BY <1>1, <1>2 DEF Fresh
  <1>4. PICK j \in 1 .. Len(s) : Mutates(s[j]) /\ s[j].rec.at = y
    BY AtsFacts
  <1>5. x \in Nat /\ y \in Nat
    BY <1>2, <1>4, AtsNat
  <1>6. CASE j = 1
    BY <1>2, <1>3, <1>4, <1>5, <1>6
  <1>7. CASE 1 < j
    <2>1. Mutates(s[1]) /\ 1 \in DOMAIN s /\ j \in DOMAIN s
      BY <1>1, <1>2, <1>3 DEF Mutates
    <2>2. s[1].rec.at < s[j].rec.at
      BY <1>4, <1>7, <2>1 DEF Ordered
    <2> QED
      BY <1>2, <1>3, <1>4, <1>5, <2>2
  <1> QED
    BY <1>1, <1>6, <1>7

\* The mutations the log must reach from the snapshot on: those that it holds or will,
\* and, while the broker is up, the last.
Reached == Ats(Journal) \cup (IF phase = "down" THEN {} ELSE {Len(past)})

\* The snapshot holds of key k what the b-th cache did, and the journal all that came
\* after that; what has landed is in one or the other.
Base(k, b) ==
    /\ snapshot.entries[k] = past[b][k]
    /\ \A z \in Reached : b + 1 .. z \subseteq Ats(Journal)
    /\ \A x \in Bare(Journal) : x <= b
    /\ Safe(b)

\* Nothing is missing in the log, but what the snapshot holds.
NoGaps ==
    ~failed =>
        /\ \A x \in Ats(Journal), z \in Reached : x .. z \subseteq Ats(Journal)
        /\ \A x \in Bare(Journal), y \in Ats(Journal) : x <= y
        /\ \A k \in Key : Untimed(k) => \E b \in DOMAIN past : Base(k, b)

\* A step that takes no snapshot, and loses at most the end of the journal.
LEMMA SteadyNoGaps ==
    ASSUME IInv, InOrder, NoGaps, failed => failed', snapshot' = snapshot, past' = past,
           Ats(Journal') \subseteq Ats(Journal), Bare(Journal') \subseteq Bare(Journal),
           \A z \in Ats(Journal'), y \in Ats(Journal) : y <= z => y \in Ats(Journal'),
           phase' # "down" => phase # "down" /\ Ats(Journal) \subseteq Ats(Journal'),
           \A b \in Nat : Safe(b) => Safe(b)'
    PROVE  NoGaps'
  <1> SUFFICES ASSUME ~failed'
               PROVE  /\ (\A x \in Ats(Journal), z \in Reached : x .. z \subseteq Ats(Journal))'
                      /\ (\A x \in Bare(Journal), y \in Ats(Journal) : x <= y)'
                      /\ (\A k \in Key : Untimed(k) => \E b \in DOMAIN past : Base(k, b))'
    BY DEF NoGaps
  <1> DEFINE A == Ats(Journal)
             B == Ats(Journal')
  <1>1. /\ \A x \in A, z \in Reached : x .. z \subseteq A
        /\ \A x \in Bare(Journal), y \in A : x <= y
        /\ \A k \in Key : Untimed(k) => \E b \in DOMAIN past : Base(k, b)
    BY DEF NoGaps
  <1>2. Ats(Journal)' = B /\ Bare(Journal)' = Bare(Journal')
    BY DEF Ats, Bare, Headed
  <1>3. A \subseteq 2 .. Len(past) /\ Len(past) \in Nat
    BY OrderBefore
  <1>4. Reached' = B \cup (IF phase' = "down" THEN {} ELSE {Len(past)})
    BY <1>2 DEF Reached
  <1>5. ASSUME NEW z \in Reached'
        PROVE  z \in Reached /\ \A y \in A : y <= z => y \in B
    BY <1>4, <1>5 DEF Reached
  <1> HIDE DEF A, B
  <1>6. \A x \in B, z \in Reached' : x .. z \subseteq B
    BY <1>1, <1>5 DEF A, B
  <1>7. ASSUME NEW k \in Key, Untimed(k)'
        PROVE  (\E b \in DOMAIN past : Base(k, b))'
    <2>1. Untimed(k)
      BY <1>7 DEF Untimed
    <2>2. PICK b \in DOMAIN past : Base(k, b)
      BY <1>1, <2>1
    <2>3. b \in Nat
      BY OrderBefore
    <2>4. (snapshot.entries[k] = past[b][k])'
      BY <2>2 DEF Base
    <2>5. \A z \in Reached' : b + 1 .. z \subseteq B
      BY <1>5, <2>2 DEF Base, A
    <2>6. \A x \in Bare(Journal') : x <= b
      BY <2>2 DEF Base
    <2>7. Safe(b)'
      BY <2>2, <2>3 DEF Base
    <2>8. Base(k, b)'
      BY <1>2, <2>4, <2>5, <2>6, <2>7 DEF Base
    <2> QED
      BY <2>8
  <1> QED
    BY <1>1, <1>2, <1>6, <1>7 DEF A, B

\* A step that takes a snapshot.
LEMMA TakenNoGaps ==
    ASSUME IInv, InOrder, NoGaps, failed => failed', past' = past,
           snapshot'.entries = [k \in Key |-> IF Live(value[k]) THEN value[k] ELSE Absent],
           Ats(Journal') \subseteq 1 .. Len(past), Bare(Journal') \subseteq 1 .. Len(past),
           ~failed => \A x, z \in Ats(Journal') : x .. z \subseteq Ats(Journal'),
           phase' # "down" => Recent(Ats(Journal')),
           ~failed => \A x \in Bare(Journal'), y \in Ats(Journal') : x <= y,
           (\E b \in 1 .. Len(past) : Safe(b)) => Safe(Len(past))'
    PROVE  NoGaps'
  <1> SUFFICES ASSUME ~failed'
               PROVE  /\ (\A x \in Ats(Journal), z \in Reached : x .. z \subseteq Ats(Journal))'
                      /\ (\A x \in Bare(Journal), y \in Ats(Journal) : x <= y)'
                      /\ (\A k \in Key : Untimed(k) => \E b \in DOMAIN past : Base(k, b))'
    BY DEF NoGaps
  <1> DEFINE B == Ats(Journal')
             n == Len(past)
  <1>1. \A k \in Key : Untimed(k) => \E b \in DOMAIN past : Base(k, b)
    BY DEF NoGaps
  <1>2. Ats(Journal)' = B /\ Bare(Journal)' = Bare(Journal')
    BY DEF Ats, Bare, Headed
  <1>3. n \in Nat /\ n \in DOMAIN past /\ DOMAIN past = 1 .. n
    BY OrderBefore
  <1>4. Reached' = B \cup (IF phase' = "down" THEN {} ELSE {n})
    BY <1>2 DEF Reached
  <1>5. \A x \in B, z \in Reached' : x .. z \subseteq B
    BY <1>4 DEF Recent
  <1>6. \A z \in Reached' : z \in 1 .. n
    BY <1>3, <1>4
  <1> HIDE DEF B, n
  <1>7. ASSUME NEW k \in Key, Untimed(k)'
        PROVE  (\E b \in DOMAIN past : Base(k, b))'
    <2>1. Untimed(k)
      BY <1>7 DEF Untimed
    <2>2. Safe(n)'
      <3>1. PICK b \in DOMAIN past : Base(k, b)
        BY <1>1, <2>1
      <3> QED
        BY <1>3, <3>1 DEF Base, n
    <2>3. snapshot'.entries[k] = past[n][k]
      <3>1. past[n][k].e = 0
        BY <1>3, <2>1 DEF Untimed
      <3>2. value[k].e \notin lapsed
        <4>1. value[k] = past[n][k] /\ lapsed \subseteq 1 .. ops /\ ops \in Nat
          BY DEF InOrder, IInv, TypeOK, n
        <4> QED
          BY <3>1, <4>1
      <3> QED
        BY <3>2 DEF Live, InOrder, n
    <2>4. (snapshot.entries[k] = past[n][k])'
      <3>1. n' = n
        BY DEF n
      <3> QED
        BY <2>3, <3>1
    <2>5. \A z \in Reached' : n + 1 .. z \subseteq B
      BY <1>3, <1>6
    <2>6. \A x \in Bare(Journal') : x <= n
      BY <1>3 DEF n
    <2>7. n' = n
      BY DEF n
    <2>8. Base(k, n)'
      BY <1>2, <2>2, <2>4, <2>5, <2>6, <2>7 DEF Base
    <2> QED
      BY <1>3, <2>7, <2>8
  <1> QED
    BY <1>2, <1>5, <1>7

LEMMA BareConcat ==
    ASSUME NEW S, S \subseteq Frame, NEW s \in Seq(S), NEW t \in Seq(S)
    PROVE  Bare(s) \subseteq Bare(s \o t)
  <1> DEFINE u == s \o t
  <1>1. /\ u \in Seq(S) /\ Len(u) = Len(s) + Len(t) /\ Len(s) \in Nat /\ Len(t) \in Nat
        /\ \A i \in 1 .. Len(s) : u[i] = s[i]
    BY ConcatFacts
  <1> HIDE DEF u
  <1>2. \A j \in 1 .. Len(s) : /\ j \in 1 .. Len(u) /\ u[j] = s[j]
                               /\ \A g \in 1 .. j - 1 : s[g] = u[g]
    BY <1>1
  <1>3. Inherits(s, u)
    BY <1>2 DEF Inherits
  <1>4. u \in Seq(S)
    BY <1>1
  <1> QED
    BY <1>3, <1>4, BareFacts DEF u

\* A later snapshot covers no less.
LEMMA SafeLater ==
    ASSUME NEW b \in Nat, NEW c \in Nat, durable \in Nat, landed \in Nat, Safe(b),
           b <= c \/ (durable <= c /\ landed <= c)
    PROVE  Safe(c)
  <1>1. ASSUME NEW n, NEW d \in Nat, Covered(log, n, d, b), b <= c \/ d <= c
        PROVE  Covered(log, n, d, c)
    BY <1>1 DEF Covered
  <1> QED
    BY <1>1 DEF Safe

LEMMA SameSafe ==
    ASSUME log' = log, synced' = synced, durable' = durable, landed' = landed
    PROVE  \A b : Safe(b)' <=> Safe(b)
  BY DEF Safe, Covered

\* What is in the log is the beginning of the journal.
LEMMA LogFirst ==
    ASSUME IInv, InOrder
    PROVE  /\ Bare(log) \subseteq Bare(Journal) /\ Ats(log) \subseteq Ats(Journal)
           /\ \A x \in Ats(log), y \in Ats(Journal) : y <= x => y \in Ats(log)
  <1>1. /\ SaidFrame \subseteq Frame /\ log \in Seq(SaidFrame) /\ Pending \in Seq(SaidFrame)
        /\ Ats(Journal) = Ats(log) \cup Ats(Pending) /\ Precede(Ats(log), Ats(Pending))
        /\ Ats(Journal) \subseteq 2 .. Len(past) /\ Len(past) \in Nat
    BY OrderBefore
  <1>2. Bare(log) \subseteq Bare(Journal)
    BY <1>1, BareConcat DEF Journal
  <1>3. \A x \in Ats(log), y \in Ats(Journal) : y <= x => y \in Ats(log)
    BY <1>1 DEF Precede
  <1> QED
    BY <1>1, <1>2, <1>3

LEMMA EmptyJournal ==
    Bare(<<>>) = {} /\ Ats(<<>>) = {} /\ Ordered(<<>>) /\ Fresh(<<>>)
  BY DEF Bare, Ats, Ordered, Fresh

\* The process dies between a snapshot and the truncation of the log.
LEMMA OrderHalfTaken ==
    ASSUME IInv, InOrder, NoGaps, Dies, UNCHANGED unchangedByWrites, failed' = failed,
           snapshot'.entries = [k \in Key |-> IF Live(value[k]) THEN value[k] ELSE Absent],
           log' = log, synced' \in synced .. Len(log), landed' = landed, durable' = durable
    PROVE  InOrder' /\ NoGaps'
  <1>1. /\ value' = value /\ past' = past /\ ring' = ring /\ mode' = mode
    BY DEF unchangedByWrites
  <1>2. /\ Len(past) \in Nat /\ Ats(Journal) \subseteq 2 .. Len(past) /\ log \in Seq(SaidFrame)
        /\ Ats(Journal) = Ats(log) \cup Ats(Pending)
        /\ SaidFrame \subseteq Frame /\ landed \in 1 .. Len(past) /\ durable \in 1 .. landed
        /\ Ordered(log) /\ Len(log) \in Nat /\ synced \in 0 .. Len(log)
    BY OrderBefore
  <1>3. phase' = "down" /\ persist' = NoPersist(0)
    BY DEF Dies
  <1>4. InOrder' /\ Journal' = log
    BY <1>1, <1>2, <1>3, OrderDown
  <1>5. Bare(log) \subseteq Ats(log)
    BY <1>2, BareAts
  <1>6. Ats(log) \subseteq 1 .. Len(past) /\ Bare(log) \subseteq 1 .. Len(past)
    BY <1>2, <1>5
  <1>7. ASSUME ~failed
        PROVE  /\ \A x, z \in Ats(log) : x .. z \subseteq Ats(log)
               /\ \A x \in Bare(log), y \in Ats(log) : x <= y
    <2>1. /\ \A x, z \in Ats(Journal) : x .. z \subseteq Ats(Journal)
          /\ \A x \in Bare(Journal), y \in Ats(Journal) : x <= y
      BY <1>7 DEF NoGaps, Reached
    <2>2. \A x, z \in Ats(log) : \A y \in x .. z : y \in Ats(Journal) /\ y <= z
      BY <1>2, <2>1
    <2> QED
      BY <2>1, <2>2, LogFirst
  <1>8. (\E b \in 1 .. Len(past) : Safe(b)) => Safe(Len(past))'
    <2> SUFFICES ASSUME NEW b \in 1 .. Len(past), Safe(b)
                 PROVE  Safe(Len(past))'
      OBVIOUS
    <2> DEFINE n == Len(past)
    <2>1. n \in Nat /\ b \in Nat /\ b <= n /\ durable \in Nat /\ landed \in Nat
      BY <1>2
    <2>2. Len(past)' = n
      BY <1>1
    <2> HIDE DEF n
    <2>3. Safe(n)
      BY <2>1, SafeLater
    <2>4. \A m \in synced' .. Len(log) : m \in synced .. Len(log)
      BY <1>2
    <2>5. Safe(n)'
      BY <2>2, <2>3, <2>4 DEF Safe, Covered, n
    <2> QED
      BY <2>5 DEF n
  <1> QED
    BY <1>1, <1>3, <1>4, <1>6, <1>7, <1>8, TakenNoGaps

\* Compaction with the Persistence object as p.
LEMMA OrderCompact ==
    ASSUME IInv, InOrder, NoGaps, phase = "up", NEW p \in Memory(SaidFrame), Compact(p),
           PendingOf(p) = Pending, p.writing = "no" => p.batch = <<>>,
           UNCHANGED unchangedByWrites, failed' = failed
    PROVE  InOrder' /\ NoGaps'
  <1> DEFINE new == Snapshot(value, ring, p.offsetReserved)
  <1>1. /\ value' = value /\ past' = past /\ ring' = ring /\ mode' = mode
    BY DEF unchangedByWrites
  <1>2. /\ Len(past) \in Nat /\ Ats(Journal) \subseteq 2 .. Len(past) /\ log \in Seq(SaidFrame)
        /\ Ats(Journal) = Ats(log) \cup Ats(Pending) /\ Ordered(Pending) /\ Pending \in Seq(SaidFrame)
        /\ SaidFrame \subseteq Frame /\ landed \in 1 .. Len(past) /\ durable \in 1 .. landed
        /\ Ordered(log)
    BY OrderBefore
  <1>3. new.entries = [k \in Key |-> IF Live(value[k]) THEN value[k] ELSE Absent]
    BY DEF Snapshot
  <1> HIDE DEF new
  <1>4. CASE /\ snapshot' = new /\ Truncated
             /\ persist' = [p EXCEPT !.opsSinceSnapshot = 0]
             /\ UNCHANGED <<phase, crashes, faults, planned>>
    <2>1. /\ log' = <<>> /\ synced' = 0 /\ durable' = landed /\ landed' = landed /\ phase' = phase
      BY <1>4 DEF Truncated
    <2>2. /\ persist' \in Memory(SaidFrame) /\ persist'.batch = p.batch /\ persist'.queue = p.queue
          /\ persist'.writing = p.writing
      BY <1>4 DEF Memory
    <2>3. Pending' = Pending
      BY <2>2 DEF Pending, PendingOf
    <2>4. InOrder'
      BY <1>1, <2>1, <2>2, <2>3, OrderKept
    <2>5. Journal' = Pending
      BY <1>2, <2>1, <2>3, ConcatEmptySeq DEF Journal
    <2>6. Bare(Pending) \subseteq Ats(Pending) /\ \A x \in Bare(Pending), y \in Ats(Pending) : x <= y
      BY <1>2, BareAts, FreshBare DEF InOrder
    <2>7. Recent(Ats(Pending)) /\ \A x, z \in Ats(Pending) : x .. z \subseteq Ats(Pending)
      BY <1>2 DEF InOrder, Recent
    <2>8. Safe(Len(past))'
      <3>1. Len(log') = 0
        BY <2>1
      <3> QED
        BY <1>1, <1>2, <2>1, <3>1 DEF Safe, Covered
    <2>9. Ats(Pending) \subseteq 1 .. Len(past) /\ Bare(Pending) \subseteq 1 .. Len(past)
      BY <1>2, <2>6
    <2> QED
      BY <1>1, <1>3, <1>4, <2>4, <2>5, <2>6, <2>7, <2>8, <2>9, TakenNoGaps
  <1>5. CASE /\ Fault("snapshot") /\ persist' = p
             /\ UNCHANGED <<phase, crashes, planned, disk, landed, durable>>
    <2>1. Pending' = Pending
      BY <1>5 DEF Pending
    <2>2. /\ log' = log /\ synced' = synced /\ snapshot' = snapshot
          /\ durable' = durable /\ landed' = landed /\ phase' = phase
      BY <1>5 DEF disk
    <2>3. InOrder'
      BY <1>1, <1>5, <2>1, <2>2, OrderKept
    <2>4. Journal' = Journal
      BY <2>1, <2>2 DEF Journal
    <2>5. \A b \in Nat : Safe(b) => Safe(b)'
      BY <2>2, SameSafe
    <2> QED
      BY <1>1, <2>2, <2>3, <2>4, <2>5, SteadyNoGaps
  <1>6. CASE HalfCompacted(new) /\ Dies /\ UNCHANGED <<landed, durable, faults>>
    <2>1. /\ Dies /\ snapshot' = new /\ log' = log /\ landed' = landed /\ durable' = durable
          /\ synced' \in synced .. Len(log)
      BY <1>6, OrderBefore DEF HalfCompacted
    <2> QED
      BY <1>3, <2>1, OrderHalfTaken
  <1> QED
    BY <1>4, <1>5, <1>6 DEF Compact, new

-----------------------------------------------------------------------------
(* RecentInv: compaction, close and the end of the process.                *)

\* A step that changes the memory of the broker only.
LEMMA OrderQuiet ==
    ASSUME IInv, InOrder, NoGaps, phase # "down", phase' # "down",
           persist' \in Memory(SaidFrame), Pending' = Pending,
           persist'.writing = "no" => persist'.batch = <<>>,
           UNCHANGED unchangedByWrites, failed' = failed, UNCHANGED <<disk, landed, durable>>
    PROVE  InOrder' /\ NoGaps'
  <1>1. /\ value' = value /\ past' = past /\ ring' = ring /\ mode' = mode
    BY DEF unchangedByWrites
  <1>2. /\ log' = log /\ synced' = synced /\ snapshot' = snapshot
        /\ durable' = durable /\ landed' = landed
    BY DEF disk
  <1>3. InOrder'
    BY <1>1, <1>2, OrderKept
  <1>4. Journal' = Journal
    BY <1>2 DEF Journal
  <1>5. \A b \in Nat : Safe(b) => Safe(b)'
    BY <1>2, SameSafe
  <1> QED
    BY <1>1, <1>2, <1>3, <1>4, <1>5, SteadyNoGaps

LEMMA OrderRunCompact ==
    ASSUME IInv, InOrder, NoGaps, RunCompact
    PROVE  InOrder' /\ NoGaps'
  <1> DEFINE p == [persist EXCEPT !.compactScheduled = FALSE]
             q == [p EXCEPT !.compactAfterWrite = TRUE]
  <1>1. persist \in Memory(SaidFrame) /\ (persist.writing = "no" => persist.batch = <<>>)
    BY DEF InOrder
  <1>2. /\ p \in Memory(SaidFrame) /\ PendingOf(p) = Pending
        /\ p.writing = persist.writing /\ p.batch = persist.batch
    BY <1>1 DEF Memory, PendingOf, Pending
  <1>3. /\ q \in Memory(SaidFrame) /\ PendingOf(q) = Pending
        /\ q.writing = persist.writing /\ q.batch = persist.batch
    BY <1>1 DEF Memory, PendingOf, Pending
  <1>4. phase = "up" /\ UNCHANGED unchangedByWrites /\ failed' = failed
    BY DEF RunCompact
  <1> HIDE DEF p, q
  <1>5. CASE p.writing # "no"
    <2>1. persist' = q /\ UNCHANGED <<phase, disk, landed, durable>>
      BY <1>5 DEF RunCompact, p, q
    <2>2. Pending' = Pending
      BY <1>3, <2>1 DEF Pending
    <2> QED
      BY <1>1, <1>3, <1>4, <2>1, <2>2, OrderQuiet
  <1>6. CASE p.writing = "no"
    <2>1. Compact(p)
      BY <1>6 DEF RunCompact, p
    <2> QED
      BY <1>1, <1>2, <1>4, <2>1, OrderCompact
  <1> QED
    BY <1>5, <1>6

\* A broker that was stopped, and that has not started again: what is in the log is
\* in the snapshot as well, but for its halves.
PlannedEnd ==
    planned =>
        /\ phase = "down" /\ snapshot.pubs = ring
        /\ \A k \in Key : IF Live(value[k]) THEN snapshot.entries[k] = value[k]
                          ELSE ~Live(snapshot.entries[k]) \/ snapshot.entries[k] = Absent
        /\ Recent(Ats(log)) /\ Fresh(log)

LEMMA OrderFinishClose ==
    ASSUME IInv, InOrder, NoGaps, PlannedEnd, phase # "down", NEW p \in Memory(SaidFrame),
           FinishClose(p), PendingOf(p) = Pending, p.batch = <<>> \/ p.queue = <<>>,
           UNCHANGED unchangedByWrites, failed' = failed
    PROVE  InOrder' /\ NoGaps' /\ PlannedEnd'
  <1> DEFINE new == Snapshot(value, ring, p.offsetReserved)
             n == Len(past)
  <1>1. /\ value' = value /\ past' = past /\ ring' = ring /\ mode' = mode /\ lapsed' = lapsed
        /\ phase' = "down" /\ persist' = NoPersist(0) /\ landed' = landed /\ durable' = durable
        /\ synced' = Len(log') /\ ~planned
    BY DEF unchangedByWrites, FinishClose, PlannedEnd
  <1>2. /\ n \in Nat /\ Ats(Journal) \subseteq 2 .. n /\ log \in Seq(SaidFrame)
        /\ Ats(Journal) = Ats(log) \cup Ats(Pending) /\ Ordered(Pending) /\ Pending \in Seq(SaidFrame)
        /\ SaidFrame \subseteq Frame /\ landed \in 1 .. n /\ durable \in 1 .. landed
        /\ Ordered(log) /\ Ordered(Journal) /\ Len(log) \in Nat /\ synced \in 0 .. Len(log)
        /\ Journal \in Seq(SaidFrame)
    BY OrderBefore DEF InOrder
  <1>3. /\ new.entries = [k \in Key |-> IF Live(value[k]) THEN value[k] ELSE Absent]
        /\ new.pubs = ring
    BY DEF Snapshot
  <1>4. p.batch \in {<<>>, Pending} /\ (p.batch = <<>> => p.queue = Pending)
        /\ (p.queue = <<>> => p.batch = Pending)
    <2>1. p.batch \in Seq(SaidFrame) /\ p.queue \in Seq(SaidFrame)
      BY PendingFacts
    <2>2. Pending = p.batch \o p.queue
      BY DEF PendingOf
    <2>3. CASE p.batch = <<>>
      BY <2>1, <2>2, <2>3, ConcatEmptySeq
    <2>4. CASE p.queue = <<>>
      BY <2>1, <2>2, <2>4, ConcatEmptySeq
    <2> QED
      BY <2>3, <2>4
  <1>5. /\ Recent(Ats(Pending)) /\ Fresh(Pending) /\ \A x \in Ats(Pending) : landed < x
    BY DEF InOrder
  <1> HIDE DEF new
  <1>6. CASE snapshot' = new /\ log' \in {<<>>, p.batch} /\ planned'
    <2>1. /\ log' \in Seq(SaidFrame) /\ Ordered(log') /\ Fresh(log') /\ Recent(Ats(log'))
          /\ \A x \in Ats(log') : landed < x
      <3>1. CASE log' = <<>>
        BY <3>1, EmptyJournal, EmptySeq DEF Recent
      <3>2. CASE log' = Pending
        BY <1>2, <1>5, <3>2
      <3> QED
        BY <1>4, <1>6, <3>1, <3>2
    <2>2. InOrder' /\ Journal' = log'
      BY <1>1, <2>1, OrderDown
    <2>3. Ats(log') \subseteq 2 .. n /\ Bare(log') \subseteq Ats(log')
      BY <2>1, SaidAts, BareAts
    <2>4. /\ \A x, z \in Ats(log') : x .. z \subseteq Ats(log')
          /\ \A x \in Bare(log'), y \in Ats(log') : x <= y
      <3>1. \A x, z \in Ats(log') : x .. z \subseteq Ats(log')
        BY <1>2, <2>1, <2>3 DEF Recent
      <3>2. \A x \in Bare(log'), y \in Ats(log') : x <= y
        BY <1>2, <2>1, FreshBare
      <3> QED
        BY <3>1, <3>2
    <2>5. Safe(n)'
      <3>1. n' = n /\ Len(log') \in Nat
        BY <1>1, <2>1, LenProperties
      <3>2. \A i \in 1 .. Len(log') : Mutates(log'[i]) => landed < log'[i].rec.at /\ log'[i].rec.at \in Nat
        BY <1>2, <2>1, AtsFacts, AtsNat
      <3>3. \A d \in 1 .. landed : Covered(log', Len(log'), d, n)
        <4> TAKE d \in 1 .. landed
        <4>1. d <= n /\ \A a \in Nat : landed < a => d <= a
          BY <1>2
        <4> QED
          BY <3>2, <4>1 DEF Covered
      <3>4. \A m \in synced' .. Len(log') : m = Len(log')
        BY <1>1, <3>1
      <3> HIDE DEF n
      <3> QED
        BY <1>1, <1>2, <3>1, <3>3, <3>4 DEF Safe
    <2>6. NoGaps'
      BY <1>1, <1>2, <1>3, <1>6, <2>2, <2>3, <2>4, <2>5, TakenNoGaps
    <2>7. PlannedEnd'
      <3>1. Recent(Ats(log))' /\ Fresh(log)'
        BY <1>1, <2>1 DEF Recent, Ats, Fresh
      <3>2. \A k \in Key : snapshot'.entries[k] = IF Live(value[k]) THEN value[k] ELSE Absent
        BY <1>3, <1>6
      <3>3. \A k \in Key : Live(value[k])' <=> Live(value[k])
        BY <1>1 DEF Live
      <3> QED
        BY <1>1, <1>3, <1>6, <3>1, <3>2, <3>3 DEF PlannedEnd
    <2> QED
      BY <2>2, <2>6, <2>7
  <1>7. CASE /\ log' \in {log \o p.queue, log \o p.queue \o p.batch}
             /\ UNCHANGED <<snapshot, planned>>
    <2>1. log' = log \/ log' = log \o Pending
      <3>1. log \o <<>> = log
        BY <1>2, ConcatEmptySeq
      <3>2. (log \o Pending) \o <<>> = log \o Pending
        BY <1>2, ConcatEmptySeq, ConcatProperties
      <3> QED
        BY <1>4, <1>7, <3>1, <3>2
    <2>2. PICK frames \in {<<>>, Pending} : log' = log \o frames
      BY <1>2, <2>1, ConcatEmptySeq
    <2>3. log' \in Seq(SaidFrame) /\ Ordered(log')
      BY <1>2, <2>1 DEF Journal
    <2>4. InOrder' /\ Journal' = log'
      BY <1>1, <2>3, OrderDown
    <2>5. /\ Ats(log') \subseteq Ats(Journal) /\ Bare(log') \subseteq Bare(Journal)
          /\ \A x \in Ats(log'), y \in Ats(Journal) : y <= x => y \in Ats(log')
      BY <2>1, LogFirst DEF Journal
    <2>6. \A b \in Nat : Safe(b) => Safe(b)'
      <3> SUFFICES ASSUME NEW b \in Nat, Safe(b)
                   PROVE  Safe(b)'
        OBVIOUS
      <3>1. frames \in Seq(SaidFrame) /\ \A x \in Ats(frames) : landed < x
        BY <1>2, <1>5, EmptyJournal, EmptySeq
      <3>2. \A i \in 1 .. Len(frames) : Mutates(frames[i]) => landed < frames[i].rec.at
        BY <3>1, AtsFacts
      <3>3. synced' \in synced .. Len(log') /\ b <= b
        BY <1>1, <1>2, <2>2, <3>1, ConcatFacts
      <3> QED
        BY <1>1, <1>2, <2>2, <3>1, <3>2, <3>3, SafeGrows
    <2>7. NoGaps'
      BY <1>1, <1>7, <2>4, <2>5, <2>6, SteadyNoGaps
    <2> QED
      BY <1>1, <1>7, <2>4, <2>7 DEF PlannedEnd
  <1>8. CASE snapshot' = new /\ Dies /\ log' = log
    <2>1. synced' \in synced .. Len(log)
      BY <1>1, <1>2, <1>8
    <2>2. ~planned'
      BY <1>8 DEF Dies
    <2> QED
      BY <1>1, <1>3, <1>8, <2>1, <2>2, OrderHalfTaken DEF PlannedEnd
  <1> QED
    BY <1>6, <1>7, <1>8 DEF FinishClose, Leftover, new

LEMMA OrderWriteReturns ==
    ASSUME IInv, InOrder, NoGaps, PlannedEnd, WriteReturns
    PROVE  InOrder' /\ NoGaps' /\ PlannedEnd'
  <1> DEFINE u == persist.batch \o persist.queue
             p == [persist EXCEPT !.writing = "no", !.batch = <<>>, !.queue = u,
                                  !.compactAfterWrite = FALSE]
             q == IF persist.writing = "done" THEN Drained(p) ELSE p
  <1>1. /\ persist \in Memory(SaidFrame) /\ persist.writing # "no"
        /\ UNCHANGED unchangedByWrites /\ failed' = failed
    BY DEF InOrder, WriteReturns
  <1>2. phase # "down"
    BY <1>1 DEF IInv, WritesWhileUp
  <1>3. u \in Seq(SaidFrame) /\ u = Pending
    BY <1>1, PendingFacts DEF PendingOf, Pending
  <1>4. p = [persist EXCEPT !.writing = "no", !.batch = <<>>,
                            !.queue = persist.batch \o @, !.compactAfterWrite = FALSE]
    OBVIOUS
  <1> HIDE DEF u
  <1>5. /\ p \in Memory(SaidFrame) /\ p.writing = "no" /\ p.batch = <<>> /\ p.queue = u
    BY <1>1, <1>3, EmptySeq DEF Memory
  <1>6. PendingOf(p) = Pending
    BY <1>3, <1>5, ConcatEmptySeq DEF PendingOf
  <1>7. q = IF persist.writing = "done" THEN Drained(p) ELSE p
    OBVIOUS
  <1>8. \/ /\ phase = "closing" /\ FinishClose(q)
        \/ /\ phase = "up" /\ Compact(q)
        \/ /\ phase = "up" /\ persist' = q
           /\ UNCHANGED <<phase, disk, crashes, faults, landed, durable, planned>>
    <2> DEFINE r == [persist EXCEPT !.writing = "no", !.batch = <<>>,
                                    !.queue = persist.batch \o @, !.compactAfterWrite = FALSE]
               t == IF persist.writing = "done" THEN Drained(r) ELSE r
    <2>1. \/ /\ phase = "closing" /\ FinishClose(t)
          \/ /\ phase = "up" /\ Compact(t)
          \/ /\ phase = "up" /\ persist' = t
             /\ UNCHANGED <<phase, disk, crashes, faults, landed, durable, planned>>
      BY DEF WriteReturns
    <2>2. r = p
      BY <1>4
    <2>3. t = q
      BY <2>2
    <2> HIDE DEF r, t, p, q
    <2> QED
      BY <2>1, <2>3
  <1> HIDE DEF p, q
  <1>9. /\ q \in Memory(SaidFrame) /\ PendingOf(q) = Pending
        /\ q.writing = "no" => q.batch = <<>>
        /\ q.batch = <<>> \/ q.queue = <<>>
    <2>1. CASE persist.writing = "done"
      <3>1. q = Drained(p)
        BY <1>7, <2>1
      <3>2. Drained(p) \in Memory(SaidFrame)
        BY <1>5, DrainedFacts
      <3>3. /\ PendingOf(Drained(p)) = PendingOf(p)
            /\ Drained(p).writing = "no" => Drained(p).batch = <<>>
            /\ p.writing = "no" => Drained(p).batch = <<>> \/ Drained(p).queue = <<>>
        BY <1>5, DrainedPending
      <3> QED
        BY <1>5, <1>6, <3>1, <3>2, <3>3
    <2>2. CASE persist.writing # "done"
      BY <1>5, <1>6, <1>7, <2>2
    <2> QED
      BY <2>1, <2>2
  <1>10. CASE phase = "closing" /\ FinishClose(q)
    BY <1>1, <1>2, <1>9, <1>10, OrderFinishClose
  <1>11. CASE phase = "up" /\ Compact(q)
    <2>1. ~planned'
      BY <1>2, <1>11 DEF Compact, Dies, PlannedEnd
    <2> QED
      BY <1>1, <1>9, <1>11, <2>1, OrderCompact DEF PlannedEnd
  <1>12. CASE /\ phase = "up" /\ persist' = q
              /\ UNCHANGED <<phase, disk, crashes, faults, landed, durable, planned>>
    <2>1. Pending' = Pending
      BY <1>9, <1>12 DEF Pending
    <2>2. ~planned'
      BY <1>12 DEF PlannedEnd
    <2> QED
      BY <1>1, <1>9, <1>12, <2>1, <2>2, OrderQuiet DEF PlannedEnd
  <1> QED
    BY <1>8, <1>10, <1>11, <1>12

LEMMA OrderClose ==
    ASSUME IInv, InOrder, NoGaps, PlannedEnd, Close
    PROVE  InOrder' /\ NoGaps' /\ PlannedEnd'
  <1>1. /\ persist \in Memory(SaidFrame) /\ (persist.writing = "no" => persist.batch = <<>>)
        /\ phase = "up" /\ UNCHANGED unchangedByWrites /\ failed' = failed
    BY DEF InOrder, Close
  <1>2. CASE persist.writing = "no"
    <2>1. FinishClose(persist) /\ persist.batch = <<>>
      BY <1>1, <1>2 DEF Close
    <2> QED
      BY <1>1, <2>1, OrderFinishClose DEF Pending
  <1>3. CASE persist.writing # "no"
    <2>1. phase' = "closing" /\ persist' = persist /\ UNCHANGED <<disk, landed, durable, planned>>
      BY <1>3 DEF Close
    <2>2. Pending' = Pending
      BY <2>1 DEF Pending
    <2>3. ~planned'
      BY <1>1, <2>1 DEF PlannedEnd
    <2> QED
      BY <1>1, <2>1, <2>2, <2>3, OrderQuiet DEF PlannedEnd
  <1> QED
    BY <1>2, <1>3

LEMMA OrderFsync ==
    ASSUME IInv, InOrder, NoGaps, Fsync
    PROVE  InOrder' /\ NoGaps'
  <1>1. /\ value' = value /\ past' = past /\ ring' = ring /\ mode' = mode /\ phase' = phase
        /\ persist' = persist /\ snapshot' = snapshot /\ log' = log /\ landed' = landed
        /\ synced' = Len(log) /\ durable' = landed /\ failed' = failed /\ phase # "down"
    BY DEF Fsync, unchangedByWrites
  <1>2. Pending' = Pending
    BY <1>1 DEF Pending
  <1>3. persist \in Memory(SaidFrame) /\ (persist.writing = "no" => persist.batch = <<>>)
    BY DEF InOrder
  <1>4. InOrder'
    BY <1>1, <1>2, <1>3, OrderKept
  <1>5. Journal' = Journal
    BY <1>1, <1>2 DEF Journal
  <1>6. \A b \in Nat : Safe(b) => Safe(b)'
    <2>1. Len(log) \in Nat
      BY OrderBefore
    <2>2. \A m \in Len(log) .. Len(log) : m = Len(log)
      BY <2>1
    <2> QED
      BY <1>1, <2>2 DEF Safe, Covered
  <1> QED
    BY <1>1, <1>4, <1>5, <1>6, SteadyNoGaps

LEMMA GapsWriteLands ==
    ASSUME IInv, InOrder, NoGaps, WriteLands
    PROVE  InOrder' /\ NoGaps'
  <1>1. /\ InOrder'
        /\ ~failed' => /\ Ats(Journal') = Ats(Journal) /\ Bare(Journal') \subseteq Bare(Journal)
                       /\ \A b \in Nat : Safe(b) => Safe(b)'
    BY OrderWriteLands
  <1>2. past' = past /\ phase' = phase /\ snapshot' = snapshot
    BY DEF WriteLands, unchangedByWrites
  <1>3. failed => failed'
    BY DEF WriteLands
  <1>4. CASE failed'
    BY <1>1, <1>4 DEF NoGaps
  <1>5. CASE ~failed'
    BY <1>1, <1>2, <1>3, <1>5, SteadyNoGaps
  <1> QED
    BY <1>4, <1>5

\* The end of the process leaves a beginning of the journal.
LEMMA OrderDeath ==
    ASSUME IInv, InOrder, NoGaps, Dies, UNCHANGED unchangedByWrites,
           snapshot' = snapshot, failed' = failed, log' \in Seq(SaidFrame),
           NEW n \in 0 .. Len(Journal), log' = SubSeq(Journal, 1, n),
           \A b \in Nat : Safe(b) => Safe(b)'
    PROVE  InOrder' /\ NoGaps'
  <1>1. /\ value' = value /\ past' = past /\ ring' = ring
        /\ phase' = "down" /\ persist' = NoPersist(0)
    BY DEF unchangedByWrites, Dies
  <1>2. /\ SaidFrame \subseteq Frame /\ Journal \in Seq(SaidFrame) /\ Ordered(Journal)
    BY OrderBefore DEF InOrder
  <1> DEFINE J == Journal
             L == SubSeq(J, 1, n)
  <1>3. J \in Seq(SaidFrame) /\ Ordered(J) /\ n \in 0 .. Len(J)
    BY <1>2
  <1> HIDE DEF J
  <1>4. /\ Ordered(L) /\ Ats(L) \subseteq Ats(J)
        /\ \A x \in Ats(L), y \in Ats(J) : y <= x => y \in Ats(L)
    BY <1>2, <1>3, AtsPrefix
  <1>5. Bare(L) \subseteq Bare(J)
    BY <1>2, <1>3, BarePrefix
  <1>6. log' = L
    BY DEF J
  <1>7. InOrder' /\ Journal' = log'
    BY <1>1, <1>4, <1>6, OrderDown
  <1> QED
    BY <1>1, <1>4, <1>5, <1>6, <1>7, SteadyNoGaps DEF J

LEMMA PrefixOfConcat ==
    ASSUME NEW S, NEW s \in Seq(S), NEW t \in Seq(S), NEW u \in Seq(S), NEW m \in 0 .. Len(t)
    PROVE  /\ Len(s) + m \in 0 .. Len(s \o (t \o u))
           /\ s \o SubSeq(t, 1, m) = SubSeq(s \o (t \o u), 1, Len(s) + m)
  <1> DEFINE b == SubSeq(t, 1, m)
             v == t \o u
             w == s \o v
             n == Len(s) + m
             p == SubSeq(w, 1, n)
             q == s \o b
  <1>1. /\ b \in Seq(S) /\ Len(b) = m /\ \A i \in 1 .. m : b[i] = t[i]
    BY PrefixFacts
  <1>2. /\ v \in Seq(S) /\ Len(v) = Len(t) + Len(u) /\ Len(t) \in Nat /\ Len(u) \in Nat
        /\ \A i \in 1 .. Len(t) : v[i] = t[i]
    BY ConcatFacts
  <1> HIDE DEF b, v
  <1>3. b \in Seq(S)
    BY <1>1
  <1>4. v \in Seq(S)
    BY <1>2
  <1>5. /\ w \in Seq(S) /\ Len(w) = Len(s) + Len(v) /\ Len(s) \in Nat
        /\ \A i \in 1 .. Len(s) : w[i] = s[i]
        /\ \A i \in 1 .. Len(v) : w[Len(s) + i] = v[i]
    BY <1>4, ConcatFacts
  <1>6. /\ q \in Seq(S) /\ Len(q) = Len(s) + Len(b)
        /\ \A i \in 1 .. Len(s) : q[i] = s[i]
        /\ \A i \in 1 .. Len(b) : q[Len(s) + i] = b[i]
    BY <1>3, ConcatFacts
  <1> HIDE DEF w, q
  <1>7. n \in 0 .. Len(w)
    BY <1>2, <1>5
  <1>8. w \in Seq(S)
    BY <1>5
  <1> HIDE DEF n
  <1>9. /\ p \in Seq(S) /\ Len(p) = n /\ \A i \in 1 .. n : p[i] = w[i]
    BY <1>7, <1>8, PrefixFacts
  <1> HIDE DEF p
  <1>10. ASSUME NEW i \in 1 .. n
         PROVE  q[i] = p[i]
    <2>1. CASE i \in 1 .. Len(s)
      BY <1>5, <1>6, <1>9, <2>1
    <2>2. CASE i \notin 1 .. Len(s)
      <3> DEFINE j == i - Len(s)
      <3>1. j \in 1 .. m /\ i = Len(s) + j /\ j \in 1 .. Len(t) /\ j \in 1 .. Len(v)
        BY <1>2, <1>5, <2>2 DEF n
      <3> HIDE DEF j
      <3>2. q[i] = t[j] /\ p[i] = t[j]
        BY <1>1, <1>2, <1>5, <1>6, <1>9, <3>1
      <3> QED
        BY <3>2
    <2> QED
      BY <2>1, <2>2
  <1>11. Len(q) = n
    BY <1>1, <1>6 DEF n
  <1>12. q \in Seq(S) /\ p \in Seq(S)
    BY <1>6, <1>9
  <1>13. q = p
    BY <1>9, <1>10, <1>11, <1>12, SeqEqual
  <1> QED
    BY <1>7, <1>13 DEF b, n, p, q, v, w

LEMMA OrderKill ==
    ASSUME IInv, InOrder, NoGaps, Kill
    PROVE  InOrder' /\ NoGaps'
  <1> DEFINE B == persist.batch
             batch == IF persist.writing = "issued" THEN B ELSE <<>>
  <1>1. /\ Dies /\ UNCHANGED unchangedByWrites /\ snapshot' = snapshot /\ failed' = failed
        /\ synced' = synced /\ landed' = landed /\ durable' = durable
    BY DEF Kill
  <1>2. /\ SaidFrame \subseteq Frame /\ log \in Seq(SaidFrame) /\ B \in Seq(SaidFrame)
        /\ persist.queue \in Seq(SaidFrame) /\ Pending = B \o persist.queue
        /\ Len(past) \in Nat /\ landed \in 1 .. Len(past) /\ durable \in 1 .. landed
        /\ Len(log) \in Nat /\ synced \in 0 .. Len(log) /\ Len(B) \in Nat
    BY OrderBefore, LenProperties DEF Pending, PendingOf
  <1>3. PICK l \in 0 .. Len(batch) : log' = log \o SubSeq(batch, 1, l)
    BY DEF Kill, Prefixes
  <1>4. PICK m \in 0 .. Len(B) : log' = log \o SubSeq(B, 1, m)
    <2>1. CASE persist.writing = "issued"
      BY <1>3, <2>1
    <2>2. CASE persist.writing # "issued"
      <3>1. l = 0 /\ 0 \in 0 .. Len(B)
        BY <1>2, <1>3, <2>2
      <3>2. SubSeq(batch, 1, 0) = <<>> /\ SubSeq(B, 1, 0) = <<>>
        BY <1>2, <2>2
      <3> QED
        BY <1>3, <3>1, <3>2
    <2> QED
      BY <2>1, <2>2
  <1> DEFINE T == SubSeq(B, 1, m)
             n == Len(log) + m
  <1>5. /\ T \in Seq(SaidFrame) /\ Len(T) = m /\ \A i \in 1 .. m : T[i] = B[i]
    BY <1>2, PrefixFacts
  <1>6. n \in 0 .. Len(Journal) /\ log' = SubSeq(Journal, 1, n)
    <2> DEFINE s == log
               u == persist.queue
    <2>1. s \in Seq(SaidFrame) /\ u \in Seq(SaidFrame) /\ B \in Seq(SaidFrame)
      BY <1>2
    <2>2. Journal = s \o (B \o u) /\ n = Len(s) + m /\ log' = s \o SubSeq(B, 1, m)
      BY <1>2, <1>4 DEF Journal
    <2> HIDE DEF s, u, B
    <2>3. /\ Len(s) + m \in 0 .. Len(s \o (B \o u))
          /\ s \o SubSeq(B, 1, m) = SubSeq(s \o (B \o u), 1, Len(s) + m)
      <3>1. m \in 0 .. Len(B)
        OBVIOUS
      <3> QED
        BY <2>1, <3>1, PrefixOfConcat, SMTT(30)
    <2> QED
      BY <2>2, <2>3
  <1>7. log' \in Seq(SaidFrame) /\ synced' \in synced .. Len(log')
    <2> HIDE DEF T
    <2>1. log' = log \o T
      BY <1>4 DEF T
    <2>2. log' \in Seq(SaidFrame) /\ Len(log') = Len(log) + Len(T) /\ Len(T) \in Nat
      BY <1>2, <1>5, <2>1, ConcatFacts
    <2> QED
      BY <1>1, <1>2, <2>2
  <1>8. \A b \in Nat : Safe(b) => Safe(b)'
    <2> SUFFICES ASSUME NEW b \in Nat, Safe(b)
                 PROVE  Safe(b)'
      OBVIOUS
    <2>1. \A i \in 1 .. Len(T) : Mutates(T[i]) => landed < T[i].rec.at
      <3>1. \A x \in Ats(Pending) : landed < x
        BY DEF InOrder
      <3>2. Ats(B) \subseteq Ats(Pending)
        <4> DEFINE u == persist.queue
        <4>1. B \in Seq(SaidFrame) /\ u \in Seq(SaidFrame) /\ Pending = B \o u
          BY <1>2
        <4> HIDE DEF B, u
        <4>2. Ats(B \o u) = Ats(B) \cup Ats(u)
          BY <4>1, AtsConcat
        <4> QED
          BY <4>1, <4>2
      <3>3. \A i \in 1 .. Len(B) : Mutates(B[i]) => landed < B[i].rec.at
        BY <1>2, <3>1, <3>2, AtsFacts
      <3>4. \A i \in 1 .. Len(T) : i \in 1 .. Len(B) /\ T[i] = B[i]
        BY <1>2, <1>5
      <3> HIDE DEF T
      <3> QED
        BY <3>3, <3>4
    <2>2. T \in Seq(SaidFrame) /\ log' = log \o T /\ b <= b
      BY <1>4, <1>5
    <2> HIDE DEF T
    <2> QED
      BY <1>1, <1>2, <1>7, <2>1, <2>2, SafeGrows
  <1> HIDE DEF n
  <1> QED
    BY <1>1, <1>6, <1>7, <1>8, OrderDeath

LEMMA OrderPowerLoss ==
    ASSUME IInv, InOrder, NoGaps, PowerLoss
    PROVE  InOrder' /\ NoGaps'
  <1>1. /\ Dies /\ UNCHANGED unchangedByWrites /\ snapshot' = snapshot /\ failed' = failed
        /\ synced' = synced /\ landed' = durable /\ durable' = durable
    BY DEF PowerLoss
  <1>2. PICK n \in synced .. Len(log) : log' = SubSeq(log, 1, n)
    BY DEF PowerLoss
  <1>3. /\ log \in Seq(SaidFrame) /\ Pending \in Seq(SaidFrame)
        /\ Len(log) \in Nat /\ synced \in 0 .. Len(log)
    BY OrderBefore
  <1>4. /\ log' \in Seq(SaidFrame) /\ Len(log') = n /\ \A i \in 1 .. n : log'[i] = log[i]
    BY <1>2, <1>3, PrefixFacts
  <1>5. n \in 0 .. Len(Journal) /\ log' = SubSeq(Journal, 1, n)
    <2>1. /\ Journal \in Seq(SaidFrame) /\ Len(Journal) = Len(log) + Len(Pending) /\ Len(Pending) \in Nat
          /\ \A i \in 1 .. Len(log) : Journal[i] = log[i]
      BY <1>3, ConcatFacts DEF Journal
    <2> DEFINE J == Journal
               p == SubSeq(J, 1, n)
    <2>2. J \in Seq(SaidFrame) /\ n \in 0 .. Len(J)
      BY <1>3, <2>1
    <2> HIDE DEF J
    <2>3. p \in Seq(SaidFrame) /\ Len(p) = n /\ \A i \in 1 .. n : p[i] = J[i]
      BY <2>2, PrefixFacts
    <2>4. \A i \in 1 .. n : i \in 1 .. Len(log)
      BY <1>3
    <2> HIDE DEF p
    <2>5. log' = p
      BY <1>4, <2>1, <2>3, <2>4, SeqEqual DEF J
    <2> QED
      BY <2>2, <2>5 DEF J, p
  <1>6. \A b \in Nat : Safe(b) => Safe(b)'
    <2>1. ASSUME NEW m \in synced .. n, NEW d, NEW b
          PROVE  Covered(log', m, d, b) <=> Covered(log, m, d, b)
      <3>1. \A i \in 1 .. m : i \in 1 .. n
        BY <1>3
      <3>2. \A i \in 1 .. m : log'[i] = log[i]
        BY <1>4, <3>1
      <3> QED
        BY <3>2 DEF Covered
    <2>2. n \in synced .. n /\ \A m \in synced .. n : m \in synced .. Len(log)
      BY <1>3
    <2> QED
      BY <1>1, <1>4, <2>1, <2>2 DEF Safe
  <1> QED
    BY <1>1, <1>4, <1>5, <1>6, OrderDeath

LEMMA OrderLapse ==
    ASSUME IInv, InOrder, NoGaps, PlannedEnd, Lapse
    PROVE  InOrder' /\ NoGaps' /\ PlannedEnd'
  <1>1. /\ phase' = phase /\ mode' = mode /\ value' = value /\ ring' = ring /\ persist' = persist
        /\ snapshot' = snapshot /\ log' = log /\ synced' = synced /\ past' = past
        /\ landed' = landed /\ durable' = durable /\ planned' = planned /\ failed' = failed
        /\ lapsed \subseteq lapsed'
    BY DEF Lapse, disk, ghost
  <1>2. SaidFrame' = SaidFrame
    BY <1>1, SameSaid
  <1>3. Pending' = Pending /\ Journal' = Journal
    BY <1>1 DEF Journal, Pending
  <1>4. InOrder'
    <2>1. /\ Ordered(Journal)' <=> Ordered(Journal)
          /\ Ats(Pending)' = Ats(Pending) /\ (Fresh(Pending)' <=> Fresh(Pending))
      BY <1>3 DEF Ordered, Ats, Fresh
    <2> QED
      BY <1>1, <1>2, <1>3, <2>1 DEF InOrder, Recent
  <1>5. NoGaps'
    BY <1>1, <1>3, SameSafe, SteadyNoGaps
  <1>6. PlannedEnd'
    <2>1. Recent(Ats(log))' <=> Recent(Ats(log))
      BY <1>1 DEF Recent, Ats
    <2>2. Fresh(log)' <=> Fresh(log)
      BY <1>1 DEF Fresh
    <2>3. ASSUME planned, NEW k \in Key
          PROVE  (IF Live(value[k]) THEN snapshot.entries[k] = value[k]
                  ELSE ~Live(snapshot.entries[k]) \/ snapshot.entries[k] = Absent)'
      BY <1>1, <2>3 DEF PlannedEnd, Live
    <2> QED
      BY <1>1, <2>1, <2>2, <2>3 DEF PlannedEnd
  <1> QED
    BY <1>4, <1>5, <1>6

LEMMA OrderStutter ==
    ASSUME IInv, InOrder, NoGaps, PlannedEnd, UNCHANGED vars
    PROVE  InOrder' /\ NoGaps' /\ PlannedEnd'
  <1>1. /\ phase' = phase /\ mode' = mode /\ value' = value /\ ring' = ring /\ persist' = persist
        /\ snapshot' = snapshot /\ log' = log /\ synced' = synced /\ past' = past
        /\ landed' = landed /\ durable' = durable /\ planned' = planned /\ failed' = failed
        /\ lapsed' = lapsed
    BY DEF vars, disk, ghost
  <1>2. SaidFrame' = SaidFrame
    BY <1>1, SameSaid
  <1>3. Pending' = Pending /\ Journal' = Journal
    BY <1>1 DEF Journal, Pending
  <1>4. InOrder'
    <2>1. /\ Ordered(Journal)' <=> Ordered(Journal)
          /\ Ats(Pending)' = Ats(Pending) /\ (Fresh(Pending)' <=> Fresh(Pending))
      BY <1>3 DEF Ordered, Ats, Fresh
    <2> QED
      BY <1>1, <1>2, <1>3, <2>1 DEF InOrder, Recent
  <1>5. NoGaps'
    BY <1>1, <1>3, SameSafe, SteadyNoGaps
  <1>6. PlannedEnd'
    BY <1>1 DEF PlannedEnd, Live, Recent, Ats, Fresh
  <1> QED
    BY <1>4, <1>5, <1>6

-----------------------------------------------------------------------------
(* RecentInv: the operations.                                              *)

\* The frames u hold the records of s, and that of the whole frame f at the end.
Extends(u, s, f) ==
    /\ Ats(u) = Ats(s) \cup ({f.rec.at} \ {0})
    /\ Ordered(s) /\ Precede(Ats(s), {f.rec.at}) => Ordered(u)
    /\ Ordered(s) /\ f.rec.at = 0 => Ordered(u)
    /\ Bare(u) \subseteq Bare(s)
    /\ Fresh(s) => Fresh(u)

\* What a whole frame at the end of frames s makes of them.
LEMMA Appended ==
    ASSUME NEW S, S \subseteq Frame, NEW s \in Seq(S), NEW f \in S, f.part = "whole"
    PROVE  s \o <<f>> \in Seq(S) /\ Extends(s \o <<f>>, s, f)
  <1> DEFINE a == <<f>>
             u == s \o a
  <1>1. a \in Seq(S) /\ Len(a) = 1 /\ a[1] = f
    OBVIOUS
  <1>2. Ats(a) = (IF Mutates(f) THEN {f.rec.at} ELSE {}) /\ Ordered(a)
    BY OneAt
  <1>3. f.rec.at \in Nat
    <2>1. f \in Frame
      OBVIOUS
    <2> QED
      BY <2>1, FrameFacts, RecordFacts
  <1>4. Mutates(f) <=> f.rec.at # 0
    BY <1>3 DEF Mutates
  <1>5. Len(s) \in Nat
    BY LenProperties
  <1> HIDE DEF a
  <1>6. a \in Seq(S)
    BY <1>1
  <1>7. /\ u \in Seq(S) /\ Len(u) = Len(s) + Len(a)
        /\ \A i \in 1 .. Len(s) : u[i] = s[i]
        /\ \A i \in 1 .. Len(a) : u[Len(s) + i] = a[i]
    BY <1>6, ConcatFacts
  <1>8. Ats(u) = Ats(s) \cup Ats(a)
    BY <1>6, AtsConcat
  <1>9. Ordered(u) <=> Ordered(s) /\ Ordered(a) /\ Precede(Ats(s), Ats(a))
    BY <1>6, OrderedConcat
  <1> HIDE DEF u
  <1>10. Len(u) = Len(s) + 1 /\ u[Len(s) + 1] = f
    <2>1. 1 \in 1 .. Len(a)
      BY <1>1
    <2> QED
      BY <1>1, <1>7, <2>1
  <1>11. \A i \in 1 .. Len(u) : i \in 1 .. Len(s) \/ i = Len(s) + 1
    BY <1>5, <1>10
  <1>12. Bare(u) \subseteq Bare(s)
    <2>1. ASSUME NEW j \in 1 .. Len(u), u[j].part = "rest"
          PROVE  /\ j \in 1 .. Len(s) /\ s[j] = u[j]
                 /\ \A g \in 1 .. j - 1 : s[g] = u[g]
      <3>1. j \in 1 .. Len(s)
        BY <1>10, <1>11, <2>1
      <3>2. \A g \in 1 .. j - 1 : g \in 1 .. Len(s)
        BY <1>5, <3>1
      <3> QED
        BY <1>7, <3>1, <3>2
    <2>2. Inherits(u, s)
      BY <2>1 DEF Inherits
    <2>3. u \in Seq(S)
      BY <1>7
    <2> QED
      BY <2>2, <2>3, BareFacts
  <1>13. Fresh(s) => Fresh(u)
    <2>1. DOMAIN s = 1 .. Len(s) /\ DOMAIN u = 1 .. Len(u)
      BY <1>7, LenProperties
    <2> QED
      BY <1>7, <1>10, <1>11, <2>1 DEF Fresh
  <1>14. Ordered(s) /\ Precede(Ats(s), {f.rec.at}) => Ordered(u)
    BY <1>2, <1>9 DEF Precede
  <1>15. Ordered(s) /\ f.rec.at = 0 => Ordered(u)
    BY <1>2, <1>4, <1>9 DEF Precede
  <1> QED
    BY <1>2, <1>4, <1>7, <1>8, <1>12, <1>13, <1>14, <1>15 DEF Extends, a, u

\* A synchronous append: the frames it adds, and what of the log is on the disk.
LEMMA WriteSyncFrames ==
    ASSUME NEW R, NEW S, NEW recs \in Seq(R), \A r \in R : [rec |-> r, part |-> "whole"] \in S,
           log \in Seq(S), synced \in 0 .. Len(log), WriteSync(recs)
    PROVE  \E frames \in Seq(S) :
             /\ Written(frames)
             /\ \E q \in Seq(R) : frames = Whole(q)
             /\ \/ failed' = failed /\ frames = Whole(recs)
                \/ failed' = TRUE /\ \E i \in DOMAIN recs : frames = Whole(RemoveAt(recs, i))
             /\ synced' \in synced .. Len(log')
             /\ durable' = durable \/ (durable' = landed' /\ synced' = Len(log'))
  <1>1. PICK q \in Seq(R) : /\ Written(Whole(q))
                            /\ \/ failed' = failed /\ q = recs
                               \/ failed' = TRUE /\ \E i \in DOMAIN recs : q = RemoveAt(recs, i)
    <2>1. \A i \in DOMAIN recs : RemoveAt(recs, i) \in Seq(R)
      BY RemoveFacts
    <2> QED
      BY <2>1 DEF WriteSync
  <1> DEFINE frames == Whole(q)
  <1>2. frames \in Seq(S)
    BY WholeFacts
  <1> HIDE DEF frames
  <1>3. log' = log \o frames
    BY <1>1 DEF Written, frames
  <1>4. Len(log') = Len(log) + Len(frames) /\ Len(log) \in Nat /\ Len(frames) \in Nat
    BY <1>2, <1>3, ConcatFacts
  <1>5. /\ synced' \in synced .. Len(log')
        /\ durable' = durable \/ (durable' = landed' /\ synced' = Len(log'))
    BY <1>4 DEF WriteSync
  <1> QED
    BY <1>1, <1>2, <1>5 DEF frames

LEMMA WriteNothing ==
    ASSUME NEW S, log \in Seq(S), NEW n \in Nat, landed \in 1 .. n, WriteSync(<<>>)
    PROVE  /\ log' = log /\ landed' = landed /\ synced' = synced /\ durable' = durable
           /\ failed' = failed
  <1>1. Whole(<<>>) = <<>>
    BY DEF Whole
  <1>2. Written(<<>>) /\ failed' = failed
    BY <1>1 DEF WriteSync
  <1>3. log' = log
    BY <1>2, ConcatEmptySeq DEF Written
  <1>4. landed' = landed
    <2>1. {landed} \cup {<<>>[i].rec.at : i \in DOMAIN <<>>} = {landed}
      OBVIOUS
    <2>2. MaxOf({landed}) \in {landed}
      <3>1. {landed} \subseteq 0 .. n /\ {landed} # {}
        OBVIOUS
      <3> QED
        BY <3>1, MaxFacts
    <2> QED
      BY <1>2, <2>1, <2>2 DEF Written
  <1> QED
    BY <1>2, <1>3, <1>4 DEF WriteSync

\* A step that adds the last mutation to the journal.
LEMMA GrownNoGaps ==
    ASSUME IInv, InOrder, NoGaps, failed => failed', snapshot' = snapshot, phase' = phase,
           phase # "down", NEW store, past' = Append(past, store),
           Ats(Journal') = Ats(Journal) \cup {Len(past) + 1}, Bare(Journal') \subseteq Bare(Journal),
           \A b \in Nat : Safe(b) => Safe(b)'
    PROVE  NoGaps'
  <1> SUFFICES ASSUME ~failed'
               PROVE  /\ (\A x \in Ats(Journal), z \in Reached : x .. z \subseteq Ats(Journal))'
                      /\ (\A x \in Bare(Journal), y \in Ats(Journal) : x <= y)'
                      /\ (\A k \in Key : Untimed(k) => \E b \in DOMAIN past : Base(k, b))'
    BY DEF NoGaps
  <1> DEFINE A == Ats(Journal)
             B == Ats(Journal')
             n == Len(past)
  <1>1. /\ \A x \in A, z \in Reached : x .. z \subseteq A
        /\ \A x \in Bare(Journal), y \in A : x <= y
        /\ \A k \in Key : Untimed(k) => \E b \in DOMAIN past : Base(k, b)
    BY DEF NoGaps
  <1>2. Ats(Journal)' = B /\ Bare(Journal)' = Bare(Journal')
    BY DEF Ats, Bare, Headed
  <1>3. /\ n \in Nat /\ n > 0 /\ DOMAIN past = 1 .. n /\ A \subseteq 2 .. n
        /\ Bare(Journal) \subseteq A
    BY OrderBefore, BareAts
  <1>4. /\ DOMAIN past' = 1 .. n + 1 /\ Len(past') = n + 1
        /\ \A i \in 1 .. n : past'[i] = past[i]
    <2>1. past \in Seq([Key -> Entry])
      BY DEF IInv, TypeOK
    <2> QED
      BY <2>1
  <1>5. Reached' = A \cup {n + 1} /\ n \in Reached /\ B = A \cup {n + 1}
    BY <1>2, <1>4 DEF Reached
  <1> HIDE DEF A, B, n
  <1>6. ASSUME NEW l \in Nat, l .. n \subseteq A
        PROVE  \A z \in Reached' : l .. z \subseteq B
    <2> SUFFICES ASSUME NEW z \in Reached', NEW y \in l .. z
                 PROVE  y \in B
      OBVIOUS
    <2>1. z \in 2 .. n + 1
      BY <1>3, <1>5
    <2>2. y \in l .. n \/ y = n + 1
      BY <1>3, <2>1
    <2> QED
      BY <1>5, <1>6, <2>2
  <1>7. \A x \in B, z \in Reached' : x .. z \subseteq B
    <2> SUFFICES ASSUME NEW x \in B
                 PROVE  \A z \in Reached' : x .. z \subseteq B
      OBVIOUS
    <2>1. CASE x \in A
      <3>1. x \in Nat /\ x .. n \subseteq A
        BY <1>1, <1>3, <1>5, <2>1
      <3> QED
        BY <1>6, <3>1
    <2>2. CASE x = n + 1
      <3>1. x \in Nat /\ x .. n = {}
        BY <1>3, <2>2
      <3> QED
        BY <1>6, <3>1
    <2> QED
      BY <1>5, <2>1, <2>2
  <1>8. \A x \in Bare(Journal'), y \in B : x <= y
    <2>1. \A x \in Bare(Journal') : x \in Bare(Journal) /\ x \in 2 .. n
      BY <1>3
    <2> QED
      BY <1>1, <1>3, <1>5, <2>1
  <1>9. ASSUME NEW k \in Key, Untimed(k)'
        PROVE  (\E b \in DOMAIN past : Base(k, b))'
    <2>1. Untimed(k)
      <3>1. \A i \in 1 .. n : i \in 1 .. n + 1
        BY <1>3
      <3> QED
        BY <1>3, <1>4, <1>9, <3>1 DEF Untimed
    <2>2. PICK b \in 1 .. n : Base(k, b)
      BY <1>1, <1>3, <2>1
    <2>3. b \in Nat /\ b + 1 \in Nat /\ b \in 1 .. n + 1
      BY <1>3
    <2>4. (snapshot.entries[k] = past[b][k])'
      BY <1>4, <2>2 DEF Base
    <2>5. \A z \in Reached' : b + 1 .. z \subseteq B
      <3>1. b + 1 .. n \subseteq A
        BY <1>5, <2>2 DEF Base, A
      <3> QED
        BY <1>6, <2>3, <3>1
    <2>6. \A x \in Bare(Journal') : x <= b
      BY <2>2 DEF Base
    <2>7. Safe(b)'
      BY <2>2, <2>3 DEF Base
    <2>8. Base(k, b)'
      BY <1>2, <2>4, <2>5, <2>6, <2>7 DEF Base
    <2> QED
      BY <1>4, <2>3, <2>8
  <1> QED
    BY <1>2, <1>7, <1>8, <1>9 DEF B

\* The records that are written down go on saying what they said, and the new one
\* says what its mutation did.
LEMMA SaidGrows ==
    ASSUME IInv, InOrder, NEW store, NEW rec, Mutation(store, rec)
    PROVE  /\ SaidFrame \subseteq SaidFrame'
           /\ [rec |-> rec, part |-> "whole"] \in SaidFrame'
           /\ Len(past') = Len(past) + 1 /\ past'[Len(past')] = store
  <1> DEFINE n == Len(past)
  <1>1. /\ past' = Append(past, store) /\ ring' = ring /\ rec \in Record /\ rec.at = n + 1
        /\ rec.op \in {"set", "del", "clear"}
        /\ \A k \in Key : store[k] = IF Writes(rec, k) THEN Result(rec) ELSE value[k]
    BY DEF Mutation, Mutate
  <1>2. n \in Nat /\ n > 0 /\ past \in Seq([Key -> Entry]) /\ value = past[n]
    BY OrderBefore DEF IInv, TypeOK, InOrder
  <1>3. Len(past') = n + 1 /\ past'[n + 1] = store /\ \A i \in 1 .. n : past'[i] = past[i]
    BY <1>1, <1>2
  <1>4. SaidFrame \subseteq SaidFrame'
    <2> SUFFICES ASSUME NEW f \in SaidFrame
                 PROVE  f \in SaidFrame'
      OBVIOUS
    <2>1. f \in Frame /\ Says(f.rec) /\ (f.rec.op = "pub" => ring # <<>> \/ Retention = 0)
      BY DEF SaidFrame
    <2>2. Says(f.rec)'
      <3> SUFFICES ASSUME f.rec.op \in {"set", "del", "clear"}
                   PROVE  /\ f.rec.at \in 2 .. Len(past')
                          /\ \A k \in Key : past'[f.rec.at][k] =
                               IF Writes(f.rec, k) THEN Result(f.rec) ELSE past'[f.rec.at - 1][k]
        BY DEF Says
      <3>1. /\ f.rec.at \in 2 .. n
            /\ \A k \in Key : past[f.rec.at][k] =
                 IF Writes(f.rec, k) THEN Result(f.rec) ELSE past[f.rec.at - 1][k]
        BY <2>1 DEF Says
      <3>2. f.rec.at \in 1 .. n /\ f.rec.at - 1 \in 1 .. n /\ f.rec.at \in 2 .. n + 1
        BY <1>2, <3>1
      <3> QED
        BY <1>3, <3>1, <3>2
    <2> QED
      BY <1>1, <2>1, <2>2 DEF SaidFrame
  <1>5. Says(rec)'
    <2>1. rec.at - 1 = n /\ rec.at \in 2 .. n + 1 /\ n \in 1 .. n
      BY <1>1, <1>2
    <2> HIDE DEF n
    <2>2. \A k \in Key : past'[rec.at][k] = IF Writes(rec, k) THEN Result(rec) ELSE past'[rec.at - 1][k]
      BY <1>1, <1>2, <1>3, <2>1
    <2> QED
      BY <1>3, <2>1, <2>2 DEF Says
  <1>6. [rec |-> rec, part |-> "whole"] \in Frame
    BY <1>1 DEF Frame
  <1>7. [rec |-> rec, part |-> "whole"] \in SaidFrame'
    BY <1>1, <1>5, <1>6 DEF SaidFrame
  <1> QED
    BY <1>3, <1>4, <1>7

LEMMA OrderMutate ==
    ASSUME IInv, InOrder, NoGaps, NEW store, NEW rec, Mutation(store, rec)
    PROVE  InOrder' /\ NoGaps'
  <1> DEFINE n == Len(past)
             f == [rec |-> rec, part |-> "whole"]
             S == SaidFrame'
  <1>1. /\ phase = "up" /\ phase' = phase /\ mode' = mode /\ snapshot' = snapshot /\ ring' = ring
        /\ value' = store /\ past' = Append(past, store) /\ Log(persist, <<>>, rec, FALSE)
        /\ rec \in Record /\ rec.at = n + 1
    BY DEF Mutation, Mutate, Operation
  <1>2. /\ SaidFrame \subseteq S /\ f \in S /\ Len(past') = n + 1 /\ past'[n + 1] = store
        /\ S \subseteq Frame
    BY SaidGrows DEF SaidFrame
  <1>3. /\ log \in Seq(SaidFrame) /\ Pending \in Seq(SaidFrame) /\ Journal \in Seq(SaidFrame)
        /\ n \in Nat /\ n > 0 /\ landed \in 1 .. n /\ durable \in 1 .. landed
        /\ Len(log) \in Nat /\ synced \in 0 .. Len(log)
        /\ Ats(Journal) \subseteq 2 .. n /\ Ats(Journal) = Ats(log) \cup Ats(Pending)
        /\ Ordered(log) /\ SaidFrame \subseteq Frame /\ persist \in Memory(SaidFrame)
    BY OrderBefore
  <1>4. /\ Ordered(Journal) /\ Recent(Ats(Pending)) /\ Fresh(Pending)
        /\ \A x \in Ats(Pending) : landed < x
        /\ persist.writing = "no" => persist.batch = <<>>
        /\ mode = "always" => Pending = <<>>
    BY DEF InOrder
  <1>5. /\ log \in Seq(S) /\ Pending \in Seq(S) /\ Journal \in Seq(S) /\ persist \in Memory(S)
    BY <1>2, <1>3, MemoryMonotonic
  <1>6. f.part = "whole" /\ f.rec = rec /\ Mutates(f)
    BY <1>1, <1>3 DEF Mutates
  <1>7. f \in S /\ f.part = "whole" /\ S \subseteq Frame
    BY <1>2
  <1>8. f.rec.at = n + 1 /\ {f.rec.at} \ {0} = {n + 1}
    BY <1>1, <1>3
  <1> HIDE DEF S, f
  <1>9. CASE mode # "always"
    <2>1. WriteSync(<<>>) /\ persist' = Counted(Queued(persist, rec))
      BY <1>1, <1>9 DEF Log
    <2>2. /\ log' = log /\ landed' = landed /\ synced' = synced /\ durable' = durable
          /\ failed' = failed
      BY <1>3, <2>1, WriteNothing
    <2>3. /\ persist' \in Memory(S) /\ Pending' = Pending \o <<f>>
          /\ persist'.writing = "no" => persist'.batch = <<>>
      <3> DEFINE q == Queued(persist, rec)
      <3>1. [rec |-> rec, part |-> "whole"] \in S
        BY <1>2 DEF f
      <3>2. q \in Memory(S)
        BY <1>5, <3>1, QueuedFacts
      <3>3. /\ PendingOf(q) = PendingOf(persist) \o <<[rec |-> rec, part |-> "whole"]>>
            /\ q.writing = "no" => q.batch = <<>>
        BY <1>4, <1>5, <3>1, QueuedPending
      <3> HIDE DEF q
      <3>4. Counted(q) \in Memory(S) /\ PendingOf(Counted(q)) = PendingOf(q)
            /\ Counted(q).writing = q.writing /\ Counted(q).batch = q.batch
        BY <3>2, CountedFacts, CountedPending
      <3> QED
        BY <2>1, <3>3, <3>4 DEF Pending, f, q
    <2>4. Journal' = Journal \o <<f>>
      <3> DEFINE a == <<f>>
                 l == log
                 p == Pending
      <3>1. a \in Seq(S)
        BY <1>2
      <3>2. l \in Seq(S) /\ p \in Seq(S)
        BY <1>5
      <3>3. Journal = l \o p /\ Journal' = l \o (p \o a)
        BY <2>2, <2>3 DEF Journal
      <3> HIDE DEF a, l, p
      <3>4. (l \o p) \o a = l \o (p \o a)
        BY <3>1, <3>2, Associative
      <3> QED
        BY <3>3, <3>4 DEF a
    <2>5. /\ Ats(Journal \o <<f>>) = Ats(Journal) \cup {n + 1} /\ Ordered(Journal \o <<f>>)
          /\ Bare(Journal \o <<f>>) \subseteq Bare(Journal)
      <3> DEFINE J == Journal
      <3>1. J \in Seq(S)
        BY <1>5
      <3>2. Ordered(J) /\ Precede(Ats(J), {f.rec.at})
        BY <1>1, <1>3, <1>4, <1>6, <1>8 DEF Precede
      <3> HIDE DEF J
      <3>3. Extends(J \o <<f>>, J, f)
        BY <1>7, <3>1, Appended
      <3> QED
        BY <1>8, <3>2, <3>3 DEF Extends, J
    <2>6. Ats(Pending \o <<f>>) = Ats(Pending) \cup {n + 1} /\ Fresh(Pending \o <<f>>)
      <3> DEFINE p == Pending
      <3>1. p \in Seq(S)
        BY <1>5
      <3>2. Fresh(p)
        BY <1>4
      <3> HIDE DEF p
      <3>3. Extends(p \o <<f>>, p, f)
        BY <1>7, <3>1, Appended
      <3> QED
        BY <1>8, <3>2, <3>3 DEF Extends, p
    <2>7. InOrder'
      <3>1. Ordered(Journal)' /\ Fresh(Pending)'
        <4>1. Ordered(Journal') /\ Fresh(Pending')
          BY <2>3, <2>4, <2>5, <2>6
        <4> QED
          BY <4>1 DEF Ordered, Fresh
      <3>2. Recent(Ats(Pending))' /\ (\A x \in Ats(Pending) : landed < x)'
        <4>1. Ats(Pending)' = Ats(Pending) \cup {n + 1}
          BY <2>3, <2>6 DEF Ats
        <4>2. \A x \in Ats(Pending) \cup {n + 1} : x .. n + 1 \subseteq Ats(Pending) \cup {n + 1}
          <5> SUFFICES ASSUME NEW x \in Ats(Pending) \cup {n + 1}, NEW y \in x .. n + 1
                       PROVE  y \in Ats(Pending) \cup {n + 1}
            OBVIOUS
          <5>1. x \in Nat
            BY <1>3
          <5>2. CASE y = n + 1
            BY <5>2
          <5>3. CASE y # n + 1
            <6>1. x \in Ats(Pending) /\ y \in x .. n
              BY <1>3, <5>1, <5>3
            <6> QED
              BY <1>4, <6>1 DEF Recent
          <5> QED
            BY <5>2, <5>3
        <4>3. \A x \in Ats(Pending) \cup {n + 1} : landed < x
          BY <1>3, <1>4
        <4> QED
          BY <1>2, <2>2, <4>1, <4>2, <4>3 DEF Recent
      <3> QED
        BY <1>1, <1>2, <1>5, <1>9, <2>2, <2>3, <3>1, <3>2 DEF InOrder, S
    <2>8. \A b \in Nat : Safe(b) => Safe(b)'
      BY <2>2, SameSafe
    <2> QED
      BY <1>1, <2>2, <2>4, <2>5, <2>7, <2>8, GrownNoGaps
  <1>10. CASE mode = "always"
    <2>1. WriteSync(Append(<<>>, rec)) /\ persist' = Counted(persist)
      BY <1>1, <1>10 DEF Log
    <2>2. Append(<<>>, rec) = <<rec>>
      OBVIOUS
    <2>3. /\ persist' \in Memory(S) /\ Pending' = <<>> /\ Pending = <<>>
          /\ persist'.writing = "no" => persist'.batch = <<>>
      <3>1. Counted(persist) \in Memory(S)
        BY <1>5, CountedFacts
      <3>2. /\ PendingOf(Counted(persist)) = PendingOf(persist)
            /\ Counted(persist).writing = persist.writing /\ Counted(persist).batch = persist.batch
        BY <1>5, CountedPending
      <3> QED
        BY <1>4, <1>10, <2>1, <3>1, <3>2 DEF Pending
    <2>4. Journal = log /\ Journal' = log'
      <3>1. log' \in Seq(S)
        <4> DEFINE R == {rec}
        <4>1. <<rec>> \in Seq(R) /\ \A r \in R : [rec |-> r, part |-> "whole"] \in S
          BY <1>2 DEF f
        <4> HIDE DEF R
        <4>2. \E frames \in Seq(S) : Written(frames)
          BY <1>3, <1>5, <2>1, <2>2, <4>1, WriteSyncFrames
        <4> QED
          BY <1>5, <4>2, ConcatProperties DEF Written
      <3> QED
        BY <1>5, <2>3, <3>1, ConcatEmptySeq DEF Journal
    <2>5. \A i \in DOMAIN <<rec>> : RemoveAt(<<rec>>, i) = <<>>
      BY DEF RemoveAt
    <2>6. Whole(<<rec>>) = <<f>> /\ Whole(<<>>) = <<>>
      <3>1. [rec |-> rec, part |-> "whole"] \in S
        BY <1>2 DEF f
      <3> QED
        BY <3>1, WholeOne DEF f, Whole
    <2>7. PICK frames \in Seq(S) :
            /\ Written(frames)
            /\ \/ failed' = failed /\ frames = <<f>>
               \/ failed' = TRUE /\ frames = <<>>
            /\ synced' \in synced .. Len(log')
            /\ durable' = durable \/ (durable' = landed' /\ synced' = Len(log'))
      <3> DEFINE R == {rec}
      <3>1. <<rec>> \in Seq(R)
        OBVIOUS
      <3>2. \A r \in R : [rec |-> r, part |-> "whole"] \in S
        BY <1>2 DEF f
      <3>3. WriteSync(<<rec>>)
        BY <2>1, <2>2
      <3> HIDE DEF R
      <3>4. \E frames \in Seq(S) :
              /\ Written(frames)
              /\ \/ failed' = failed /\ frames = Whole(<<rec>>)
                 \/ failed' = TRUE /\ \E i \in DOMAIN <<rec>> : frames = Whole(RemoveAt(<<rec>>, i))
              /\ synced' \in synced .. Len(log')
              /\ durable' = durable \/ (durable' = landed' /\ synced' = Len(log'))
        BY <1>3, <1>5, <3>1, <3>2, <3>3, WriteSyncFrames
      <3> QED
        BY <2>5, <2>6, <3>4
    <2>8. CASE failed' = failed /\ frames = <<f>>
      <3>1. log' = log \o <<f>> /\ log' \in Seq(S)
        <4> HIDE DEF n
        <4>1. log \o <<f>> \in Seq(S)
          BY <1>5, <1>7, Appended
        <4> QED
          BY <2>7, <2>8, <4>1 DEF Written
      <3>2. landed' = n + 1
        <4>1. /\ \A i \in 1 .. Len(<<f>>) : <<f>>[i].rec.at = n + 1
              /\ n + 1 \in Nat /\ landed \in 1 .. n + 1
          BY <1>3, <1>7, <1>8
        <4>2. Written(<<f>>)
          BY <2>7, <2>8
        <4> DEFINE m == n + 1
                   fs == <<f>>
        <4>3. /\ fs \in Seq(S) /\ m \in Nat /\ \A i \in 1 .. Len(fs) : fs[i].rec.at <= m
              /\ Len(fs) = 1 /\ fs[1].rec.at = m
          BY <1>3, <1>7, <1>8
        <4> HIDE DEF m, fs
        <4>4. \A i \in 1 .. Len(fs) : fs[i].rec.at <= landed'
          BY <1>7, <4>1, <4>2, <4>3, LandedFacts DEF fs, m
        <4>5. landed' = landed \/ \E i \in 1 .. Len(fs) : landed' = fs[i].rec.at
          BY <1>7, <4>1, <4>2, <4>3, LandedFacts DEF fs, m
        <4> QED
          BY <1>3, <4>3, <4>4, <4>5 DEF m
      <3>3. /\ Ats(log \o <<f>>) = Ats(log) \cup {n + 1} /\ Ordered(log \o <<f>>)
            /\ Bare(log \o <<f>>) \subseteq Bare(log)
        <4>1. Ordered(log) /\ Precede(Ats(log), {f.rec.at})
          BY <1>3, <1>8 DEF Precede
        <4>2. log \in Seq(S)
          BY <1>5
        <4> HIDE DEF n
        <4>3. Extends(log \o <<f>>, log, f)
          BY <1>7, <4>2, Appended
        <4> QED
          BY <1>8, <4>1, <4>3 DEF Extends
      <3>4. \A b \in Nat : Safe(b) => Safe(b)'
        <4> SUFFICES ASSUME NEW b \in Nat, Safe(b) PROVE Safe(b)'
          OBVIOUS
        <4> DEFINE m == n + 1
                   fs == <<f>>
        <4>1. m \in Nat /\ landed \in 1 .. m /\ b <= b
          BY <1>3
        <4>2. /\ fs \in Seq(S) /\ log' = log \o fs
              /\ \A i \in 1 .. Len(fs) : Mutates(fs[i]) => landed < fs[i].rec.at
              /\ \E i \in 1 .. Len(fs) : Mutates(fs[i]) /\ landed' = fs[i].rec.at
          BY <1>3, <1>6, <1>7, <1>8, <3>1, <3>2
        <4>3. log \in Seq(S)
          BY <1>5
        <4> HIDE DEF m, fs
        <4> QED
          BY <1>3, <1>7, <2>7, <4>1, <4>2, <4>3, SafeGrows
      <3>5. InOrder'
        <4>1. Ordered(Journal)'
          <5>1. Ordered(Journal')
            BY <2>4, <3>1, <3>3
          <5> QED
            BY <5>1 DEF Ordered
        <4>2. Ats(Pending)' = {} /\ Fresh(Pending)'
          <5>1. Ats(Pending') = {} /\ Fresh(Pending')
            BY <2>3, EmptyJournal
          <5> QED
            BY <5>1 DEF Ats, Fresh
        <4> QED
          BY <1>1, <1>2, <2>3, <3>1, <4>1, <4>2 DEF InOrder, Recent, S
      <3>6. NoGaps'
        <4>1. /\ Ats(Journal') = Ats(Journal) \cup {n + 1} /\ Bare(Journal') \subseteq Bare(Journal)
          BY <2>4, <3>1, <3>3
        <4>2. snapshot' = snapshot /\ phase' = phase /\ phase # "down" /\ past' = Append(past, store)
          BY <1>1
        <4> QED
          BY <2>8, <3>4, <4>1, <4>2, GrownNoGaps
      <3> QED
        BY <3>5, <3>6
    <2>9. CASE failed' = TRUE /\ frames = <<>>
      <3>1. log' = log
        BY <1>5, <2>7, <2>9, ConcatEmptySeq DEF Written
      <3>2. Ordered(Journal)'
        <4>1. Ordered(Journal')
          BY <1>4, <2>4, <3>1
        <4> QED
          BY <4>1 DEF Ordered
      <3>3. Ats(Pending)' = {} /\ Fresh(Pending)'
        <4>1. Ats(Pending') = {} /\ Fresh(Pending')
          BY <2>3, EmptyJournal
        <4> QED
          BY <4>1 DEF Ats, Fresh
      <3>4. InOrder'
        BY <1>1, <1>2, <1>5, <2>3, <3>1, <3>2, <3>3 DEF InOrder, Recent, S
      <3> QED
        BY <2>9, <3>4 DEF NoGaps
    <2> QED
      BY <2>7, <2>8, <2>9
  <1> QED
    BY <1>9, <1>10

\* Appends to the journal that record no mutation: the frames written, and one to write.
LEMMA OrderAppended ==
    ASSUME IInv, InOrder, NoGaps, phase = "up", phase' = phase, mode' = mode,
           value' = value, past' = past, snapshot' = snapshot, failed => failed',
           SaidFrame \subseteq SaidFrame', SaidFrame' \subseteq Frame,
           NEW frames \in Seq(SaidFrame'), Still(frames), Written(frames),
           synced' \in synced .. Len(log'),
           durable' = durable \/ (durable' = landed' /\ synced' = Len(log')),
           NEW g \in SaidFrame', g.part = "whole", g.rec.at = 0,
           persist' \in Memory(SaidFrame'), persist'.writing = "no" => persist'.batch = <<>>,
           Pending' = Pending \/ (mode # "always" /\ Pending' = Pending \o <<g>>)
    PROVE  InOrder' /\ NoGaps'
  <1> DEFINE S == SaidFrame'
             l == log
             p == Pending
             X == (l \o frames) \o p
  <1>1. /\ log \in Seq(SaidFrame) /\ Pending \in Seq(SaidFrame)
        /\ Len(past) \in Nat /\ landed \in 1 .. Len(past) /\ durable \in 1 .. landed
        /\ Len(log) \in Nat /\ synced \in 0 .. Len(log)
    BY OrderBefore
  <1>2. /\ Ordered(Journal) /\ Recent(Ats(Pending)) /\ Fresh(Pending)
        /\ \A x \in Ats(Pending) : landed < x
        /\ mode = "always" => Pending = <<>>
        /\ value = past[Len(past)]
    BY DEF InOrder
  <1>3. S \subseteq Frame /\ frames \in Seq(S) /\ g \in S /\ SaidFrame \subseteq S
    OBVIOUS
  <1>4. l \in Seq(S)
    BY <1>1
  <1>5. p \in Seq(S)
    BY <1>1
  <1>6. log' = l \o frames /\ \A i \in 1 .. Len(frames) : frames[i].rec.at = 0
    <2>1. DOMAIN frames = 1 .. Len(frames)
      BY LenProperties
    <2> QED
      BY <2>1 DEF Still, Written
  <1>7. landed' = landed
    <2> DEFINE n == Len(past)
    <2>1. n \in Nat /\ landed \in 1 .. n /\ \A i \in 1 .. Len(frames) : frames[i].rec.at <= n
      BY <1>1, <1>6
    <2> HIDE DEF n, S
    <2>2. /\ landed <= landed'
          /\ landed' = landed \/ \E i \in 1 .. Len(frames) : landed' = frames[i].rec.at
      BY <1>3, <2>1, LandedFacts
    <2> QED
      BY <1>1, <1>6, <2>2
  <1> HIDE DEF S, l, p
  <1>8. SameRecords(X, l \o p)
    BY <1>3, <1>4, <1>5, Inserted
  <1>9. l \o frames \in Seq(S) /\ X \in Seq(S)
    <2>1. l \o frames \in Seq(S)
      BY <1>3, <1>4, Associates
    <2> DEFINE a == l \o frames
    <2> HIDE DEF a
    <2>2. a \o p \in Seq(S)
      BY <1>5, <2>1, Associates DEF a
    <2> QED
      BY <2>1, <2>2 DEF a
  <1>10. Journal = l \o p
    BY DEF Journal, l, p
  <1>11. /\ Ats(Journal') = Ats(Journal) /\ Ordered(Journal')
         /\ Bare(Journal') \subseteq Bare(Journal)
         /\ Ats(Pending') = Ats(Pending) /\ Fresh(Pending')
    <2>1. CASE Pending' = Pending
      <3>1. Journal' = X
        BY <1>6, <2>1 DEF Journal, p
      <3> QED
        BY <1>2, <1>8, <1>10, <2>1, <3>1 DEF SameRecords
    <2>2. CASE Pending' = Pending \o <<g>>
      <3> DEFINE a == l \o frames
                 b == <<g>>
      <3>1. b \in Seq(S)
        BY <1>3
      <3>2. a \in Seq(S)
        BY <1>9
      <3>3. Journal' = a \o (p \o b)
        BY <1>6, <2>2 DEF Journal, p
      <3> HIDE DEF a, b
      <3>4. (a \o p) \o b = a \o (p \o b)
        BY <1>5, <3>1, <3>2, Associative, SMTT(30)
      <3>5. Extends(X \o <<g>>, X, g)
        <4> HIDE DEF X
        <4> QED
          BY <1>3, <1>9, Appended
      <3>6. Extends(p \o <<g>>, p, g)
        BY <1>3, <1>5, Appended
      <3>7. Journal' = X \o <<g>> /\ Pending' = p \o <<g>>
        BY <2>2, <3>3, <3>4 DEF a, b, p
      <3> HIDE DEF X
      <3>8. {g.rec.at} \ {0} = {}
        OBVIOUS
      <3>9. Ats(Journal') = Ats(X) /\ Bare(Journal') \subseteq Bare(X)
        BY <3>5, <3>7, <3>8 DEF Extends
      <3>10. Ordered(X) => Ordered(Journal')
        BY <3>5, <3>7 DEF Extends
      <3>11. Ats(Pending') = Ats(p) /\ (Fresh(p) => Fresh(Pending'))
        BY <3>6, <3>7, <3>8 DEF Extends
      <3> QED
        BY <1>2, <1>8, <1>10, <3>9, <3>10, <3>11 DEF SameRecords, p
    <2> QED
      BY <2>1, <2>2
  <1>12. InOrder'
    <2>1. Ordered(Journal)' /\ Fresh(Pending)' /\ Ats(Pending)' = Ats(Pending')
      BY <1>11 DEF Ordered, Fresh, Ats
    <2>2. Recent(Ats(Pending))' /\ (\A x \in Ats(Pending) : landed < x)'
      BY <1>2, <1>7, <1>11, <2>1 DEF Recent
    <2>3. value' = past'[Len(past')] /\ log' \in Seq(SaidFrame')
      BY <1>2, <1>6, <1>9 DEF S
    <2>4. (mode = "always" \/ phase = "down" => Pending = <<>>)'
      BY <1>2
    <2> QED
      BY <2>1, <2>2, <2>3, <2>4 DEF InOrder
  <1>13. \A b \in Nat : Safe(b) => Safe(b)'
    <2> SUFFICES ASSUME NEW b \in Nat, Safe(b) PROVE Safe(b)'
      OBVIOUS
    <2> DEFINE m == Len(past)
    <2>1. m \in Nat /\ landed \in 1 .. m /\ b <= b
      BY <1>1
    <2>2. \A i \in 1 .. Len(frames) : Mutates(frames[i]) => landed < frames[i].rec.at
      BY <1>6 DEF Mutates
    <2>3. log \in Seq(S) /\ log' = log \o frames
      BY <1>4, <1>6 DEF l
    <2> HIDE DEF m
    <2> QED
      BY <1>1, <1>3, <1>7, <2>1, <2>2, <2>3, SafeGrows
  <1>14. NoGaps'
    BY <1>11, <1>13, SteadyNoGaps
  <1> QED
    BY <1>12, <1>14

\* Once a message is published, some are retained.
LEMMA SaidPublished ==
    ASSUME TypeOK, past' = past, NEW n \in Nat, ring' = Retain(Append(ring, n))
    PROVE  /\ SaidFrame \subseteq SaidFrame' /\ SaidFrame' \subseteq Frame
           /\ \A f \in Frame : f.rec.op \in {"offset", "pub"} => f \in SaidFrame'
  <1>1. ring' # <<>> \/ Retention = 0
    <2> DEFINE q == Append(ring, n)
    <2>1. q \in Seq(Nat) /\ Len(q) = Len(ring) + 1 /\ Len(ring) \in Nat
      BY DEF TypeOK
    <2> HIDE DEF q
    <2>2. Retention \in Nat
      BY PersistenceAssumption
    <2>3. CASE Len(q) <= Retention
      <3>1. Len(ring') # 0
        BY <2>1, <2>3 DEF Retain, q
      <3> QED
        BY <3>1, EmptySeq
    <2>4. CASE ~(Len(q) <= Retention)
      <3>1. ring' = SubSeq(q, Len(q) - Retention + 1, Len(q))
        BY <2>4 DEF Retain, q
      <3>2. Len(q) - Retention + 1 \in 1 .. Len(q) + 1
        BY <2>1, <2>2, <2>4
      <3>3. Len(ring') = Len(q) + 1 - (Len(q) - Retention + 1)
        BY <2>1, <3>1, <3>2, SuffixFacts
      <3>4. Retention # 0 => Len(ring') # 0
        BY <2>1, <2>2, <3>3
      <3> QED
        BY <3>4, EmptySeq
    <2> QED
      BY <2>3, <2>4
  <1> QED
    BY <1>1 DEF SaidFrame, Says

LEMMA OrderPublish ==
    ASSUME IInv, InOrder, NoGaps, NEW sync \in BOOLEAN, Publish(sync)
    PROVE  InOrder' /\ NoGaps'
  <1> DEFINE n     == nextOffset + 1
             new   == n > persist.offsetReserved
             p     == IF new THEN [persist EXCEPT !.offsetReserved = Ceiling(n)] ELSE persist
             b     == [op |-> "offset", offset |-> Ceiling(n), at |-> 0]
             rec   == [op |-> "pub", offset |-> n, at |-> 0]
             block == IF new THEN <<b>> ELSE <<>>
             g     == [rec |-> rec, part |-> "whole"]
             R     == {b, rec}
             S     == SaidFrame'
  <1>1. /\ phase = "up" /\ phase' = phase /\ mode' = mode /\ snapshot' = snapshot
        /\ value' = value /\ past' = past /\ ring' = Retain(Append(ring, n))
        /\ Log(p, block, rec, sync)
    BY DEF Publish, Operation
  <1>2. n \in Nat /\ TypeOK
    BY DEF IInv, TypeOK
  <1>3. R \subseteq Record
    BY <1>2, CeilingFacts DEF Record
  <1>4. SaidFrame \subseteq S /\ S \subseteq Frame
    BY <1>1, <1>2, SaidPublished
  <1>5. \A r \in R : [rec |-> r, part |-> "whole"] \in S
    <2>1. \A f \in Frame : f.rec.op \in {"offset", "pub"} => f \in S
      BY <1>1, <1>2, SaidPublished
    <2>2. \A r \in R : [rec |-> r, part |-> "whole"] \in Frame /\ r.op \in {"offset", "pub"}
      BY <1>3 DEF Frame
    <2> QED
      BY <2>1, <2>2
  <1>6. g \in S /\ g.part = "whole" /\ g.rec.at = 0
    BY <1>5
  <1>7. block \in Seq(R) /\ Append(block, rec) \in Seq(R) /\ \A r \in R : r.at = 0
    <2>1. rec \in R /\ b \in R /\ \A r \in R : r.at = 0
      OBVIOUS
    <2> HIDE DEF R, rec, b, new
    <2>2. block \in Seq(R)
      BY <2>1
    <2> HIDE DEF block
    <2>3. Append(block, rec) \in Seq(R)
      BY <2>1, <2>2, AppendProperties
    <2> QED
      BY <2>1, <2>2, <2>3
  <1>8. /\ log \in Seq(S) /\ persist \in Memory(S) /\ synced \in 0 .. Len(log)
        /\ persist.writing = "no" => persist.batch = <<>>
    <2>1. log \in Seq(SaidFrame) /\ persist \in Memory(SaidFrame) /\ synced \in 0 .. Len(log)
      BY OrderBefore
    <2> QED
      BY <1>4, <2>1, MemoryMonotonic DEF InOrder
  <1>9. /\ p \in Memory(S) /\ PendingOf(p) = Pending
        /\ p.writing = "no" => p.batch = <<>>
    <2>1. Ceiling(n) \in Nat
      BY <1>2, CeilingFacts
    <2> HIDE DEF S, n
    <2> QED
      BY <1>8, <2>1 DEF Memory, Pending, PendingOf
  <1>10. \/ /\ WriteSync(Append(block, rec))
            /\ persist' = p \/ persist' = Counted(p)
         \/ /\ WriteSync(block)
            /\ persist' = Counted(Queued(p, rec)) /\ mode # "always"
    BY <1>1 DEF Log
  <1> HIDE DEF n, new, p, b, block, R, S
  <1>11. PICK recs \in Seq(R) : WriteSync(recs)
    BY <1>7, <1>10
  <1>12. PICK frames \in Seq(S) :
           /\ Written(frames) /\ \E q \in Seq(R) : frames = Whole(q)
           /\ failed' = failed \/ failed' = TRUE
           /\ synced' \in synced .. Len(log')
           /\ durable' = durable \/ (durable' = landed' /\ synced' = Len(log'))
    <2>1. \E frames \in Seq(S) :
           /\ Written(frames) /\ \E q \in Seq(R) : frames = Whole(q)
           /\ \/ failed' = failed /\ frames = Whole(recs)
              \/ failed' = TRUE /\ \E i \in DOMAIN recs : frames = Whole(RemoveAt(recs, i))
           /\ synced' \in synced .. Len(log')
           /\ durable' = durable \/ (durable' = landed' /\ synced' = Len(log'))
      BY <1>5, <1>8, <1>11, WriteSyncFrames
    <2> QED
      BY <2>1
  <1>13. Still(frames)
    <2>1. PICK q \in Seq(R) : frames = Whole(q)
      BY <1>12
    <2>2. DOMAIN frames = DOMAIN q /\ \A i \in DOMAIN q : q[i] \in R /\ frames[i].rec = q[i]
      BY <2>1 DEF Whole
    <2> QED
      BY <1>7, <2>2 DEF Still
  <1>14. /\ persist' \in Memory(S) /\ (persist'.writing = "no" => persist'.batch = <<>>)
         /\ Pending' = Pending \/ (mode # "always" /\ Pending' = Pending \o <<g>>)
    <2>1. /\ Counted(p) \in Memory(S) /\ PendingOf(Counted(p)) = PendingOf(p)
          /\ Counted(p).writing = p.writing /\ Counted(p).batch = p.batch
      BY <1>9, CountedFacts, CountedPending
    <2> DEFINE q == Queued(p, rec)
    <2>2. [rec |-> rec, part |-> "whole"] \in S
      BY <1>6
    <2> HIDE DEF rec
    <2>3. q \in Memory(S)
      BY <1>9, <2>2, QueuedFacts
    <2>4. /\ PendingOf(q) = PendingOf(p) \o <<g>>
          /\ q.writing = "no" => q.batch = <<>>
      BY <1>9, <2>2, QueuedPending
    <2> HIDE DEF q
    <2>5. Counted(q) \in Memory(S) /\ PendingOf(Counted(q)) = PendingOf(q)
          /\ Counted(q).writing = q.writing /\ Counted(q).batch = q.batch
      BY <2>3, CountedFacts, CountedPending
    <2>6. CASE persist' = p \/ persist' = Counted(p)
      BY <1>9, <2>1, <2>6 DEF Pending
    <2>7. CASE persist' = Counted(q) /\ mode # "always"
      BY <1>9, <2>4, <2>5, <2>7 DEF Pending
    <2> QED
      BY <1>10, <2>6, <2>7 DEF q
  <1> HIDE DEF g
  <1> QED
    BY <1>1, <1>4, <1>6, <1>12, <1>13, <1>14, OrderAppended DEF S

-----------------------------------------------------------------------------
(* RecentInv: recovery.                                                    *)

\* Recovery reads the first frames, as far as they decode.
LEMMA ReadableFirst ==
    ASSUME IInv, NEW n \in 0 .. Len(log), \A i \in 1 .. n : Decodes(i)
    PROVE  \A i \in 1 .. n : log[i].part # "head" => i \in Readable
  <1> DEFINE T == {m \in 0 .. Len(log) : \A i \in 1 .. m : Decodes(i)}
  <1>1. Len(log) \in Nat
    BY Before
  <1>2. n \in T /\ T \subseteq 0 .. Len(log)
    OBVIOUS
  <1>3. Readable = {i \in 1 .. MaxOf(T) : log[i].part # "head"}
    BY DEF Readable
  <1> HIDE DEF T
  <1>4. MaxOf(T) \in 0 .. Len(log) /\ n <= MaxOf(T)
    BY <1>1, <1>2, MaxFacts
  <1> QED
    BY <1>1, <1>3, <1>4

LEMMA ReadableNone ==
    ASSUME IInv, ~Decodes(1)
    PROVE  Readable = {}
  <1> DEFINE T == {m \in 0 .. Len(log) : \A i \in 1 .. m : Decodes(i)}
  <1>1. Len(log) \in Nat
    BY Before
  <1>2. 0 \in T /\ T \subseteq 0 .. Len(log) /\ \A m \in T : m = 0
    BY <1>1
  <1>3. Readable = {i \in 1 .. MaxOf(T) : log[i].part # "head"}
    BY DEF Readable
  <1> HIDE DEF T
  <1>4. MaxOf(T) = 0
    BY <1>1, <1>2, MaxFacts
  <1>5. 1 .. MaxOf(T) = {}
    BY <1>4
  <1> QED
    BY <1>3, <1>5

\* What no mutation from a to c writes is the same after all of them.
LEMMA Unwritten ==
    ASSUME NEW a \in Nat, NEW c \in Nat, a <= c, NEW k,
           \A m \in a + 1 .. c : past[m][k] = past[m - 1][k]
    PROVE  past[c][k] = past[a][k]
  <1> DEFINE T == {m \in a .. c : past[m][k] # past[a][k]}
  <1> SUFFICES ASSUME T # {} PROVE FALSE
    OBVIOUS
  <1>1. T \subseteq Nat
    OBVIOUS
  <1> HIDE DEF T
  <1>2. PICK m \in T : \A y \in T : m <= y
    BY <1>1, NatMin
  <1>3. m \in a + 1 .. c /\ past[m][k] # past[a][k]
    BY DEF T
  <1>4. m - 1 \in a .. c /\ m - 1 \notin T
    BY <1>2, <1>3
  <1> QED
    BY <1>3, <1>4 DEF T

\* A frame of the log says what its mutation did to a key without TTLs, and so does
\* recovery when it reads it.
LEMMA FrameRead ==
    ASSUME IInv, InOrder, NEW k \in Key, Untimed(k), NEW i \in 1 .. Len(log), Mutates(log[i])
    PROVE  LET rec == log[i].rec
           IN  /\ rec.at \in 2 .. Len(past)
               /\ Affects(rec, k) => past[rec.at][k] = Result(rec)
               /\ ~Affects(rec, k) => past[rec.at][k] = past[rec.at - 1][k]
  <1> DEFINE rec == log[i].rec
  <1>1. log \in Seq(SaidFrame) /\ DOMAIN past = 1 .. Len(past) /\ Len(past) \in Nat
    BY OrderBefore
  <1>2. log[i] \in SaidFrame
    BY <1>1
  <1>3. rec.at > 0 /\ rec.op \in {"set", "del", "clear"} /\ Says(rec)
    BY <1>2, SaidFacts DEF Mutates
  <1> HIDE DEF rec
  <1>4. /\ rec.at \in 2 .. Len(past)
        /\ past[rec.at][k] = IF Writes(rec, k) THEN Result(rec) ELSE past[rec.at - 1][k]
    BY <1>3 DEF Says
  <1>5. past[rec.at][k].e = 0
    BY <1>1, <1>4 DEF Untimed
  <1>6. \A x : x.e = 0 => Live(x)
    <2>1. lapsed \subseteq 1 .. ops
      BY DEF IInv, TypeOK
    <2> QED
      BY <2>1 DEF Live
  <1>7. Affects(rec, k) <=> Writes(rec, k)
    BY <1>3, <1>4, <1>5, <1>6 DEF Affects, Writes, Result
  <1> QED
    BY <1>4, <1>7 DEF rec

\* The frames of which recovery takes what key k holds.
WritesTo(k) == {i \in Readable : Affects(log[i].rec, k)}

\* Recovery has read every record of a mutation that there is in the log.
AllRead == \A i \in 1 .. Len(log) : Mutates(log[i]) => i \in Readable

\* Key k, when recovery finds no record that writes it: it is as in the snapshot...
LEMMA NeverWritten ==
    ASSUME IInv, NEW k \in Key, WritesTo(k) = {}, snapshot.entries[k].e = 0
    PROVE  RecoveredEntry(k) = snapshot.entries[k]
  <1>1. Live(snapshot.entries[k])
    <2>1. lapsed \subseteq 1 .. ops
      BY DEF IInv, TypeOK
    <2> QED
      BY <2>1 DEF Live
  <1> QED
    BY <1>1 DEF RecoveredEntry, WritesTo

\* ... and as after the mutations that are on record.
LEMMA NoneWritten ==
    ASSUME IInv, InOrder, AllRead, NEW k \in Key, Untimed(k), WritesTo(k) = {},
           NEW b \in Nat, NEW c \in Nat, b <= c, b + 1 .. c \subseteq Ats(log)
    PROVE  past[c][k] = past[b][k]
  <1>1. \A m \in b + 1 .. c : past[m][k] = past[m - 1][k]
    <2> SUFFICES ASSUME NEW m \in b + 1 .. c
                 PROVE  past[m][k] = past[m - 1][k]
      OBVIOUS
    <2>1. log \in Seq(SaidFrame) /\ m \in Ats(log)
      BY OrderBefore
    <2>2. PICK i \in 1 .. Len(log) : Mutates(log[i]) /\ log[i].rec.at = m
      BY <2>1, AtsFacts
    <2>3. ~Affects(log[i].rec, k)
      BY <2>2 DEF AllRead, WritesTo
    <2> QED
      BY <2>2, <2>3, FrameRead
  <1> QED
    BY <1>1, Unwritten

\* Key k, when there are such records: what the last of them writes is not
\* overwritten by the mutations that follow it.
LEMMA LastWritten ==
    ASSUME IInv, InOrder, AllRead, NEW k \in Key, Untimed(k), WritesTo(k) # {},
           NEW c \in Nat, \A x \in Ats(log) : x <= c /\ x .. c \subseteq Ats(log)
    PROVE  RecoveredEntry(k) = past[c][k]
  <1> DEFINE w == MaxOf(WritesTo(k))
             a == log[w].rec.at
  <1>1. /\ log \in Seq(SaidFrame) /\ Ordered(log) /\ Len(log) \in Nat
        /\ DOMAIN log = 1 .. Len(log)
    BY OrderBefore, LenProperties
  <1>2. w \in WritesTo(k) /\ \A i \in WritesTo(k) : i <= w
    <2> DEFINE T == WritesTo(k)
    <2>1. T \subseteq 0 .. Len(log) /\ T # {}
      BY ReadableFacts DEF WritesTo
    <2> HIDE DEF T
    <2>2. MaxOf(T) \in T /\ \A i \in T : i <= MaxOf(T)
      BY <1>1, <2>1, MaxFacts
    <2> QED
      BY <2>2 DEF T
  <1>3. w \in 1 .. Len(log) /\ w \in Readable /\ Affects(log[w].rec, k)
    BY <1>2, ReadableFacts DEF WritesTo
  <1>4. Mutates(log[w])
    <2>1. log[w].part # "head"
      BY <1>3 DEF Readable
    <2>2. log[w] \in SaidFrame /\ log[w].rec.op \in {"set", "del", "clear"}
      BY <1>1, <1>3 DEF Affects
    <2>3. log[w].rec.at \in 2 .. Len(past)
      BY <2>2 DEF SaidFrame, Says
    <2>4. Len(past) \in Nat
      BY OrderBefore
    <2> QED
      BY <2>1, <2>3, <2>4 DEF Mutates
  <1>5. RecoveredEntry(k) = Result(log[w].rec)
    BY <1>2 DEF RecoveredEntry, WritesTo, Result
  <1> HIDE DEF w
  <1>6. a \in 2 .. Len(past) /\ past[a][k] = Result(log[w].rec)
    BY <1>3, <1>4, FrameRead
  <1>7. a \in Nat /\ a \in Ats(log)
    <2>1. Len(past) \in Nat
      BY OrderBefore
    <2> QED
      BY <1>1, <1>3, <1>4, <1>6, <2>1, AtsFacts
  <1>8. \A m \in a + 1 .. c : past[m][k] = past[m - 1][k]
    <2> SUFFICES ASSUME NEW m \in a + 1 .. c
                 PROVE  past[m][k] = past[m - 1][k]
      OBVIOUS
    <2>1. m \in Ats(log) /\ a < m
      BY <1>7
    <2>2. PICK i \in 1 .. Len(log) : Mutates(log[i]) /\ log[i].rec.at = m
      BY <1>1, <2>1, AtsFacts
    <2>3. ~(i <= w)
      <3>1. i # w
        BY <1>7, <2>1, <2>2
      <3>2. i < w => m < a
        BY <1>1, <1>3, <1>4, <2>2 DEF Ordered
      <3> QED
        BY <1>3, <1>7, <2>1, <3>1, <3>2
    <2>4. ~Affects(log[i].rec, k)
      BY <1>2, <2>2, <2>3 DEF AllRead, WritesTo
    <2> QED
      BY <2>2, <2>4, FrameRead
  <1>9. past[c][k] = past[a][k]
    <2>1. a <= c
      BY <1>7
    <2> HIDE DEF a
    <2> QED
      BY <1>7, <1>8, <2>1, Unwritten
  <1> QED
    BY <1>5, <1>6, <1>9

\* A broker that is down has nothing to write but what is in the log.
LEMMA DownJournal ==
    ASSUME IInv, InOrder, phase = "down"
    PROVE  Pending = <<>> /\ Journal = log /\ Reached = Ats(log)
  <1>1. Pending = <<>> /\ log \in Seq(SaidFrame)
    BY DEF InOrder
  <1>2. Journal = log
    BY <1>1, ConcatEmptySeq DEF Journal
  <1> QED
    BY <1>1, <1>2 DEF Reached

\* In a log that is whole but for its end, a record recovery does not read is the
\* last, and has lost its head.
LEMMA UnreadEnd ==
    ASSUME IInv, InOrder, LogIsWhole, NEW i \in 1 .. Len(log), Mutates(log[i]), i \notin Readable
    PROVE  i = Len(log) /\ log[i].rec.at \in Bare(log)
  <1>1. /\ log \in Seq(SaidFrame) /\ Ordered(log) /\ Len(log) \in Nat /\ SaidFrame \subseteq Frame
        /\ DOMAIN log = 1 .. Len(log)
    BY OrderBefore, LenProperties
  <1>2. log[i] \in Frame /\ log[i].part # "head" /\ log[i].rec.at > 0
    BY <1>1 DEF Mutates
  <1>3. ~(\A j \in 1 .. i : Decodes(j))
    <2>1. i \in 0 .. Len(log) /\ i \in 1 .. i
      BY <1>1
    <2> QED
      BY <1>2, <2>1, ReadableFirst
  <1>4. i = Len(log) /\ ~Decodes(i)
    <2>1. \A j \in 1 .. i : j = i \/ j \in 1 .. Len(log) - 1
      BY <1>1
    <2>2. ~Decodes(i)
      BY <1>3, <2>1 DEF LogIsWhole
    <2>3. i \in 1 .. Len(log) - 1 => Decodes(i)
      BY DEF LogIsWhole
    <2>4. Len(log) \in Nat /\ i \notin 1 .. Len(log) - 1
      BY <1>1, <2>2, <2>3
    <2>5. i = Len(log)
      BY <2>4
    <2> QED
      BY <2>2, <2>5
  <1>5. log[i].part = "rest"
    <2>1. log[i].part \in {"whole", "head", "rest"}
      BY <1>2, FrameFacts
    <2> QED
      BY <1>2, <1>4, <2>1 DEF Decodes
  <1>6. ~Headed(log, i)
    <2> SUFFICES ASSUME NEW h \in 1 .. i - 1, log[h] = [log[i] EXCEPT !.part = "head"]
                 PROVE  FALSE
      BY DEF Headed
    <2>1. h # i - 1
      <3>1. i > 1
        BY <1>1
      <3> QED
        BY <1>4, <1>5, <3>1 DEF Decodes
    <2>2. h \in 1 .. Len(log) - 1 /\ h + 1 \in 1 .. Len(log) /\ h + 1 < i
      BY <1>1, <1>4, <2>1
    <2>3. Decodes(h) /\ log[h].part = "head"
      <3>1. [log[i] EXCEPT !.part = "head"].part = "head"
        BY <1>2 DEF Frame
      <3> QED
        BY <2>2, <3>1 DEF LogIsWhole
    <2>4. log[h + 1] = [log[h] EXCEPT !.part = "rest"]
      BY <2>3 DEF Decodes
    <2>5. log[h + 1] = log[i]
      <3> DEFINE f == log[i]
      <3>1. f \in Frame /\ f.part = "rest"
        BY <1>2, <1>5
      <3> HIDE DEF f
      <3>2. [[f EXCEPT !.part = "head"] EXCEPT !.part = "rest"] = f
        BY <3>1 DEF Frame
      <3> QED
        BY <2>4, <3>2 DEF f
    <2>6. log[i].rec.at \in Nat
      BY <1>2, FrameFacts, RecordFacts
    <2>7. log[h + 1].rec.at < log[i].rec.at
      BY <1>1, <2>2, <2>5 DEF Ordered
    <2> QED
      BY <2>5, <2>6, <2>7
  <1> QED
    BY <1>1, <1>2, <1>4, <1>5, <1>6 DEF Bare

\* What recovery reads of a key is the record of a mutation.
LEMMA WritesMutate ==
    ASSUME IInv, InOrder, NEW k \in Key, NEW j \in WritesTo(k)
    PROVE  j \in Readable /\ j \in 1 .. Len(log) /\ Affects(log[j].rec, k) /\ Mutates(log[j])
  <1>1. log \in Seq(SaidFrame) /\ Len(past) \in Nat
    BY OrderBefore
  <1>2. j \in Readable /\ j \in 1 .. Len(log) /\ Affects(log[j].rec, k)
    BY ReadableFacts DEF WritesTo
  <1>3. log[j].part # "head"
    BY <1>2 DEF Readable
  <1>4. log[j] \in SaidFrame /\ log[j].rec.op \in {"set", "del", "clear"}
    BY <1>1, <1>2 DEF Affects
  <1>5. log[j].rec.at \in 2 .. Len(past)
    BY <1>4 DEF SaidFrame, Says
  <1> QED
    BY <1>1, <1>2, <1>3, <1>5 DEF Mutates

\* What recovery makes of a key without TTLs is what it held after a mutation no
\* earlier than those that are in the log, and than the last that has landed.
LEMMA Replay ==
    ASSUME IInv, InOrder, NoGaps, phase = "down", ~failed, LogIsWhole, NEW k \in Key, Untimed(k)
    PROVE  \E j \in 1 .. Len(past) :
             /\ RecoveredEntry(k) = past[j][k]
             /\ landed <= j /\ Safe(j) /\ \A x \in Ats(log) : x <= j
  <1> DEFINE n == Len(past)
             A == Ats(log)
  <1>1. /\ log \in Seq(SaidFrame) /\ Ordered(log) /\ Len(log) \in Nat /\ SaidFrame \subseteq Frame
        /\ DOMAIN log = 1 .. Len(log) /\ n \in Nat /\ DOMAIN past = 1 .. n
        /\ landed \in 1 .. n /\ durable \in 1 .. landed
    BY OrderBefore, LenProperties
  <1>2. Journal = log /\ Reached = A
    BY DownJournal
  <1>3. A \subseteq 2 .. n
    BY <1>1, SaidAts
  <1>4. /\ \A x, z \in A : x .. z \subseteq A
        /\ \A x \in Bare(log), y \in A : x <= y
    BY <1>2 DEF NoGaps
  <1>5. PICK b \in 1 .. n : Base(k, b)
    BY <1>1 DEF NoGaps
  <1>6. /\ snapshot.entries[k] = past[b][k] /\ Safe(b)
        /\ \A z \in A : b + 1 .. z \subseteq A
        /\ \A x \in Bare(log) : x <= b
    BY <1>2, <1>5 DEF Base
  <1>7. snapshot.entries[k].e = 0
    BY <1>1, <1>6 DEF Untimed
  <1>8. \/ \E x \in A : landed <= x
        \/ landed <= b /\ A = {}
    <2>1. Covered(log, Len(log), landed, b)
      BY <1>6 DEF Safe
    <2>2. /\ \A i \in 1 .. Len(log) : Mutates(log[i]) => log[i].rec.at \in A
          /\ \A x \in A : \E i \in 1 .. Len(log) : Mutates(log[i])
      BY <1>1, AtsFacts
    <2> QED
      BY <2>1, <2>2 DEF Covered
  <1>9. ASSUME \A x \in A : x <= b, WritesTo(k) = {}
        PROVE  \E j \in 1 .. n :
                 /\ RecoveredEntry(k) = past[j][k]
                 /\ landed <= j /\ Safe(j) /\ \A x \in A : x <= j
    <2>1. RecoveredEntry(k) = past[b][k]
      BY <1>6, <1>7, <1>9, NeverWritten
    <2>2. landed <= b
      BY <1>1, <1>3, <1>8, <1>9
    <2> QED
      BY <1>6, <1>9, <2>1, <2>2
  <1> HIDE DEF n, A
  <1>10. CASE ~AllRead
    <2>1. PICK i \in 1 .. Len(log) : Mutates(log[i]) /\ i \notin Readable
      BY <1>10 DEF AllRead
    <2>2. i = Len(log) /\ log[i].rec.at \in Bare(log)
      BY <2>1, UnreadEnd
    <2>3. \A j \in 1 .. Len(log) : Mutates(log[j]) => j = i
      <3> SUFFICES ASSUME NEW j \in 1 .. Len(log), Mutates(log[j]), j # i
                   PROVE  FALSE
        OBVIOUS
      <3>1. j < i
        <4>1. Len(log) \in Nat /\ i = Len(log)
          BY <1>1, <2>2
        <4> QED
          BY <4>1
      <3>2. log[j].rec.at < log[i].rec.at
        BY <1>1, <2>1, <3>1 DEF Ordered
      <3>3. log[j].rec.at \in A
        BY <1>1, AtsFacts DEF A
      <3>4. log[i].rec.at \in A
        BY <1>1, <2>1, AtsFacts DEF A
      <3>5. log[i].rec.at <= log[j].rec.at
        BY <1>4, <2>2, <3>3
      <3>6. log[i].rec.at \in Nat /\ log[j].rec.at \in Nat
        <4>1. A \subseteq Nat \ {0}
          BY <1>1, AtsNat DEF A
        <4> QED
          BY <3>3, <3>4, <4>1
      <3> QED
        BY <3>2, <3>5, <3>6
    <2>4. \A x \in A : x <= b
      <3>1. \A x \in A : \E j \in 1 .. Len(log) : Mutates(log[j]) /\ log[j].rec.at = x
        BY <1>1, AtsFacts DEF A
      <3> QED
        BY <1>6, <2>2, <2>3, <3>1
    <2>5. WritesTo(k) = {}
      <3> SUFFICES ASSUME NEW j \in WritesTo(k) PROVE FALSE
        OBVIOUS
      <3>1. j \in Readable /\ j \in 1 .. Len(log) /\ Mutates(log[j])
        BY WritesMutate
      <3> QED
        BY <2>1, <2>3, <3>1
    <2> QED
      BY <1>9, <2>4, <2>5 DEF n, A
  <1>11. CASE AllRead /\ A = {}
    <2>1. WritesTo(k) = {}
      <3> SUFFICES ASSUME NEW j \in WritesTo(k) PROVE FALSE
        OBVIOUS
      <3>1. j \in 1 .. Len(log) /\ Mutates(log[j])
        BY WritesMutate
      <3>2. log[j].rec.at \in A
        BY <1>1, <3>1, AtsFacts DEF A
      <3> QED
        BY <1>11, <3>2
    <2> QED
      BY <1>9, <1>11, <2>1 DEF n, A
  <1>12. CASE AllRead /\ A # {}
    <2> DEFINE c == MaxOf(A)
    <2>1. c \in A /\ \A x \in A : x <= c
      <3>1. A \subseteq 0 .. n
        BY <1>1, <1>3
      <3> QED
        BY <1>1, <1>12, <3>1, MaxFacts
    <2>2. c \in 1 .. n /\ c \in Nat
      <3>1. c \in 2 .. n /\ n \in Nat
        BY <1>1, <1>3, <2>1
      <3> QED
        BY <3>1
    <2> HIDE DEF c
    <2>3. landed <= c /\ durable <= c
      BY <1>1, <1>3, <1>8, <1>12, <2>1, <2>2
    <2>4. Safe(c)
      <3>1. b \in Nat /\ durable \in Nat /\ landed \in Nat
        BY <1>1
      <3> QED
        BY <1>6, <2>2, <2>3, <3>1, SafeLater
    <2>5. CASE WritesTo(k) # {}
      <3>1. \A x \in Ats(log) : x <= c /\ x .. c \subseteq Ats(log)
        BY <1>4, <2>1 DEF A
      <3>2. RecoveredEntry(k) = past[c][k]
        BY <1>12, <2>2, <2>5, <3>1, LastWritten
      <3> QED
        BY <2>1, <2>2, <2>3, <2>4, <3>2 DEF n, A
    <2>6. CASE WritesTo(k) = {} /\ c <= b
      <3>1. \A x \in A : x <= b
        BY <1>1, <1>3, <2>1, <2>2, <2>6
      <3> QED
        BY <1>9, <2>6, <3>1 DEF n, A
    <2>7. CASE WritesTo(k) = {} /\ ~(c <= b)
      <3>1. b \in Nat /\ b <= c /\ b + 1 .. c \subseteq Ats(log)
        BY <1>1, <1>6, <2>1, <2>2, <2>7 DEF A
      <3>2. past[c][k] = past[b][k]
        BY <1>12, <2>2, <2>7, <3>1, NoneWritten
      <3>3. RecoveredEntry(k) = past[b][k]
        BY <1>6, <1>7, <2>7, NeverWritten
      <3> QED
        BY <2>1, <2>2, <2>3, <2>4, <3>2, <3>3 DEF n, A
    <2> QED
      BY <2>5, <2>6, <2>7
  <1> QED
    BY <1>10, <1>11, <1>12 DEF n, A

\* Recovery: the broker is up with what it has read and an empty log, or it dies once
\* that is in the snapshot.
LEMMA OrderLoad ==
    ASSUME IInv, InOrder, NoGaps, PlannedEnd, Load
    PROVE  InOrder' /\ NoGaps' /\ PlannedEnd'
  <1> DEFINE store == [k \in Key |-> RecoveredEntry(k)]
             n     == Len(past)
  <1>1. /\ phase = "down" /\ failed' = (failed \/ ~LogIsWhole) /\ lapsed' = lapsed
        /\ snapshot'.entries = [k \in Key |-> IF Live(store[k]) THEN store[k] ELSE Absent]
        /\ mode' = mode
    BY DEF Load, Snapshot
  <1>2. /\ log \in Seq(SaidFrame) /\ Ordered(log) /\ Len(log) \in Nat /\ n \in Nat
        /\ DOMAIN past = 1 .. n /\ SaidFrame \subseteq Frame
    BY OrderBefore
  <1>3. Pending = <<>> /\ Journal = log /\ Reached = Ats(log)
    BY <1>1, DownJournal
  <1>4. \A x : x.e = 0 => Live(x)
    <2>1. lapsed \subseteq 1 .. ops
      BY DEF IInv, TypeOK
    <2> QED
      BY <2>1 DEF Live
  <1>5. \A k \in Key : store[k].e = 0 => snapshot'.entries[k] = store[k]
    <2> HIDE DEF store
    <2> QED
      BY <1>1, <1>4
  <1>6. RecoveredOffset \in Nat
    BY OffsetFacts
  <1>7. PlannedEnd'
    BY DEF Load, Dies, PlannedEnd
  <1>8. CASE /\ phase' = "up" /\ value' = store /\ persist' = NoPersist(RecoveredOffset)
             /\ log' = <<>> /\ synced' = 0 /\ past' = <<store>> /\ landed' = 1 /\ durable' = 1
    <2> HIDE DEF store, n
    <2>1. Pending' = <<>> /\ Journal' = <<>> /\ persist'.writing = "no" /\ persist'.batch = <<>>
      BY <1>8 DEF Pending, PendingOf, NoPersist, Journal
    <2>2. /\ Ats(Journal)' = {} /\ Bare(Journal)' = {} /\ Ats(Pending)' = {}
          /\ Ordered(Journal)' /\ Fresh(Pending)'
      <3>1. /\ Ats(Journal') = {} /\ Bare(Journal') = {} /\ Ats(Pending') = {}
            /\ Ordered(Journal') /\ Fresh(Pending')
        BY <2>1, EmptyJournal
      <3> QED
        BY <3>1 DEF Ats, Bare, Headed, Ordered, Fresh
    <2>3. Len(past') = 1 /\ past'[1] = store /\ DOMAIN past' = {1}
      BY <1>8
    <2>4. InOrder'
      <3>1. log' \in Seq(SaidFrame') /\ persist' \in Memory(SaidFrame')
        BY <1>6, <1>8, NoPersistFacts, EmptySeq
      <3> QED
        BY <1>8, <2>1, <2>2, <2>3, <3>1 DEF InOrder, Recent
    <2>5. Safe(1)'
      <3>1. Len(log') = 0 /\ synced' = 0 /\ durable' = 1 /\ landed' = 1
        BY <1>8, EmptySeq
      <3> QED
        BY <3>1 DEF Safe, Covered
    <2>6. Reached' = {1}
      BY <1>8, <2>2, <2>3 DEF Reached
    <2>7. ASSUME NEW k \in Key, Untimed(k)'
          PROVE  Base(k, 1)'
      <3>1. store[k].e = 0
        BY <2>3, <2>7 DEF Untimed
      <3>2. snapshot'.entries[k] = past'[1][k]
        BY <1>5, <2>3, <3>1
      <3>3. \A z \in Reached' : 1 + 1 .. z = {}
        BY <2>6
      <3> QED
        BY <2>2, <2>5, <3>2, <3>3 DEF Base
    <2>8. NoGaps'
      BY <2>2, <2>3, <2>7 DEF NoGaps
    <2> QED
      BY <1>7, <2>4, <2>8
  <1>9. CASE /\ Dies /\ value' = value /\ log' = log /\ synced' = synced /\ past' = past
             /\ landed' = landed /\ durable' = durable /\ ring' = ring
    <2>1. phase' = "down" /\ persist' = NoPersist(0)
      BY <1>9 DEF Dies
    <2>2. InOrder' /\ Pending' = <<>> /\ Journal' = log'
      BY <1>2, <1>9, <2>1, OrderDown
    <2>3. /\ Ats(Journal)' = Ats(log) /\ Bare(Journal)' = Bare(log)
          /\ Reached' = Ats(log)
      <3>1. Journal' = log
        BY <1>9, <2>2
      <3>2. Ats(Journal)' = Ats(log) /\ Bare(Journal)' = Bare(log)
        BY <3>1 DEF Ats, Bare, Headed
      <3> QED
        BY <2>1, <3>2 DEF Reached
    <2>4. ASSUME ~failed'
          PROVE  NoGaps'
      <3>1. ~failed /\ LogIsWhole
        BY <1>1, <2>4
      <3>2. /\ \A x, z \in Ats(log) : x .. z \subseteq Ats(log)
            /\ \A x \in Bare(log), y \in Ats(log) : x <= y
        BY <1>3, <3>1 DEF NoGaps
      <3>3. ASSUME NEW k \in Key, Untimed(k)'
            PROVE  \E b \in DOMAIN past' : Base(k, b)'
        <4>1. Untimed(k)
          BY <1>9, <3>3 DEF Untimed
        <4>2. PICK j \in 1 .. n :
                 /\ RecoveredEntry(k) = past[j][k]
                 /\ Safe(j) /\ \A x \in Ats(log) : x <= j
          BY <1>1, <3>1, <4>1, Replay
        <4>3. snapshot'.entries[k] = past[j][k]
          <5>1. store[k] = past[j][k]
            BY <4>2
          <5>2. past[j][k].e = 0
            BY <1>2, <4>1, <4>2 DEF Untimed
          <5> QED
            BY <1>5, <5>1, <5>2
        <4>4. Safe(j)'
          BY <1>9, <4>2, SameSafe
        <4>5. \A z \in Reached' : j + 1 .. z = {}
          <5>1. Ats(log) \subseteq Nat \ {0}
            BY <1>2, AtsNat
          <5>2. j \in Nat
            BY <1>2
          <5> QED
            BY <2>3, <4>2, <5>1, <5>2
        <4>6. \A x \in Bare(log) : x <= j
          BY <1>2, <4>2, BareAts
        <4>7. Base(k, j)'
          BY <1>9, <2>3, <4>3, <4>4, <4>5, <4>6 DEF Base
        <4> QED
          BY <1>2, <1>9, <4>7
      <3> QED
        BY <2>3, <3>2, <3>3 DEF NoGaps
    <2>5. NoGaps'
      BY <2>4 DEF NoGaps
    <2> QED
      BY <1>7, <2>2, <2>5
  <1> QED
    BY <1>8, <1>9 DEF Load

-----------------------------------------------------------------------------
(* The theorems about what recovery brings back.                           *)

\* The inductive invariant of RecoveryIsRecent and PlannedRestartIsLossless, next to IInv.
RecentInv == InOrder /\ NoGaps /\ PlannedEnd

LEMMA InitRecent == Init => RecentInv
  <1> SUFFICES ASSUME Init PROVE RecentInv
    OBVIOUS
  <1>1. /\ phase = "up" /\ value = [k \in Key |-> Absent] /\ persist = NoPersist(0)
        /\ snapshot.entries = value /\ log = <<>> /\ synced = 0
        /\ past = <<value>> /\ landed = 1 /\ durable = 1 /\ planned = FALSE
    BY DEF Init
  <1> DEFINE v == value
  <1>2. Len(past) = 1 /\ past[1] = v /\ DOMAIN past = {1}
    <2>1. past = <<v>>
      BY <1>1
    <2> HIDE DEF v
    <2> QED
      BY <2>1
  <1>3. Pending = <<>> /\ Journal = <<>> /\ persist.writing = "no" /\ persist.batch = <<>>
    BY <1>1 DEF Pending, PendingOf, NoPersist, Journal
  <1>4. /\ Ats(Journal) = {} /\ Bare(Journal) = {} /\ Ats(Pending) = {}
        /\ Ordered(Journal) /\ Fresh(Pending)
    BY <1>3, EmptyJournal
  <1>5. InOrder
    <2>1. log \in Seq(SaidFrame) /\ persist \in Memory(SaidFrame)
      BY <1>1, NoPersistFacts, EmptySeq
    <2> QED
      BY <1>2, <1>3, <1>4, <2>1 DEF InOrder, Recent
  <1>6. Safe(1)
    <2>1. Len(log) = 0 /\ synced = 0 /\ durable = 1 /\ landed = 1
      BY <1>1, EmptySeq
    <2> QED
      BY <2>1 DEF Safe, Covered
  <1>7. \A k \in Key : Base(k, 1)
    <2>1. Reached = {1}
      BY <1>1, <1>2, <1>4 DEF Reached
    <2>2. \A z \in Reached : 1 + 1 .. z = {}
      BY <2>1
    <2> QED
      BY <1>1, <1>2, <1>4, <1>6, <2>2 DEF Base
  <1>8. NoGaps
    BY <1>2, <1>4, <1>7 DEF NoGaps
  <1> QED
    BY <1>1, <1>5, <1>8 DEF RecentInv, PlannedEnd

\* A broker that is up, or goes down unplanned, has not ended as planned.
LEMMA Unplanned ==
    ASSUME PlannedEnd, phase # "down", planned' = planned \/ ~planned'
    PROVE  PlannedEnd'
  BY DEF PlannedEnd

LEMMA RecentNext ==
    ASSUME IInv, RecentInv, [Next]_vars
    PROVE  RecentInv'
  <1>1. InOrder /\ NoGaps /\ PlannedEnd
    BY DEF RecentInv
  <1>2. CASE \/ \E k \in Key : Set(k) \/ Update(k) \/ Delete(k)
             \/ Clear
    <2>1. PICK store, rec : Mutation(store, rec)
      BY <1>2, Mutations
    <2>2. phase = "up" /\ planned' = planned
      BY <2>1 DEF Mutation, Mutate, Operation
    <2> QED
      BY <1>1, <2>1, <2>2, OrderMutate, Unplanned DEF RecentInv
  <1>3. CASE \E sync \in BOOLEAN : Publish(sync)
    <2>1. phase = "up" /\ planned' = planned
      BY <1>3 DEF Publish, Operation
    <2> QED
      BY <1>1, <1>3, <2>1, OrderPublish, Unplanned DEF RecentInv
  <1>4. CASE RunCompact
    <2>1. phase = "up" /\ (planned' = planned \/ ~planned')
      BY <1>4 DEF RunCompact, Compact, Dies
    <2> QED
      BY <1>1, <1>4, <2>1, OrderRunCompact, Unplanned DEF RecentInv
  <1>5. CASE WriteLands
    <2>1. phase # "down" /\ planned' = planned
      BY <1>5 DEF WriteLands, IInv, WritesWhileUp
    <2> QED
      BY <1>1, <1>5, <2>1, GapsWriteLands, Unplanned DEF RecentInv
  <1>6. CASE Fsync
    <2>1. phase = "up" /\ planned' = planned
      BY <1>6 DEF Fsync
    <2> QED
      BY <1>1, <1>6, <2>1, OrderFsync, Unplanned DEF RecentInv
  <1>7. CASE Kill \/ PowerLoss
    <2>1. phase # "down" /\ ~planned'
      BY <1>7 DEF Kill, PowerLoss, Dies
    <2> QED
      BY <1>1, <1>7, <2>1, OrderKill, OrderPowerLoss, Unplanned DEF RecentInv
  <1>8. CASE WriteReturns \/ Close \/ Lapse \/ Load
    BY <1>1, <1>8, OrderWriteReturns, OrderClose, OrderLapse, OrderLoad DEF RecentInv
  <1>9. CASE UNCHANGED vars
    BY <1>1, <1>9, OrderStutter DEF RecentInv
  <1> QED
    BY <1>2, <1>3, <1>4, <1>5, <1>6, <1>7, <1>8, <1>9 DEF Next

\* RecentInv holds in every reachable state.
THEOREM RecentInductive == Spec => []RecentInv
  <1>1. Init => RecentInv
    BY InitRecent
  <1>2. IInv /\ RecentInv /\ [Next]_vars => RecentInv'
    BY RecentNext
  <1> QED
    BY <1>1, <1>2, Inductive, PTL DEF Spec

\* Persistence.RecoveryIsRecent: recovery leaves out no mutation that is known to be in
\* the log, and takes what a key held at one moment.
THEOREM RecoversRecent == Spec => RecoveryIsRecent
  <1>1. ASSUME IInv, RecentInv, [Next]_vars
        PROVE  [Recovers /\ ~failed' =>
                  \A k \in Key : Untimed(k) =>
                      \E i \in landed .. Len(past) : value'[k] = past[i][k]]_vars
    <2> SUFFICES ASSUME Next, phase = "down", phase' = "up", ~failed', NEW k \in Key, Untimed(k)
                 PROVE  \E i \in landed .. Len(past) : value'[k] = past[i][k]
      BY <1>1 DEF Recovers
    <2>1. Load
      BY <1>1, OnlyLoadRecovers
    <2>2. value' = [j \in Key |-> RecoveredEntry(j)] /\ ~failed /\ LogIsWhole
      BY <2>1 DEF Load, Dies
    <2>3. PICK j \in 1 .. Len(past) : RecoveredEntry(k) = past[j][k] /\ landed <= j
      BY <1>1, <2>2, Replay DEF RecentInv
    <2>4. j \in landed .. Len(past)
      <3>1. Len(past) \in Nat /\ landed \in 1 .. Len(past)
        BY <1>1, Before DEF LogAgrees
      <3> QED
        BY <2>3, <3>1
    <2> QED
      BY <2>2, <2>3, <2>4
  <1> QED
    BY <1>1, Inductive, RecentInductive, PTL DEF Spec, RecoveryIsRecent

\* What a planned end leaves of a key.
LEMMA PlannedStore ==
    ASSUME IInv, InOrder, PlannedEnd, planned, NEW k \in Key, log = <<>> \/ Untimed(k)
    PROVE  View([j \in Key |-> RecoveredEntry(j)])[k] = View(value)[k]
  <1> DEFINE n == Len(past)
  <1>1. /\ log \in Seq(SaidFrame) /\ n \in Nat /\ n > 0 /\ DOMAIN past = 1 .. n
        /\ DOMAIN log = 1 .. Len(log) /\ Len(log) \in Nat /\ value = past[n]
        /\ SaidFrame \subseteq Frame
    BY OrderBefore, LenProperties DEF InOrder
  <1>2. /\ IF Live(value[k]) THEN snapshot.entries[k] = value[k]
           ELSE ~Live(snapshot.entries[k]) \/ snapshot.entries[k] = Absent
        /\ Recent(Ats(log)) /\ Fresh(log)
    BY DEF PlannedEnd
  <1>3. \A x : x.e = 0 => Live(x)
    <2>1. lapsed \subseteq 1 .. ops
      BY DEF IInv, TypeOK
    <2> QED
      BY <2>1 DEF Live
  <1>4. Live(Absent) /\ Absent.v = 0
    BY <1>3 DEF Absent
  <1>5. CASE WritesTo(k) = {}
    <2>1. RecoveredEntry(k) = IF Live(snapshot.entries[k]) THEN snapshot.entries[k] ELSE Absent
      BY <1>5 DEF RecoveredEntry, WritesTo
    <2> QED
      BY <1>2, <1>4, <2>1 DEF View
  <1>6. CASE WritesTo(k) # {}
    <2>1. PICK w \in Readable : w \in 1 .. Len(log)
      BY <1>6, WritesMutate DEF WritesTo
    <2>2. Untimed(k)
      <3>1. log # <<>>
        BY <1>1, <2>1
      <3> QED
        BY <3>1
    <2>3. Decodes(1)
      BY <2>1, ReadableNone
    <2>4. \A i \in 1 .. Len(log) : log[i].part = "whole"
      <3>1. log[1].part # "rest"
        BY <2>3 DEF Decodes
      <3> QED
        BY <1>1, <1>2, <3>1 DEF Fresh
    <2>5. AllRead
      <3>1. Len(log) \in 0 .. Len(log) /\ \A i \in 1 .. Len(log) : Decodes(i)
        BY <1>1, <2>4 DEF Decodes
      <3>2. \A i \in 1 .. Len(log) : log[i].part # "head" => i \in Readable
        BY <3>1, ReadableFirst
      <3> QED
        BY <2>4, <3>2 DEF AllRead
    <2>6. \A x \in Ats(log) : x <= n /\ x .. n \subseteq Ats(log)
      BY <1>1, <1>2, SaidAts DEF Recent
    <2>7. RecoveredEntry(k) = past[n][k]
      BY <1>1, <1>6, <2>2, <2>5, <2>6, LastWritten
    <2> QED
      BY <1>1, <2>7 DEF View
  <1> QED
    BY <1>5, <1>6

\* A planned end leaves the messages that were retained.
LEMMA PlannedRing ==
    ASSUME DurableInv, InOrder, PlannedEnd, planned
    PROVE  RecoveredRing = ring
  <1>1. /\ IInv /\ ring \in Seq(Nat) /\ Len(ring) <= Retention /\ Len(ring) \in Nat
        /\ DOMAIN ring = 1 .. Len(ring) /\ log \in Seq(RetainedFrame)
        /\ DOMAIN log = 1 .. Len(log) /\ snapshot.pubs = ring
    BY DurableBefore DEF PlannedEnd
  <1>2. /\ AllRecovered \in Seq(Nat) /\ Increasing(AllRecovered)
        /\ RecoveredRing = Retain(AllRecovered)
    BY <1>1, AllRecoveredFacts DEF RecoveredRing, AllRecovered
  <1>3. CASE Retention = 0
    <2>1. Len(RecoveredRing) \in Nat /\ Len(RecoveredRing) <= Retention /\ RecoveredRing \in Seq(Nat)
      BY <1>2, RetainFacts
    <2>2. Len(RecoveredRing) = 0 /\ Len(ring) = 0
      BY <1>1, <1>3, <2>1
    <2> QED
      BY <1>1, <2>1, <2>2, EmptySeq
  <1>4. CASE Retention # 0
    <2>1. Recovered = {}
      <3> SUFFICES ASSUME NEW i \in Readable, log[i].rec.op = "pub"
                   PROVE  Repeats(i)
        BY DEF Recovered
      <3>1. /\ i \in 1 .. Len(log) /\ log[i].rec.offset \in Nat
            /\ log[i] \in SaidFrame /\ log[i] \in RetainedFrame
        BY <1>1, ReadFrames DEF InOrder
      <3> DEFINE m == log[i].rec.offset
      <3>2. ring # <<>> /\ Retained(m)
        BY <1>4, <3>1 DEF SaidFrame, RetainedFrame
      <3>3. 1 \in DOMAIN ring /\ ring[1] \in Nat
        <4>1. Len(ring) # 0
          BY <1>1, <3>2, EmptySeq
        <4> QED
          BY <1>1, <4>1
      <3>4. \E j \in DOMAIN ring : m <= ring[j]
        <4>1. CASE ring[1] <= m
          <5>1. m \in ToSet(ring)
            BY <3>2, <3>3, <4>1 DEF Retained
          <5>2. PICK j \in DOMAIN ring : ring[j] = m
            BY <5>1 DEF ToSet
          <5> QED
            BY <3>1, <5>2
        <4>2. CASE ~(ring[1] <= m)
          <5>1. m <= ring[1]
            BY <3>1, <3>3, <4>2
          <5> QED
            BY <3>3, <5>1
        <4> QED
          BY <4>1, <4>2
      <3> QED
        BY <1>1, <3>4 DEF Repeats
    <2>2. Cardinality(Recovered) = 0
      BY <2>1, FS_EmptySet
    <2>3. AllRecovered = ring
      <3> DEFINE q == [i \in 1 .. Cardinality(Recovered) |-> log[Nth(Recovered, i)].rec.offset]
      <3>1. q = <<>>
        BY <2>2
      <3>2. AllRecovered = ring \o q
        BY <1>1 DEF AllRecovered
      <3> HIDE DEF q
      <3> QED
        BY <1>1, <3>1, <3>2, ConcatEmptySeq
    <2> QED
      BY <1>1, <1>2, <2>3 DEF Retain
  <1> QED
    BY <1>3, <1>4

\* Persistence.PlannedRestartIsLossless: what clients read, and the messages that are
\* retained, are after a planned restart as they were before.
THEOREM PlannedIsLossless == Spec => PlannedRestartIsLossless
  <1>1. ASSUME DurableInv, RecentInv, [Next]_vars
        PROVE  [Recovers /\ planned =>
                  /\ \A k \in Key : log = <<>> \/ Untimed(k) => View(value')[k] = View(value)[k]
                  /\ ring' = ring]_vars
    <2> SUFFICES ASSUME Next, phase = "down", phase' = "up", planned
                 PROVE  /\ \A k \in Key : log = <<>> \/ Untimed(k) => View(value')[k] = View(value)[k]
                        /\ ring' = ring
      BY <1>1 DEF Recovers
    <2>1. IInv /\ InOrder /\ PlannedEnd
      BY <1>1 DEF DurableInv, RecentInv
    <2>2. Load
      BY <2>1, OnlyLoadRecovers
    <2>3. value' = [j \in Key |-> RecoveredEntry(j)] /\ ring' = RecoveredRing
      BY <2>2 DEF Load, Dies
    <2>4. ASSUME NEW k \in Key, log = <<>> \/ Untimed(k)
          PROVE  View(value')[k] = View(value)[k]
      BY <2>1, <2>3, <2>4, PlannedStore
    <2>5. ring' = ring
      BY <1>1, <2>1, <2>3, PlannedRing
    <2> QED
      BY <2>4, <2>5
  <1> QED
    BY <1>1, DurableInductive, RecentInductive, PTL DEF Spec, PlannedRestartIsLossless
=============================================================================
