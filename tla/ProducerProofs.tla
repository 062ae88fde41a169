--------------------------- MODULE ProducerProofs ---------------------------
(***************************************************************************)
(* Proofs about Producer for every value of its constants: a publish that  *)
(* resolves was accepted, if the program leaves no more in flight than the *)
(* window holds, and a publish is accepted once, if the program does not   *)
(* publish before it has a producer id.                                    *)
(***************************************************************************)
EXTENDS Producer, FiniteSetTheorems, SequenceTheorems, TLAPS

-----------------------------------------------------------------------------
(* Numbers and sequences.                                                  *)

LEMMA NatMin ==
    ASSUME NEW T, T \subseteq Nat, T # {}
    PROVE  \E x \in T : \A y \in T : x <= y
  <1> DEFINE R == {ss \in Nat \X Nat : ss[1] < ss[2]}
  <1>1. IsWellFoundedOn(R, Nat)
    BY NatLessThanWellFounded, Zenon DEF OpToRel
  <1>2. \E x \in T : \A y \in T : ~ (<<y, x>> \in R)
    BY <1>1, WFMin, Zenon
  <1>3. \A x, y \in Nat : y < x => <<y, x>> \in R
    OBVIOUS
  <1> HIDE DEF R
  <1>4. PICK x \in T : \A y \in T : ~ (<<y, x>> \in R)
    BY <1>2
  <1>5. \A y \in T : ~ (y < x)
    BY <1>3, <1>4, Zenon
  <1> QED
    BY <1>5

\* What is bounded has a greatest element.
LEMMA MaxFacts ==
    ASSUME NEW n \in Nat, NEW T, T \subseteq 0 .. n, T # {}
    PROVE  Max(T) \in T /\ \A y \in T : y <= Max(T)
  <1> DEFINE U == {n - x : x \in T}
  <1>1. U \subseteq Nat /\ U # {}
    <2>1. \A x \in T : n - x \in Nat
      OBVIOUS
    <2> QED
      BY <2>1
  <1>2. PICK u \in U : \A v \in U : u <= v
    BY <1>1, NatMin
  <1>3. \E x \in T : \A y \in T : x >= y
    BY <1>2
  <1> QED
    BY <1>3 DEF Max

LEMMA AppendFacts ==
    ASSUME NEW S, NEW q \in Seq(S), NEW m \in S
    PROVE  /\ Append(q, m) \in Seq(S) /\ Len(Append(q, m)) = Len(q) + 1
           /\ DOMAIN Append(q, m) = 1 .. Len(q) + 1 /\ DOMAIN q = 1 .. Len(q)
           /\ \A i \in DOMAIN q : Append(q, m)[i] = q[i]
           /\ Append(q, m)[Len(q) + 1] = m
           /\ ToSet(Append(q, m)) = ToSet(q) \cup {m}
  <1>1. /\ Append(q, m) \in Seq(S) /\ Len(Append(q, m)) = Len(q) + 1
        /\ \A i \in 1 .. Len(q) : Append(q, m)[i] = q[i]
        /\ Append(q, m)[Len(q) + 1] = m
        /\ Len(q) \in Nat
    BY AppendProperties
  <1>2. DOMAIN Append(q, m) = 1 .. Len(q) + 1 /\ DOMAIN q = 1 .. Len(q)
    BY <1>1
  <1>3. ToSet(Append(q, m)) = ToSet(q) \cup {m}
    BY <1>1, <1>2 DEF ToSet
  <1> QED
    BY <1>1, <1>2, <1>3

LEMMA TailFacts ==
    ASSUME NEW S, NEW q \in Seq(S), q # <<>>
    PROVE  /\ Head(q) = q[1] /\ 1 \in DOMAIN q /\ Head(q) \in S /\ Head(q) \in ToSet(q)
           /\ Tail(q) \in Seq(S)
           /\ \A i \in DOMAIN Tail(q) : i \in Nat \ {0} /\ i + 1 \in DOMAIN q /\ Tail(q)[i] = q[i + 1]
           /\ ToSet(Tail(q)) \subseteq ToSet(q)
           /\ Tail(q) = <<>> <=> Len(q) = 1
  <1>1. /\ Head(q) \in S /\ Head(q) = q[1] /\ Tail(q) \in Seq(S) /\ Len(Tail(q)) = Len(q) - 1
        /\ \A i \in 1 .. Len(Tail(q)) : Tail(q)[i] = q[i + 1]
        /\ Len(q) \in Nat /\ Len(q) >= 1
    BY HeadTailProperties
  <1>2. DOMAIN q = 1 .. Len(q) /\ DOMAIN Tail(q) = 1 .. Len(q) - 1
    BY <1>1
  <1>3. Tail(q) = <<>> <=> Len(q) = 1
    BY <1>1, EmptySeq
  <1>4. \A i \in DOMAIN Tail(q) : i \in Nat \ {0} /\ i + 1 \in DOMAIN q /\ Tail(q)[i] = q[i + 1]
    BY <1>1, <1>2
  <1>5. ToSet(Tail(q)) \subseteq ToSet(q)
    BY <1>4 DEF ToSet
  <1>6. 1 \in DOMAIN q /\ Head(q) \in ToSet(q)
    BY <1>1, <1>2 DEF ToSet
  <1> QED
    BY <1>1, <1>3, <1>4, <1>5, <1>6

LEMMA PrefixFacts ==
    ASSUME NEW S, NEW q \in Seq(S), NEW n \in 1 .. Len(q)
    PROVE  /\ SubSeq(q, 1, n) \in Seq(S) /\ SubSeq(q, 1, n) # <<>> /\ q # <<>>
           /\ \A i \in DOMAIN SubSeq(q, 1, n) : i \in DOMAIN q /\ SubSeq(q, 1, n)[i] = q[i]
           /\ ToSet(SubSeq(q, 1, n)) \subseteq ToSet(q)
           /\ SubSeq(q, 1, n)[1] = q[1]
  <1>1. Len(q) \in Nat /\ DOMAIN q = 1 .. Len(q) /\ n \in Int /\ \A i \in 1 .. n : q[i] \in S
    OBVIOUS
  <1>2. /\ SubSeq(q, 1, n) \in Seq(S) /\ Len(SubSeq(q, 1, n)) = n
        /\ \A i \in 1 .. n : SubSeq(q, 1, n)[i] = q[i]
    BY <1>1, SubSeqProperties
  <1>3. DOMAIN SubSeq(q, 1, n) = 1 .. n
    BY <1>2
  <1>4. SubSeq(q, 1, n) # <<>> /\ q # <<>>
    BY <1>2
  <1> QED
    BY <1>1, <1>2, <1>3, <1>4 DEF ToSet

LEMMA PartFacts ==
    ASSUME NEW S, NEW q \in Seq(S), NEW f \in Nat, NEW l \in Nat, l <= Len(q)
    PROVE  /\ SubSeq(q, f + 1, l) \in Seq(S)
           /\ \A i \in DOMAIN SubSeq(q, f + 1, l) :
                i \in Int /\ i + f \in DOMAIN q /\ SubSeq(q, f + 1, l)[i] = q[i + f]
  <1> DEFINE p == SubSeq(q, f + 1, l)
  <1>1. Len(q) \in Nat /\ DOMAIN q = 1 .. Len(q)
    OBVIOUS
  <1>2. \A i \in f + 1 .. l : q[i] \in S
    BY <1>1
  <1>3. /\ p \in Seq(S) /\ Len(p) = IF f + 1 <= l THEN l - (f + 1) + 1 ELSE 0
        /\ \A i \in 1 .. l - (f + 1) + 1 : p[i] = q[f + 1 + i - 1]
    BY <1>2, SubSeqProperties
  <1> HIDE DEF p
  <1>4. DOMAIN p = 1 .. Len(p)
    BY <1>3
  <1>5. \A i \in DOMAIN p : i \in Int /\ i \in 1 .. l - (f + 1) + 1 /\ i + f \in 1 .. Len(q)
                            /\ f + 1 + i - 1 = i + f
    BY <1>1, <1>3, <1>4
  <1>6. \A i \in DOMAIN p : p[i] = q[i + f]
    BY <1>3, <1>5
  <1> QED
    BY <1>1, <1>3, <1>5, <1>6 DEF p

LEMMA RecordFacts ==
    ASSUME NEW P, NEW Q, NEW q \in Seq([pid : P, seq : Q])
    PROVE  \A i \in DOMAIN q : q[i] \in [pid : P, seq : Q] /\ q[i].pid \in P /\ q[i].seq \in Q
  <1> DEFINE R == [pid : P, seq : Q]
  <1>1. \A r \in R : r.pid \in P /\ r.seq \in Q
    OBVIOUS
  <1>2. q \in Seq(R)
    OBVIOUS
  <1> HIDE DEF R
  <1>3. \A i \in DOMAIN q : q[i] \in R
    BY <1>2
  <1> QED
    BY <1>1, <1>3 DEF R

\* What messages and answers name.
LEMMA MessageFacts ==
    ASSUME NEW m \in Hello \cup Request
    PROVE  /\ m.t \in {"hello", "publish"} /\ m.pid \in Pid \cup {NoPid}
           /\ m.t = "publish" => m.seq \in Seqs /\ m.attempt \in 0 .. Retries
  BY DEF Hello, Request

LEMMA ReplyFacts ==
    ASSUME NEW m \in Reply
    PROVE  /\ m.t \in {"welcome", "ok"}
           /\ m.t = "welcome" => m.pid \in Pid
           /\ m.t = "ok" => m.seq \in Seqs /\ m.attempt \in 0 .. Retries
  BY DEF Reply

LEMMA SentFacts ==
    ASSUME TypeOK
    PROVE  Sent \subseteq Hello \cup Request
  <1>1. ToSet(toBroker) \subseteq Hello \cup Request
    BY DEF TypeOK, ToSet
  <1>2. \A s \in late : ToSet(s) \subseteq Hello \cup Request
    BY DEF TypeOK, ToSet
  <1> QED
    BY <1>1, <1>2 DEF Sent

\* The id that a HELLO gets is at hand, as no link asks for two.
LEMMA RoomForId ==
    ASSUME IInv, NEW m,
           \/ toBroker # <<>> /\ m = toBroker[1]
           \/ \E s \in late : m = s[1],
           m.t = "hello", m.pid = NoPid
    PROVE  minted < MaxPid
  <1>1. Cardinality(LateHellos) \in Nat /\ IsFiniteSet(LateHellos)
    BY FS_Subset, FS_CardinalityType DEF IInv, IdsSuffice, LateHellos
  <1>2. /\ minted \in Nat /\ breaks <= MaxBreaks /\ restarts <= MaxRestarts
        /\ breaks \in Nat /\ restarts \in Nat /\ MaxBreaks \in Nat /\ MaxRestarts \in Nat
    BY ProducerAssumption DEF IInv, TypeOK, MaxPid
  <1>3. CASE toBroker # <<>> /\ m = toBroker[1]
    <2>1. Asking
      BY <1>3, TailFacts DEF Asking, IInv, HelloFirst, TypeOK
    <2> QED
      BY <1>1, <1>2, <2>1 DEF IInv, IdsSuffice, MaxPid
  <1>4. CASE \E s \in late : m = s[1]
    <2>1. LateHellos # {}
      BY <1>4 DEF LateHellos
    <2>2. Cardinality(LateHellos) >= 1
      BY <1>1, <2>1, FS_EmptySet
    <2> QED
      BY <1>1, <1>2, <2>2 DEF IInv, IdsSuffice, MaxPid
  <1> QED
    BY <1>3, <1>4

\* What the broker makes of a message (_dedupSeen, the HELLO and PUBLISH handlers).
LEMMA HandleFacts ==
    ASSUME IInv, NEW m \in Sent, Handle(m), seq' = seq,
           m.t = "hello" /\ m.pid = NoPid => minted < MaxPid
    PROVE  /\ hi' \in [Pid -> 0 .. MaxSeq] /\ seen' \in [Pid -> SUBSET Seqs]
           /\ log' \in Seq([pid : Pid \cup {NoPid}, seq : Seqs]) /\ accepted' \subseteq Seqs
           /\ minted' \in 0 .. MaxPid /\ minted <= minted'
           /\ m.t = "publish" => minted' = minted
           /\ m.t = "hello" => /\ NextPid(m.pid) \in Pid /\ NextPid(m.pid) <= minted'
                               /\ minted' = IF m.pid = NoPid THEN minted + 1 ELSE minted
           /\ accepted \subseteq accepted'
           /\ MemoryAgrees'
  <1>1. /\ m.t \in {"hello", "publish"} /\ m.pid \in Pid \cup {NoPid} /\ m.pid <= minted
        /\ m.t = "publish" => m.seq \in Seqs /\ m.seq <= seq
    BY MessageFacts, SentFacts DEF IInv, HelloFirst, PublishesAgree
  <1>2. minted \in 0 .. MaxPid /\ MaxPid \in Nat /\ seq \in 0 .. MaxSeq /\ MaxSeq \in Nat
    BY ProducerAssumption DEF IInv, TypeOK, MaxPid
  <1>3. CASE m.t = "hello"
    <2>1. UNCHANGED <<hi, seen, log, accepted>>
      BY <1>3 DEF Handle
    <2>2. minted' = IF NextPid(m.pid) > minted THEN NextPid(m.pid) ELSE minted
      BY <1>3 DEF Handle
    <2>3. NextPid(m.pid) = IF m.pid = NoPid THEN minted + 1 ELSE m.pid
      BY DEF NextPid
    <2>4. /\ minted' \in 0 .. MaxPid /\ minted <= minted'
          /\ NextPid(m.pid) \in Pid /\ NextPid(m.pid) <= minted'
          /\ minted' = IF m.pid = NoPid THEN minted + 1 ELSE minted
      BY <1>1, <1>2, <1>3, <2>2, <2>3 DEF Pid, NoPid
    <2> QED
      BY <1>3, <2>1, <2>4 DEF IInv, TypeOK, MemoryAgrees
  <1>4. CASE m.t = "publish" /\ UNCHANGED <<hi, seen, log, accepted>>
    BY <1>1, <1>2, <1>4 DEF Handle, IInv, TypeOK, MemoryAgrees
  <1>5. CASE m.t = "publish" /\ Accept(m.pid, m.seq)
    <2>1. minted' = minted
      BY <1>5 DEF Handle
    <2>2. /\ [pid |-> m.pid, seq |-> m.seq] \in [pid : Pid \cup {NoPid}, seq : Seqs]
          /\ log' = Append(log, [pid |-> m.pid, seq |-> m.seq])
          /\ accepted' = accepted \cup {m.seq}
      BY <1>1, <1>5 DEF Accept
    <2>3. /\ log' \in Seq([pid : Pid \cup {NoPid}, seq : Seqs])
          /\ \A i \in DOMAIN log' : log'[i].seq \in accepted'
      <3>1. /\ log \in Seq([pid : Pid \cup {NoPid}, seq : Seqs])
            /\ \A i \in DOMAIN log : log[i].seq \in accepted
        BY DEF IInv, TypeOK, MemoryAgrees
      <3>2. /\ log' \in Seq([pid : Pid \cup {NoPid}, seq : Seqs])
            /\ \A i \in DOMAIN log' : \/ i \in DOMAIN log /\ log'[i] = log[i]
                                     \/ log'[i] = [pid |-> m.pid, seq |-> m.seq]
        BY <2>2, <3>1, AppendFacts
      <3> QED
        BY <2>2, <3>1, <3>2
    <2>4. /\ hi' \in [Pid -> 0 .. MaxSeq] /\ seen' \in [Pid -> SUBSET Seqs]
          /\ \A p \in Pid : hi'[p] <= seq /\ seen'[p] \subseteq accepted'
      <3>1. CASE m.pid = NoPid
        BY <1>5, <2>2, <3>1 DEF Accept, IInv, TypeOK, MemoryAgrees
      <3>2. CASE m.pid # NoPid
        <4>1. /\ hi' = [hi EXCEPT ![m.pid] = IF m.seq > @ THEN m.seq ELSE @]
              /\ seen' = [seen EXCEPT ![m.pid] = Remembered(m.pid, m.seq)]
              /\ m.pid \in Pid
          BY <1>1, <1>5, <3>2 DEF Accept
        <4>2. Remembered(m.pid, m.seq) \subseteq seen[m.pid] \cup {m.seq}
          BY DEF Remembered
        <4>3. hi' \in [Pid -> 0 .. MaxSeq] /\ \A p \in Pid : hi'[p] <= seq
          <5>1. hi \in [Pid -> 0 .. MaxSeq] /\ \A p \in Pid : hi[p] <= seq
            BY DEF IInv, TypeOK, MemoryAgrees
          <5>2. m.seq \in 0 .. MaxSeq /\ m.seq <= seq
            BY <1>1, <1>2, <1>5 DEF Seqs
          <5>3. /\ hi' \in [Pid -> 0 .. MaxSeq]
                /\ \A p \in Pid : hi'[p] = hi[p] \/ hi'[p] = m.seq
            BY <4>1, <5>1, <5>2
          <5> QED
            BY <5>1, <5>2, <5>3
        <4>4. seen' \in [Pid -> SUBSET Seqs] /\ \A p \in Pid : seen'[p] \subseteq accepted'
          BY <1>1, <1>5, <2>2, <4>1, <4>2 DEF IInv, TypeOK, MemoryAgrees
        <4> QED
          BY <4>3, <4>4
      <3> QED
        BY <3>1, <3>2
    <2> QED
      BY <1>1, <1>2, <1>5, <2>1, <2>2, <2>3, <2>4, SMTT(30) DEF IInv, TypeOK, MemoryAgrees
  <1> QED
    BY <1>1, <1>3, <1>4, <1>5 DEF Handle

-----------------------------------------------------------------------------
(* The inductive invariant, action by action.                              *)

LEMMA InitIInv == Init => IInv
  <1> SUFFICES ASSUME Init PROVE IInv
    OBVIOUS
  <1>1. /\ MaxSeq \in Nat /\ MaxBreaks \in Nat /\ MaxRestarts \in Nat /\ Retries \in Nat
        /\ MaxPid \in Nat
    BY ProducerAssumption DEF MaxPid
  <1>2. /\ <<>> \in Seq(Hello \cup Request) /\ <<>> \in Seq(Reply)
        /\ <<>> \in Seq([pid : Pid \cup {NoPid}, seq : Seqs])
        /\ ToSet(<<>>) = {}
    BY DEF ToSet
  <1>3. TypeOK
    BY <1>1, <1>2 DEF Init, TypeOK
  <1>4. Sent = {}
    BY <1>2 DEF Init, Sent
  <1>5. PublishesAgree /\ MemoryAgrees
    BY <1>1, <1>4 DEF Init, PublishesAgree, MemoryAgrees, Seqs, InFlight
  <1>6. HelloFirst
    BY <1>1, <1>4 DEF Init, HelloFirst, NoPid
  <1>7. IdsSuffice
    <2>1. LateHellos = {} /\ IsFiniteSet({}) /\ Cardinality({}) = 0 /\ ~Asking
      BY FS_EmptySet DEF Init, LateHellos, Asking
    <2> QED
      BY <2>1 DEF Init, IdsSuffice
  <1> QED
    BY <1>3, <1>5, <1>6, <1>7 DEF IInv

\* A timer of the client, or the deadline of a publish.
LEMMA TimerStep ==
    ASSUME IInv, NEW s \in Seqs, Timeout(s) \/ GiveUp(s)
    PROVE  IInv'
  <1>1. /\ UNCHANGED <<link, pid, seq, attempt, toBroker, toClient, late, minted, hi, seen, log,
                       accepted, breaks, restarts>>
        /\ InFlight(s)
        /\ \/ status' = [status EXCEPT ![s] = "failed"]
           \/ status' = [status EXCEPT ![s] = "backoff"] /\ attempt[s] < Retries
    BY DEF Timeout, GiveUp, brokerVars, bounds, InFlight
  <1>2. TypeOK'
    BY <1>1 DEF IInv, TypeOK
  <1>3. Sent' = Sent
    BY <1>1 DEF Sent
  <1>4. PublishesAgree'
    BY <1>1, <1>3 DEF IInv, TypeOK, PublishesAgree, InFlight
  <1>5. MemoryAgrees' /\ HelloFirst' /\ IdsSuffice'
    BY <1>1, <1>3 DEF IInv, MemoryAgrees, HelloFirst, IdsSuffice, LateHellos, Asking
  <1> QED
    BY <1>2, <1>4, <1>5 DEF IInv

\* A request is written to the link, if there is one; it starts no stream.
LEMMA TryFacts ==
    ASSUME IInv, NEW s \in Seqs, NEW n \in 0 .. Retries, Try(s, n)
    PROVE  /\ attempt' = [attempt EXCEPT ![s] = n]
           /\ \E st \in {"waiting", "offline", "failed"} :
                /\ status' = [status EXCEPT ![s] = st]
                /\ st = "waiting" => link # "down"
                /\ st = "offline" => n < Retries
           /\ toBroker' \in Seq(Hello \cup Request)
           /\ link = "down" => toBroker' = toBroker
           /\ \A i \in DOMAIN toBroker' : toBroker'[i].t = "hello" =>
                i \in DOMAIN toBroker /\ toBroker'[i] = toBroker[i]
           /\ \A m \in ToSet(toBroker') : \/ m \in ToSet(toBroker)
                                          \/ m.t = "publish" /\ m.pid = pid /\ m.seq = s
                                             /\ link # "down"
  <1> DEFINE msg == [t |-> "publish", pid |-> pid, seq |-> s, attempt |-> n]
  <1>1. /\ msg \in Hello \cup Request /\ msg.t = "publish" /\ msg.pid = pid /\ msg.seq = s
    BY DEF Request, IInv, TypeOK
  <1>2. toBroker' = toBroker \/ (link # "down" /\ toBroker' = Append(toBroker, msg))
    BY DEF Try
  <1>3. toBroker \in Seq(Hello \cup Request)
    BY DEF IInv, TypeOK
  <1> HIDE DEF msg
  <1>4. CASE toBroker' = toBroker
    BY <1>3, <1>4 DEF Try
  <1>5. CASE link # "down" /\ toBroker' = Append(toBroker, msg)
    <2>1. /\ toBroker' \in Seq(Hello \cup Request)
          /\ DOMAIN toBroker' = 1 .. Len(toBroker) + 1 /\ DOMAIN toBroker = 1 .. Len(toBroker)
          /\ \A i \in DOMAIN toBroker : toBroker'[i] = toBroker[i]
          /\ toBroker'[Len(toBroker) + 1] = msg
          /\ ToSet(toBroker') = ToSet(toBroker) \cup {msg}
          /\ Len(toBroker) \in Nat
      BY <1>1, <1>3, <1>5, AppendFacts
    <2>2. \A i \in DOMAIN toBroker' : toBroker'[i].t = "hello" =>
            i \in DOMAIN toBroker /\ toBroker'[i] = toBroker[i]
      BY <1>1, <2>1
    <2> QED
      BY <1>1, <1>5, <2>1, <2>2 DEF Try
  <1> QED
    BY <1>2, <1>4, <1>5

\* publish, or the next attempt of one.
LEMMA TryStep ==
    ASSUME IInv, Publish \/ \E s \in Seqs : Retry(s)
    PROVE  IInv'
  <1>1. PICK s \in Seqs, n \in 0 .. Retries :
          /\ Try(s, n) /\ UNCHANGED <<link, pid, toClient, late, brokerVars, bounds>>
          /\ \/ /\ seq' = s /\ s = seq + 1
                /\ \A r \in Seqs : InFlight(r) => s - r < Spread
             \/ seq' = seq /\ status[s] \in {"backoff", "offline"}
    <2>1. CASE Publish
      BY <2>1, ProducerAssumption DEF Publish
    <2>2. ASSUME NEW s \in Seqs, Retry(s)
          PROVE  attempt[s] + 1 \in 0 .. Retries /\ status[s] \in {"backoff", "offline"}
      BY <2>2, ProducerAssumption DEF Retry, IInv, TypeOK, PublishesAgree
    <2> QED
      BY <2>1, <2>2 DEF Retry
  <1>2. UNCHANGED <<link, pid, toClient, late, minted, hi, seen, log, accepted, breaks, restarts>>
    BY <1>1 DEF brokerVars, bounds
  <1>3. /\ seq \in 0 .. MaxSeq /\ s \in 1 .. MaxSeq /\ MaxSeq \in Nat /\ Retries \in Nat /\ n \in Nat
        /\ Spread \in Nat \ {0} /\ seq <= seq' /\ seq' \in 0 .. MaxSeq /\ s <= seq'
    BY <1>1, ProducerAssumption, SMTT(30) DEF IInv, TypeOK, Seqs, PublishesAgree
  <1>4. /\ attempt' = [attempt EXCEPT ![s] = n]
        /\ \E st \in {"waiting", "offline", "failed"} :
             /\ status' = [status EXCEPT ![s] = st]
             /\ st = "offline" => n < Retries
        /\ toBroker' \in Seq(Hello \cup Request)
        /\ link = "down" => toBroker' = toBroker
        /\ \A i \in DOMAIN toBroker' : toBroker'[i].t = "hello" =>
             i \in DOMAIN toBroker /\ toBroker'[i] = toBroker[i]
    BY <1>1, TryFacts
  <1>5. \A m \in Sent' : m \in Sent \/ (m.t = "publish" /\ m.pid = pid /\ m.seq = s)
    BY <1>1, <1>2, TryFacts DEF Sent
  <1>6. TypeOK'
    BY <1>2, <1>3, <1>4 DEF IInv, TypeOK
  <1>7. PublishesAgree'
    <2>1. \A r \in Seqs : status'[r] = "idle" <=> r > seq'
      BY <1>1, <1>3, <1>4, SMTT(30) DEF IInv, TypeOK, PublishesAgree, Seqs
    <2>2. \A r \in Seqs : InFlight(r)' => seq' - r < Spread
      <3>1. \A r \in Seqs \ {s} : InFlight(r)' = InFlight(r)
        BY <1>4 DEF IInv, TypeOK, InFlight
      <3>2. \A r \in Seqs \ {s} : InFlight(r)' => seq' - r < Spread
        BY <1>1, <3>1 DEF IInv, PublishesAgree
      <3>3. seq' - s < Spread
        <4>1. CASE seq' = s
          BY <1>3, <4>1
        <4>2. CASE seq' = seq /\ status[s] \in {"backoff", "offline"}
          BY <4>2 DEF IInv, PublishesAgree, InFlight
        <4> QED
          BY <1>1, <4>1, <4>2
      <3> QED
        BY <3>2, <3>3
    <2>3. \A r \in Seqs : status'[r] \in {"backoff", "offline"} => attempt'[r] < Retries
      BY <1>3, <1>4 DEF IInv, TypeOK, PublishesAgree
    <2>4. \A m \in Sent' : m.t = "publish" => m.seq <= seq'
      <3>1. \A m \in Sent : m.t = "publish" => m.seq <= seq /\ m.seq \in Seqs
        BY MessageFacts, SentFacts DEF IInv, PublishesAgree
      <3> QED
        BY <1>3, <1>5, <3>1 DEF Seqs
    <2> QED
      BY <2>1, <2>2, <2>3, <2>4 DEF PublishesAgree
  <1>8. MemoryAgrees'
    BY <1>2, <1>3 DEF IInv, TypeOK, MemoryAgrees, Seqs
  <1>9. HelloFirst'
    BY <1>2, <1>4, <1>5 DEF IInv, HelloFirst
  <1>10. IdsSuffice'
    <2>1. Asking' => Asking
      <3>1. toBroker' # <<>> => 1 \in DOMAIN toBroker'
        BY <1>4, TailFacts
      <3>2. 1 \in DOMAIN toBroker => toBroker # <<>>
        BY DEF IInv, TypeOK
      <3> QED
        BY <1>2, <1>4, <3>1, <3>2 DEF Asking
    <2>2. Cardinality(LateHellos)' = Cardinality(LateHellos)
      BY <1>2 DEF LateHellos
    <2>3. Cardinality(LateHellos) \in Nat
      BY FS_Subset, FS_CardinalityType DEF IInv, IdsSuffice, LateHellos
    <2> QED
      BY <1>2, <2>1, <2>2, <2>3 DEF IInv, TypeOK, IdsSuffice
  <1> QED
    BY <1>6, <1>7, <1>8, <1>9, <1>10 DEF IInv

\* The link opens: HELLO is the first that is written to it.
LEMMA ConnectStep ==
    ASSUME IInv, Connect
    PROVE  IInv'
  <1> DEFINE msg == [t |-> "hello", pid |-> pid]
  <1>1. /\ link = "down" /\ link' = "hello" /\ toBroker' = <<msg>>
        /\ UNCHANGED <<pid, seq, status, attempt, toClient, late, minted, hi, seen, log,
                       accepted, breaks, restarts>>
    BY DEF Connect, brokerVars, bounds
  <1>2. /\ msg \in Hello \cup Request /\ msg.t = "hello" /\ msg.pid = pid
        /\ toBroker = <<>> /\ toClient = <<>>
    BY <1>1 DEF Hello, IInv, TypeOK, HelloFirst
  <1> HIDE DEF msg
  <1>3. /\ toBroker' \in Seq(Hello \cup Request) /\ DOMAIN toBroker' = {1} /\ toBroker'[1] = msg
        /\ ToSet(toBroker') = {msg}
    BY <1>1, <1>2 DEF ToSet
  <1>4. TypeOK'
    BY <1>1, <1>3 DEF IInv, TypeOK
  <1>5. \A m \in Sent' : m \in Sent \/ m = msg
    BY <1>1, <1>3 DEF Sent
  <1>6. PublishesAgree' /\ MemoryAgrees'
    BY <1>1, <1>2, <1>5 DEF IInv, PublishesAgree, MemoryAgrees, InFlight
  <1>7. HelloFirst'
    BY <1>1, <1>2, <1>3, <1>5 DEF IInv, HelloFirst
  <1>8. IdsSuffice'
    <2>1. Cardinality(LateHellos)' = Cardinality(LateHellos)
      BY <1>1 DEF LateHellos
    <2>2. Cardinality(LateHellos) \in Nat
      BY FS_Subset, FS_CardinalityType DEF IInv, IdsSuffice, LateHellos
    <2> QED
      BY <1>1, <1>2, <2>1, <2>2 DEF IInv, TypeOK, IdsSuffice, Asking
  <1> QED
    BY <1>4, <1>6, <1>7, <1>8 DEF IInv

\* The client reads an answer: WELCOME, which gives it its id, or that to a request.
LEMMA ClientReceiveStep ==
    ASSUME IInv, ClientReceive
    PROVE  IInv'
  <1> DEFINE m == Head(toClient)
  <1>1. /\ toClient # <<>> /\ toClient' = Tail(toClient)
        /\ UNCHANGED <<seq, attempt, toBroker, late, minted, hi, seen, log, accepted, breaks,
                       restarts>>
    BY DEF ClientReceive, brokerVars, bounds
  <1>2. /\ m = toClient[1] /\ 1 \in DOMAIN toClient /\ m \in Reply
        /\ toClient' \in Seq(Reply)
        /\ \A i \in DOMAIN toClient' :
             i \in Nat \ {0} /\ i + 1 \in DOMAIN toClient /\ toClient'[i] = toClient[i + 1]
    BY <1>1, TailFacts DEF IInv, TypeOK
  <1>3. \A i \in DOMAIN toClient' : toClient'[i].t # "welcome"
    BY <1>2 DEF IInv, HelloFirst
  <1>4. Sent' = Sent
    BY <1>1 DEF Sent
  <1>5. LateHellos' = LateHellos
    BY <1>1 DEF LateHellos
  <1>6. Cardinality(LateHellos) \in Nat
    BY FS_Subset, FS_CardinalityType DEF IInv, IdsSuffice, LateHellos
  <1>7. CASE m.t = "welcome"
    <2>1. /\ link' = "up" /\ pid' = m.pid /\ status' = status
          /\ m.pid \in Pid /\ link = "hello" /\ m.pid <= minted /\ m.pid # NoPid
          /\ pid \in {NoPid, m.pid}
      BY <1>2, <1>7, ReplyFacts DEF ClientReceive, IInv, HelloFirst, Pid, NoPid
    <2>2. \A i \in DOMAIN toBroker : toBroker[i].t # "hello"
      BY <1>1 DEF IInv, HelloFirst
    <2>3. TypeOK'
      BY <1>1, <1>2, <2>1 DEF IInv, TypeOK
    <2>4. PublishesAgree' /\ MemoryAgrees'
      BY <1>1, <1>4, <2>1 DEF IInv, PublishesAgree, MemoryAgrees, InFlight
    <2>5. HelloFirst'
      BY <1>1, <1>3, <1>4, <2>1, <2>2 DEF IInv, HelloFirst
    <2>6. IdsSuffice'
      <3>1. ~Asking'
        <4>1. toBroker # <<>> => 1 \in DOMAIN toBroker
          BY TailFacts DEF IInv, TypeOK
        <4> QED
          BY <1>1, <2>2, <4>1 DEF Asking
      <3> QED
        BY <1>1, <1>5, <1>6, <2>1, <3>1, SMTT(30) DEF IInv, TypeOK, IdsSuffice
    <2> QED
      BY <2>3, <2>4, <2>5, <2>6 DEF IInv
  <1>8. CASE m.t # "welcome"
    <2>1. /\ UNCHANGED <<link, pid>>
          /\ \/ status' = status
             \/ status' = [status EXCEPT ![m.seq] = "done"] /\ status[m.seq] = "waiting"
          /\ m.seq \in Seqs
      BY <1>2, <1>8, ReplyFacts DEF ClientReceive
    <2>2. /\ TypeOK'
          /\ \A s \in Seqs : status'[s] = status[s] \/ (status'[s] = "done" /\ status[s] = "waiting")
      BY <1>1, <1>2, <2>1 DEF IInv, TypeOK
    <2>3. PublishesAgree' /\ MemoryAgrees'
      BY <1>1, <1>4, <2>2 DEF IInv, PublishesAgree, MemoryAgrees, InFlight
    <2>4. HelloFirst'
      <3>1. \A i \in DOMAIN toBroker : toBroker[i].t # "hello"
        BY <1>1 DEF IInv, HelloFirst
      <3>2. link # "down"
        BY <1>1 DEF IInv, HelloFirst
      <3> QED
        BY <1>1, <1>3, <1>4, <2>1, <3>1, <3>2 DEF IInv, HelloFirst
    <2>5. IdsSuffice'
      BY <1>1, <1>5, <2>1 DEF IInv, IdsSuffice, Asking
    <2> QED
      BY <2>2, <2>3, <2>4, <2>5 DEF IInv
  <1> QED
    BY <1>7, <1>8

\* A client that sees its link close goes on with what is in flight, or gives it up.
LEMMA DisconnectedFacts ==
    ASSUME IInv, Disconnected, UNCHANGED <<seq, attempt>>, Sent' \subseteq Sent
    PROVE  /\ status' \in [Seqs -> {"idle", "waiting", "backoff", "offline", "done", "failed"}]
           /\ PublishesAgree'
           /\ \A s \in Seqs : /\ InFlight(s)' => InFlight(s)
                              /\ status'[s] = "done" => status[s] = "done"
                              /\ status'[s] # "waiting"
                              /\ status'[s] = "backoff" => status[s] = "backoff"
  <1>1. \A s \in Seqs :
          status'[s] = IF status[s] # "waiting" THEN status[s]
                       ELSE IF attempt[s] < Retries THEN "offline" ELSE "failed"
    BY DEF Disconnected
  <1>2. status' \in [Seqs -> {"idle", "waiting", "backoff", "offline", "done", "failed"}]
    BY DEF Disconnected, IInv, TypeOK
  <1>3. PublishesAgree'
    BY <1>1 DEF IInv, PublishesAgree, InFlight
  <1> QED
    BY <1>1, <1>2, <1>3 DEF InFlight

\* A link breaks; the broker may still read a prefix of what was written to it.
LEMMA BreakStep ==
    ASSUME IInv, Break
    PROVE  IInv' /\ Sent' \subseteq Sent
  <1>1. /\ link # "down" /\ breaks < MaxBreaks /\ breaks' = breaks + 1
        /\ link' = "down" /\ toBroker' = <<>> /\ toClient' = <<>>
        /\ Disconnected
        /\ UNCHANGED <<pid, seq, attempt, minted, hi, seen, log, accepted, restarts>>
    BY DEF Break, brokerVars
  <1>2. toBroker \in Seq(Hello \cup Request) /\ Len(toBroker) \in Nat
    BY DEF IInv, TypeOK
  <1>3. PICK n \in 0 .. Len(toBroker) :
          late' = IF n = 0 THEN late ELSE late \cup {SubSeq(toBroker, 1, n)}
    BY DEF Break
  <1> DEFINE p == SubSeq(toBroker, 1, n)
  <1>4. ASSUME n # 0
        PROVE  /\ p \in Seq(Hello \cup Request) /\ p # <<>> /\ toBroker # <<>>
               /\ \A i \in DOMAIN p : i \in DOMAIN toBroker /\ p[i] = toBroker[i]
               /\ ToSet(p) \subseteq ToSet(toBroker)
               /\ p[1] = toBroker[1]
    <2>1. n \in 1 .. Len(toBroker)
      BY <1>2, <1>4
    <2> QED
      BY <1>2, <2>1, PrefixFacts
  <1> HIDE DEF p
  <1>5. late' = late \/ (n # 0 /\ late' = late \cup {p})
    BY <1>3 DEF p
  <1>6. ToSet(<<>>) = {} /\ <<>> \in Seq(Reply) /\ <<>> \in Seq(Hello \cup Request)
    BY DEF ToSet
  <1>7. Sent' \subseteq Sent
    <2>1. \A s \in late' : s \in late \/ ToSet(s) \subseteq ToSet(toBroker)
      BY <1>4, <1>5
    <2> QED
      BY <1>1, <1>6, <2>1 DEF Sent
  <1>8. PublishesAgree' /\ TypeOK'
    <2>1. /\ status' \in [Seqs -> {"idle", "waiting", "backoff", "offline", "done", "failed"}]
          /\ PublishesAgree'
      BY <1>1, <1>7, DisconnectedFacts
    <2>2. \A s \in late' : s \in Seq(Hello \cup Request)
      BY <1>4, <1>5 DEF IInv, TypeOK
    <2>3. breaks' \in 0 .. MaxBreaks
      BY <1>1, ProducerAssumption DEF IInv, TypeOK
    <2> QED
      BY <1>1, <1>6, <2>1, <2>2, <2>3 DEF IInv, TypeOK
  <1>9. MemoryAgrees'
    BY <1>1 DEF IInv, MemoryAgrees
  <1>10. HelloFirst'
    BY <1>1, <1>4, <1>5, <1>7 DEF IInv, HelloFirst
  <1>11. IdsSuffice'
    <2>1. IsFiniteSet(LateHellos) /\ Cardinality(LateHellos) \in Nat
      BY FS_Subset, FS_CardinalityType DEF IInv, IdsSuffice, LateHellos
    <2>2. IsFiniteSet(late')
      BY <1>5, FS_AddElement DEF IInv, IdsSuffice
    <2>3. /\ LateHellos' \subseteq LateHellos \cup {p}
          /\ ~Asking => LateHellos' \subseteq LateHellos
      BY <1>4, <1>5 DEF LateHellos, Asking, IInv, HelloFirst
    <2>4. Cardinality(LateHellos \cup {p}) \in {Cardinality(LateHellos), Cardinality(LateHellos) + 1}
          /\ IsFiniteSet(LateHellos \cup {p})
      BY <2>1, FS_AddElement
    <2>5. /\ Cardinality(LateHellos') \in Nat
          /\ Cardinality(LateHellos') <= Cardinality(LateHellos) + (IF Asking THEN 1 ELSE 0)
      BY <2>1, <2>3, <2>4, FS_Subset, FS_CardinalityType
    <2> QED
      BY <1>1, <2>1, <2>2, <2>5 DEF IInv, TypeOK, IdsSuffice, Asking
  <1> QED
    BY <1>7, <1>8, <1>9, <1>10, <1>11 DEF IInv

\* The broker reads the next message of the link and answers it.
LEMMA BrokerReceiveStep ==
    ASSUME IInv, BrokerReceive
    PROVE  IInv' /\ Sent' \subseteq Sent
  <1> DEFINE m == Head(toBroker)
             a == Answer(m)
  <1>1. /\ toBroker # <<>> /\ Handle(m)
        /\ toClient' = Append(toClient, a) /\ toBroker' = Tail(toBroker)
        /\ UNCHANGED <<link, pid, seq, status, attempt, late, breaks, restarts>>
    BY DEF BrokerReceive, clientVars, bounds
  <1>2. /\ m = toBroker[1] /\ 1 \in DOMAIN toBroker /\ m \in Hello \cup Request /\ m \in Sent
        /\ toBroker' \in Seq(Hello \cup Request) /\ ToSet(toBroker') \subseteq ToSet(toBroker)
        /\ \A i \in DOMAIN toBroker' :
             i \in Nat \ {0} /\ i + 1 \in DOMAIN toBroker /\ toBroker'[i] = toBroker[i + 1]
    BY <1>1, TailFacts DEF IInv, TypeOK, Sent
  <1>3. m.t = "hello" /\ m.pid = NoPid => minted < MaxPid
    BY <1>1, <1>2, RoomForId
  <1>4. /\ hi' \in [Pid -> 0 .. MaxSeq] /\ seen' \in [Pid -> SUBSET Seqs]
        /\ log' \in Seq([pid : Pid \cup {NoPid}, seq : Seqs]) /\ accepted' \subseteq Seqs
        /\ minted' \in 0 .. MaxPid /\ minted <= minted'
        /\ m.t = "publish" => minted' = minted
        /\ m.t = "hello" => /\ NextPid(m.pid) \in Pid /\ NextPid(m.pid) <= minted'
                            /\ minted' = IF m.pid = NoPid THEN minted + 1 ELSE minted
        /\ MemoryAgrees'
    BY <1>1, <1>2, <1>3, HandleFacts
  <1>5. /\ a \in Reply
        /\ m.t = "hello" => a.t = "welcome" /\ a.pid = NextPid(m.pid)
        /\ m.t # "hello" => a.t = "ok"
    <2>1. CASE m.t = "hello"
      BY <1>4, <2>1 DEF Answer, Reply
    <2>2. CASE m.t # "hello"
      BY <1>2, <2>2, MessageFacts DEF Answer, Reply
    <2> QED
      BY <2>1, <2>2
  <1>6. m.t \in {"hello", "publish"} /\ m.pid \in Pid \cup {NoPid}
    BY <1>2, MessageFacts
  <1> HIDE DEF m, a
  <1>7. toClient \in Seq(Reply)
    BY DEF IInv, TypeOK
  <1>8. /\ toClient' \in Seq(Reply)
        /\ DOMAIN toClient' = 1 .. Len(toClient) + 1 /\ DOMAIN toClient = 1 .. Len(toClient)
        /\ \A i \in DOMAIN toClient : toClient'[i] = toClient[i]
        /\ toClient'[Len(toClient) + 1] = a
    BY <1>1, <1>5, <1>7, AppendFacts
  <1>9. TypeOK'
    BY <1>1, <1>2, <1>4, <1>8 DEF IInv, TypeOK
  <1>10. Sent' \subseteq Sent
    BY <1>1, <1>2 DEF Sent
  <1>11. PublishesAgree'
    BY <1>1, <1>10 DEF IInv, PublishesAgree, InFlight
  <1>12. \A i \in DOMAIN toBroker' : toBroker'[i].t # "hello"
    BY <1>2 DEF IInv, HelloFirst
  <1>13. link # "down"
    BY <1>1 DEF IInv, HelloFirst
  <1>14. \A i \in DOMAIN toClient' : toClient'[i].t = "welcome" =>
           /\ i = 1 /\ link = "hello" /\ toClient'[i].pid <= minted'
           /\ pid \in {NoPid, toClient'[i].pid}
    <2>1. CASE m.t = "hello"
      <3>1. /\ toClient = <<>> /\ link = "hello" /\ m.pid = pid
        BY <1>1, <1>2, <2>1 DEF IInv, HelloFirst
      <3>2. \A i \in DOMAIN toClient' : i = 1 /\ toClient'[i] = a
        BY <1>8, <3>1
      <3> QED
        BY <1>4, <1>5, <2>1, <3>1, <3>2 DEF NextPid
    <2>2. CASE m.t = "publish"
      <3>1. \A i \in DOMAIN toClient' : toClient'[i].t = "welcome" =>
              i \in DOMAIN toClient /\ toClient'[i] = toClient[i]
        BY <1>5, <1>7, <1>8, <2>2
      <3> QED
        BY <1>4, <2>2, <3>1 DEF IInv, HelloFirst
    <2> QED
      BY <1>6, <2>1, <2>2
  <1>15. HelloFirst'
    <2>1. pid <= minted' /\ \A r \in Sent' : r.pid <= minted'
      <3>1. \A r \in Sent : r.pid \in Pid \cup {NoPid} /\ r.pid <= minted
        BY SentFacts, MessageFacts DEF IInv, HelloFirst
      <3>2. minted \in Int /\ minted' \in Int /\ \A x \in Pid \cup {NoPid} : x \in Int
        BY <1>4 DEF IInv, TypeOK, Pid, NoPid
      <3>3. \A x \in Pid \cup {NoPid} : x <= minted => x <= minted'
        BY <1>4, <3>2
      <3>4. pid \in Pid \cup {NoPid} /\ pid <= minted
        BY DEF IInv, HelloFirst, TypeOK
      <3> QED
        BY <1>10, <3>1, <3>3, <3>4
    <2>2. /\ \A s \in late' : s # <<>> /\ \A i \in DOMAIN s : s[i].t = "hello" => i = 1
          /\ link' = "up" => pid' # NoPid
      BY <1>1 DEF IInv, HelloFirst
    <2> QED
      BY <1>1, <1>12, <1>13, <1>14, <2>1, <2>2 DEF HelloFirst
  <1>16. IdsSuffice'
    <2>1. ~Asking'
      <3>1. toBroker' # <<>> => 1 \in DOMAIN toBroker'
        BY <1>2, TailFacts
      <3> QED
        BY <1>12, <3>1 DEF Asking
    <2>2. LateHellos' = LateHellos /\ Cardinality(LateHellos) \in Nat
      BY <1>1, FS_Subset, FS_CardinalityType DEF IInv, IdsSuffice, LateHellos
    <2>3. m.t = "hello" /\ m.pid = NoPid => Asking
      BY <1>1, <1>2 DEF IInv, HelloFirst, Asking
    <2> QED
      BY <1>1, <1>4, <1>6, <2>1, <2>2, <2>3, SMTT(30) DEF IInv, TypeOK, IdsSuffice
  <1> QED
    BY <1>4, <1>9, <1>10, <1>11, <1>15, <1>16 DEF IInv


\* The broker reads on from a link that the client has given up.
LEMMA LateStep ==
    ASSUME IInv, BrokerReceiveLate
    PROVE  IInv' /\ Sent' \subseteq Sent
  <1>1. /\ UNCHANGED <<link, pid, seq, status, attempt, toBroker, toClient, breaks, restarts>>
        /\ \E s \in late :
             /\ Handle(Head(s))
             /\ late' = (late \ {s}) \cup (IF Len(s) = 1 THEN {} ELSE {Tail(s)})
    BY DEF BrokerReceiveLate, clientVars, bounds
  <1>2. PICK s \in late :
          /\ Handle(Head(s))
          /\ late' = (late \ {s}) \cup (IF Len(s) = 1 THEN {} ELSE {Tail(s)})
    BY <1>1
  <1> DEFINE m == Head(s)
             q == Tail(s)
  <1>3. s \in Seq(Hello \cup Request) /\ s # <<>>
    BY DEF IInv, TypeOK, HelloFirst
  <1>4. /\ m = s[1] /\ 1 \in DOMAIN s /\ m \in Hello \cup Request /\ m \in ToSet(s)
        /\ q \in Seq(Hello \cup Request) /\ ToSet(q) \subseteq ToSet(s)
        /\ \A i \in DOMAIN q : i \in Nat \ {0} /\ i + 1 \in DOMAIN s /\ q[i] = s[i + 1]
        /\ q = <<>> <=> Len(s) = 1
    BY <1>3, TailFacts
  <1>5. Handle(m) /\ late' \subseteq (late \ {s}) \cup {q} /\ (q \in late' => q # <<>> \/ q \in late)
    BY <1>2, <1>4
  <1>6. m.t \in {"hello", "publish"} /\ m.pid \in Pid \cup {NoPid} /\ m \in Sent
    BY <1>4, MessageFacts DEF Sent
  <1> HIDE DEF m, q
  <1>7. m.t = "hello" /\ m.pid = NoPid => minted < MaxPid
    BY <1>4, RoomForId
  <1>8. /\ hi' \in [Pid -> 0 .. MaxSeq] /\ seen' \in [Pid -> SUBSET Seqs]
        /\ log' \in Seq([pid : Pid \cup {NoPid}, seq : Seqs]) /\ accepted' \subseteq Seqs
        /\ minted' \in 0 .. MaxPid /\ minted <= minted'
        /\ m.t = "publish" => minted' = minted
        /\ m.t = "hello" => minted' = IF m.pid = NoPid THEN minted + 1 ELSE minted
        /\ MemoryAgrees'
    BY <1>1, <1>5, <1>6, <1>7, HandleFacts
  <1>9. TypeOK'
    BY <1>1, <1>4, <1>5, <1>8 DEF IInv, TypeOK
  <1>10. Sent' \subseteq Sent
    <2>1. \A r \in late' : r \in late \/ ToSet(r) \subseteq ToSet(s)
      BY <1>4, <1>5
    <2> QED
      BY <1>1, <2>1 DEF Sent
  <1>11. PublishesAgree'
    BY <1>1, <1>10 DEF IInv, PublishesAgree, InFlight
  <1>12. \A i \in DOMAIN q : q[i].t # "hello"
    BY <1>4 DEF IInv, HelloFirst
  <1>13. HelloFirst'
    <2>1. pid <= minted' /\ \A r \in Sent' : r.pid <= minted'
      <3>1. \A r \in Sent : r.pid \in Pid \cup {NoPid} /\ r.pid <= minted
        BY SentFacts, MessageFacts DEF IInv, HelloFirst
      <3>2. minted \in Int /\ minted' \in Int /\ minted <= minted'
        BY <1>8 DEF IInv, TypeOK
      <3>3. \A x \in Pid \cup {NoPid} : x <= minted => x <= minted'
        BY <3>2 DEF Pid, NoPid
      <3>4. pid \in Pid \cup {NoPid} /\ pid <= minted
        BY DEF IInv, HelloFirst, TypeOK
      <3> QED
        BY <1>10, <3>1, <3>3, <3>4
    <2>2. \A i \in DOMAIN toClient : toClient[i].t = "welcome" => toClient[i].pid <= minted'
      <3>1. \A i \in DOMAIN toClient : toClient[i].t = "welcome" =>
              toClient[i].pid \in Pid /\ toClient[i].pid <= minted
        BY ReplyFacts DEF IInv, TypeOK, HelloFirst
      <3> QED
        BY <1>8, <3>1 DEF IInv, TypeOK, Pid
    <2>3. \A r \in late' : r # <<>> /\ \A i \in DOMAIN r : r[i].t = "hello" => i = 1
      BY <1>5, <1>12 DEF IInv, HelloFirst
    <2> QED
      BY <1>1, <2>1, <2>2, <2>3 DEF IInv, HelloFirst
  <1>14. IdsSuffice'
    <2>1. IsFiniteSet(late') /\ IsFiniteSet(LateHellos) /\ Cardinality(LateHellos) \in Nat
      <3>1. IsFiniteSet(late \ {s})
        BY FS_RemoveElement DEF IInv, IdsSuffice
      <3>2. IsFiniteSet((late \ {s}) \cup {q})
        BY <3>1, FS_AddElement
      <3> QED
        BY <1>5, <3>2, FS_Subset, FS_CardinalityType DEF IInv, IdsSuffice, LateHellos
    <2>2. LateHellos' \subseteq LateHellos \ {s}
      <3>1. q # <<>> => 1 \in DOMAIN q
        BY <1>4, TailFacts
      <3>2. q \in late' => q[1].t # "hello"
        BY <1>5, <1>12, <3>1 DEF IInv, HelloFirst
      <3> QED
        BY <1>5, <3>2 DEF LateHellos
    <2>3. /\ Cardinality(LateHellos') \in Nat
          /\ Cardinality(LateHellos') <= Cardinality(LateHellos)
          /\ s \in LateHellos => Cardinality(LateHellos') <= Cardinality(LateHellos) - 1
      <3>1. /\ IsFiniteSet(LateHellos \ {s})
            /\ Cardinality(LateHellos \ {s}) = IF s \in LateHellos THEN Cardinality(LateHellos) - 1
                                               ELSE Cardinality(LateHellos)
        BY <2>1, FS_RemoveElement
      <3>2. /\ Cardinality(LateHellos') \in Nat
            /\ Cardinality(LateHellos') <= Cardinality(LateHellos \ {s})
        BY <2>2, <3>1, FS_Subset, FS_CardinalityType
      <3> QED
        BY <2>1, <3>1, <3>2
    <2>4. m.t = "hello" /\ m.pid = NoPid => s \in LateHellos
      BY <1>4 DEF LateHellos
    <2>5. Asking' = Asking
      BY <1>1 DEF Asking
    <2>6. minted' + Cardinality(LateHellos') <= minted + Cardinality(LateHellos)
      <3>1. minted \in Int /\ minted' \in Int
        BY <1>8 DEF IInv, TypeOK
      <3>2. \/ minted' = minted
            \/ minted' = minted + 1 /\ s \in LateHellos
        BY <1>6, <1>8, <2>4
      <3> QED
        BY <2>1, <2>3, <3>1, <3>2
    <2>7. minted \in Int /\ minted' \in Int /\ breaks \in Int /\ restarts \in Int
      BY <1>8 DEF IInv, TypeOK
    <2> QED
      BY <1>1, <2>1, <2>3, <2>5, <2>6, <2>7 DEF IInv, IdsSuffice
  <1> QED
    BY <1>8, <1>9, <1>10, <1>11, <1>13, <1>14 DEF IInv

\* What a broker recovers is part of what it had retained.
LEMMA RecoverFacts ==
    ASSUME IInv, Restart
    PROVE  /\ Sent' = {}
           /\ log' \in Seq([pid : Pid \cup {NoPid}, seq : Seqs])
           /\ \E f \in Nat : \A i \in DOMAIN log' :
                i \in Int /\ i + f \in DOMAIN log /\ log'[i] = log[i + f]
           /\ hi' \in [Pid -> 0 .. MaxSeq]
           /\ \A p \in Pid :
                /\ hi'[p] = 0 \/ \E i \in DOMAIN log' : log'[i].pid = p /\ log'[i].seq = hi'[p]
                /\ \A i \in DOMAIN log' : log'[i].pid = p => log'[i].seq <= hi'[p]
           /\ seen' = [p \in Pid |->
                        {log'[i].seq : i \in {j \in DOMAIN log' : log'[j].pid = p}}]
  <1>1. toBroker' = <<>> /\ late' = {}
    BY DEF Restart
  <1>2. Sent' = {}
    <2>1. ToSet(<<>>) = {}
      BY DEF ToSet
    <2> QED
      BY <1>1, <2>1 DEF Sent
  <1>3. log \in Seq([pid : Pid \cup {NoPid}, seq : Seqs]) /\ Len(log) \in Nat
        /\ DOMAIN log = 1 .. Len(log) /\ Retention \in Nat
    BY ProducerAssumption DEF IInv, TypeOK
  <1>4. Max({0, Len(log) - Retention}) \in Int
    <2> DEFINE d == Len(log) - Retention
    <2>1. d \in Int
      BY <1>3
    <2> HIDE DEF d
    <2>2. \E x \in {0, d} : \A y \in {0, d} : x >= y
      BY <2>1
    <2>3. Max({0, d}) \in {0, d}
      BY <2>2 DEF Max
    <2> QED
      BY <2>1, <2>3 DEF d
  <1>5. PICK from \in 1 .. (Max({0, Len(log) - Retention}) + 1), to \in 0 .. Len(log) :
          Recover(SubSeq(log, from, to))
    BY DEF Restart
  <1>6. from - 1 \in Nat /\ from = (from - 1) + 1 /\ to \in Nat /\ to <= Len(log)
    BY <1>3, <1>4, <1>5
  <1>7. /\ log' = SubSeq(log, from, to)
        /\ hi' = [p \in Pid |->
                   Max({0} \cup {log'[i].seq : i \in {j \in DOMAIN log' : log'[j].pid = p}})]
        /\ seen' = [p \in Pid |->
                     {log'[i].seq : i \in {j \in DOMAIN log' : log'[j].pid = p}}]
    BY <1>5 DEF Recover
  <1> DEFINE f == from - 1
  <1>8. f \in Nat /\ log' = SubSeq(log, f + 1, to)
    BY <1>6, <1>7
  <1> HIDE DEF f
  <1>9. /\ log' \in Seq([pid : Pid \cup {NoPid}, seq : Seqs])
        /\ \A i \in DOMAIN log' : i \in Int /\ i + f \in DOMAIN log /\ log'[i] = log[i + f]
    <2> DEFINE R == [pid : Pid \cup {NoPid}, seq : Seqs]
    <2>1. log \in Seq(R) /\ to \in Nat /\ to <= Len(log)
      BY <1>3, <1>6
    <2> HIDE DEF R
    <2>2. /\ log' \in Seq(R)
          /\ \A i \in DOMAIN log' : i \in Int /\ i + f \in DOMAIN log /\ log'[i] = log[i + f]
      BY <1>8, <2>1, PartFacts
    <2> QED
      BY <2>2 DEF R
  <1>10. \A i \in DOMAIN log' : log'[i].seq \in 0 .. MaxSeq
    <2>1. log' \in Seq([pid : Pid \cup {NoPid}, seq : Seqs])
      BY <1>9
    <2>2. \A i \in DOMAIN log' : log'[i].seq \in Seqs
      BY <2>1, RecordFacts
    <2>3. Seqs \subseteq 0 .. MaxSeq
      BY ProducerAssumption DEF Seqs
    <2> QED
      BY <2>2, <2>3
  <1>11. ASSUME NEW p \in Pid
         PROVE  /\ hi'[p] \in 0 .. MaxSeq
                /\ hi'[p] = 0 \/ \E i \in DOMAIN log' : log'[i].pid = p /\ log'[i].seq = hi'[p]
                /\ \A i \in DOMAIN log' : log'[i].pid = p => log'[i].seq <= hi'[p]
    <2> DEFINE T == {0} \cup {log'[i].seq : i \in {j \in DOMAIN log' : log'[j].pid = p}}
    <2>1. T \subseteq 0 .. MaxSeq /\ T # {} /\ MaxSeq \in Nat
      BY <1>10, ProducerAssumption
    <2>2. hi'[p] = Max(T)
      BY <1>7
    <2> HIDE DEF T
    <2>3. hi'[p] \in T /\ \A y \in T : y <= hi'[p]
      BY <2>1, <2>2, MaxFacts
    <2> QED
      BY <2>1, <2>3 DEF T
  <1>12. hi' \in [Pid -> 0 .. MaxSeq]
    BY <1>7, <1>11
  <1> QED
    BY <1>2, <1>7, <1>8, <1>9, <1>11, <1>12

\* The broker dies and comes back, and every link is gone.
LEMMA RestartStep ==
    ASSUME IInv, Restart
    PROVE  IInv'
  <1>1. /\ restarts < MaxRestarts /\ restarts' = restarts + 1
        /\ link' = "down" /\ toBroker' = <<>> /\ toClient' = <<>> /\ late' = {}
        /\ Disconnected
        /\ UNCHANGED <<pid, seq, attempt, minted, breaks, accepted>>
    BY DEF Restart
  <1>2. PICK f \in Nat : \A i \in DOMAIN log' :
                           i \in Int /\ i + f \in DOMAIN log /\ log'[i] = log[i + f]
    BY RecoverFacts
  <1>3. ToSet(<<>>) = {} /\ <<>> \in Seq(Reply) /\ <<>> \in Seq(Hello \cup Request)
    BY DEF ToSet
  <1>4. Sent' = {} /\ log' \in Seq([pid : Pid \cup {NoPid}, seq : Seqs])
        /\ hi' \in [Pid -> 0 .. MaxSeq]
    BY RecoverFacts
  <1>5. seen' \in [Pid -> SUBSET Seqs]
    <2>1. \A i \in DOMAIN log' : log'[i].seq \in Seqs
      BY <1>4, RecordFacts
    <2>2. \A p \in Pid : {log'[i].seq : i \in {j \in DOMAIN log' : log'[j].pid = p}} \subseteq Seqs
      BY <2>1
    <2>3. seen' = [p \in Pid |->
                    {log'[i].seq : i \in {j \in DOMAIN log' : log'[j].pid = p}}]
      BY RecoverFacts
    <2> QED
      BY <2>2, <2>3
  <1>6. /\ status' \in [Seqs -> {"idle", "waiting", "backoff", "offline", "done", "failed"}]
        /\ PublishesAgree'
    BY <1>1, <1>4, DisconnectedFacts
  <1>7. TypeOK'
    <2>1. restarts' \in 0 .. MaxRestarts
      BY <1>1, ProducerAssumption DEF IInv, TypeOK
    <2> QED
      BY <1>1, <1>3, <1>4, <1>5, <1>6, <2>1 DEF IInv, TypeOK
  <1>8. MemoryAgrees'
    <2>1. \A i \in DOMAIN log' : log'[i].seq \in accepted'
      BY <1>1, <1>2 DEF IInv, MemoryAgrees
    <2>2. \A s \in accepted' : s <= seq'
      BY <1>1 DEF IInv, MemoryAgrees
    <2>3. \A p \in Pid : seen'[p] \subseteq accepted'
      BY <2>1, RecoverFacts
    <2>4. \A p \in Pid : hi'[p] <= seq'
      <3>1. seq' \in Nat
        BY <1>1 DEF IInv, TypeOK
      <3>2. \A p \in Pid : hi'[p] = 0 \/ \E i \in DOMAIN log' : log'[i].seq = hi'[p]
        BY RecoverFacts
      <3> QED
        BY <2>1, <2>2, <3>1, <3>2
    <2> QED
      BY <2>1, <2>2, <2>3, <2>4 DEF MemoryAgrees
  <1>9. HelloFirst'
    BY <1>1, <1>3, <1>4 DEF IInv, HelloFirst
  <1>10. IdsSuffice'
    <2>1. LateHellos' = {} /\ IsFiniteSet({}) /\ Cardinality({}) = 0 /\ ~Asking'
      BY <1>1, FS_EmptySet DEF LateHellos, Asking
    <2>2. Cardinality(LateHellos) \in Nat
      BY FS_Subset, FS_CardinalityType DEF IInv, IdsSuffice, LateHellos
    <2> QED
      BY <1>1, <2>1, <2>2 DEF IInv, TypeOK, IdsSuffice
  <1> QED
    BY <1>6, <1>7, <1>8, <1>9, <1>10 DEF IInv

LEMMA NextStep == IInv /\ [Next]_vars => IInv'
  <1> SUFFICES ASSUME IInv, [Next]_vars PROVE IInv'
    OBVIOUS
  <1>1. CASE Publish \/ \E s \in Seqs : Retry(s)
    BY <1>1, TryStep
  <1>2. CASE \E s \in Seqs : Timeout(s) \/ GiveUp(s)
    BY <1>2, TimerStep
  <1>3. CASE UNCHANGED vars
    <2>1. Sent' = Sent /\ LateHellos' = LateHellos /\ Asking' = Asking
      BY <1>3 DEF vars, clientVars, Sent, LateHellos, Asking
    <2> QED
      BY <1>3, <2>1 DEF vars, clientVars, brokerVars, bounds, IInv, TypeOK, PublishesAgree,
                        MemoryAgrees, HelloFirst, IdsSuffice, InFlight
  <1> QED
    BY <1>1, <1>2, <1>3, ConnectStep, ClientReceiveStep, BreakStep, BrokerReceiveStep, LateStep,
       RestartStep DEF Next

\* The types, and what else holds of the client, the streams and the broker at all times.
THEOREM Inductive == Spec => []IInv
  BY InitIInv, NextStep, PTL DEF Spec

\* Each variable of client.js and broker.js that is modelled has its type.
THEOREM TypeCorrect == Spec => []TypeOK
  <1>1. IInv => TypeOK
    BY DEF IInv
  <1> QED
    BY <1>1, Inductive, PTL


-----------------------------------------------------------------------------
(* A publish that resolves was accepted.                                   *)

\* The states of a publish that is in flight.
Underway == {"waiting", "backoff", "offline"}

\* The broker settles a message: it has accepted it, or takes one that is so far behind for a
\* repeat that the program waits for it no longer.
LEMMA SettledFacts ==
    ASSUME IInv, Spread <= Window, NEW m \in Sent, m.t = "publish", Handle(m),
           UNCHANGED <<seq, status>>
    PROVE  m.seq \in accepted' \/ status'[m.seq] \notin Underway
  <1>1. /\ m.pid \in Pid \cup {NoPid} /\ m.seq \in Seqs
    BY MessageFacts, SentFacts DEF IInv
  <1>2. CASE Accept(m.pid, m.seq)
    BY <1>2 DEF Accept
  <1>3. CASE m.pid # NoPid /\ Duplicate(m.pid, m.seq) /\ accepted' = accepted
    <2>1. m.pid \in Pid
      BY <1>1, <1>3
    <2>2. CASE m.seq > hi[m.pid] - Window
      BY <1>3, <2>1, <2>2 DEF Duplicate, IInv, MemoryAgrees
    <2>3. CASE ~(m.seq > hi[m.pid] - Window)
      <3>1. /\ hi[m.pid] \in Int /\ hi[m.pid] <= seq /\ seq \in Int /\ m.seq \in Int
            /\ Window \in Int /\ Spread \in Int
        BY <1>1, <2>1, ProducerAssumption DEF IInv, TypeOK, MemoryAgrees, Seqs
      <3>2. ~(seq - m.seq < Spread)
        BY <2>3, <3>1
      <3> QED
        BY <1>1, <3>2 DEF IInv, PublishesAgree, InFlight, Underway
    <2> QED
      BY <2>2, <2>3
  <1> QED
    BY <1>2, <1>3 DEF Handle

LEMMA ResolvedStep ==
    ASSUME IInv, IInv', Spread <= Window, ResolvedInv, Next
    PROVE  ResolvedInv'
  <1>1. \A m \in ToSet(toClient) : m.t = "ok" => m.seq \in Seqs
    <2>1. ToSet(toClient) \subseteq Reply
      BY DEF IInv, TypeOK, ToSet
    <2> QED
      BY <2>1, ReplyFacts
  <1>2. ASSUME /\ toClient' = toClient \/ toClient' = <<>>
               /\ accepted' = accepted /\ seq <= seq'
               /\ \A s \in Seqs : /\ s <= seq /\ status'[s] \in Underway => status[s] \in Underway
                                  /\ status'[s] = "done" => status[s] = "done"
        PROVE  ResolvedInv'
    <2>1. ToSet(toClient') \subseteq ToSet(toClient)
      BY <1>2 DEF ToSet
    <2>2. seq \in Int /\ seq' \in Int /\ Seqs \subseteq Int
      BY DEF IInv, TypeOK, Seqs
    <2>3. \A m \in ToSet(toClient') : m.t = "ok" =>
             m.seq <= seq' /\ (m.seq \in accepted' \/ status'[m.seq] \notin Underway)
      <3> SUFFICES ASSUME NEW m \in ToSet(toClient'), m.t = "ok"
                   PROVE  m.seq <= seq' /\ (m.seq \in accepted' \/ status'[m.seq] \notin Underway)
        OBVIOUS
      <3>1. m \in ToSet(toClient) /\ m.seq \in Seqs
        BY <1>1, <2>1
      <3>2. m.seq <= seq /\ (m.seq \in accepted \/ status[m.seq] \notin Underway)
        BY <3>1 DEF ResolvedInv, AnswersAgree, InFlight, Underway
      <3>3. m.seq <= seq'
        <4>1. m.seq \in Int /\ seq \in Int /\ seq' \in Int
          BY <2>2, <3>1
        <4>2. m.seq <= seq
          BY <3>2
        <4>3. seq <= seq'
          BY <1>2
        <4> QED
          BY <4>1, <4>2, <4>3
      <3> QED
        BY <1>2, <3>1, <3>2, <3>3
    <2> QED
      BY <1>2, <2>3 DEF InFlight, Underway, ResolvedInv, AnswersAgree,
         ResolvedIsAccepted
  <1>3. CASE Publish \/ \E s \in Seqs : Retry(s)
    <2>1. PICK s \in Seqs, st \in {"waiting", "offline", "failed"} :
            /\ status' = [status EXCEPT ![s] = st]
            /\ s = seq + 1 \/ InFlight(s)
            /\ seq' = seq \/ (seq' = s /\ s = seq + 1)
            /\ toClient' = toClient /\ accepted' = accepted
      BY <1>3 DEF Publish, Retry, Try, brokerVars, InFlight, Underway
    <2>2. seq \in Int /\ seq <= seq'
      BY <2>1 DEF IInv, TypeOK
    <2>3. \A r \in Seqs : /\ r <= seq /\ status'[r] \in Underway => status[r] \in Underway
                          /\ status'[r] = "done" => status[r] = "done"
      BY <2>1, <2>2, SMTT(30) DEF IInv, TypeOK, InFlight, Underway, Seqs
    <2> QED
      BY <1>2, <2>1, <2>2, <2>3
  <1>4. CASE \E s \in Seqs : Timeout(s) \/ GiveUp(s)
    <2>1. PICK s \in Seqs, st \in {"backoff", "failed"} :
            /\ status' = [status EXCEPT ![s] = st] /\ InFlight(s)
            /\ seq' = seq /\ toClient' = toClient /\ accepted' = accepted
      BY <1>4 DEF Timeout, GiveUp, brokerVars, InFlight, Underway
    <2>2. \A r \in Seqs : /\ status'[r] \in Underway => status[r] \in Underway
                          /\ status'[r] = "done" => status[r] = "done"
      BY <2>1 DEF IInv, TypeOK, InFlight, Underway
    <2>3. seq <= seq'
      BY <2>1 DEF IInv, TypeOK
    <2> QED
      BY <1>2, <2>1, <2>2, <2>3
  <1>5. CASE Connect
    <2>1. UNCHANGED <<seq, status, toClient, accepted>> /\ seq <= seq'
      BY <1>5 DEF Connect, brokerVars, IInv, TypeOK
    <2> QED
      BY <1>2, <2>1 DEF InFlight, Underway
  <1>6. CASE Break \/ Restart
    <2>1. /\ toClient' = <<>> /\ accepted' = accepted /\ UNCHANGED <<seq, attempt>> /\ Disconnected
      BY <1>6 DEF Break, Restart, brokerVars
    <2>2. Sent' \subseteq Sent
      BY <1>6, BreakStep, RecoverFacts
    <2>3. seq <= seq'
      BY <2>1 DEF IInv, TypeOK
    <2>4. \A s \in Seqs : /\ status'[s] \in Underway => status[s] \in Underway
                          /\ status'[s] = "done" => status[s] = "done"
      BY <2>1, <2>2, DisconnectedFacts DEF InFlight, Underway
    <2> QED
      BY <1>2, <2>1, <2>3, <2>4
  <1>7. CASE ClientReceive
    <2> DEFINE m == Head(toClient)
    <2>1. /\ m \in ToSet(toClient) /\ m \in Reply /\ ToSet(toClient') \subseteq ToSet(toClient)
          /\ seq' = seq /\ accepted' = accepted
      BY <1>7, TailFacts DEF ClientReceive, brokerVars, IInv, TypeOK
    <2>2. \/ status' = status
          \/ /\ m.t = "ok" /\ m.seq \in Seqs /\ status[m.seq] = "waiting"
             /\ status' = [status EXCEPT ![m.seq] = "done"]
      BY <1>7, <2>1, ReplyFacts DEF ClientReceive
    <2> HIDE DEF m
    <2>3. \A s \in Seqs : /\ status'[s] \in Underway => status[s] \in Underway
                          /\ status'[s] = "done" => status[s] = "done" \/ s \in accepted
      BY <2>1, <2>2 DEF IInv, TypeOK, InFlight, Underway, ResolvedInv, AnswersAgree
    <2> QED
      BY <1>1, <2>1, <2>3 DEF InFlight, Underway, ResolvedInv, AnswersAgree,
         ResolvedIsAccepted
  <1>8. CASE BrokerReceive
    <2> DEFINE m == Head(toBroker)
               a == Answer(m)
    <2>1. /\ Handle(m) /\ toClient' = Append(toClient, a) /\ m \in Sent
          /\ UNCHANGED <<seq, status>>
      BY <1>8, TailFacts DEF BrokerReceive, clientVars, Sent, IInv, TypeOK
    <2>2. a.t = "ok" => m.t = "publish" /\ a.seq = m.seq
      BY <2>1, MessageFacts, SentFacts DEF Answer, IInv
    <2>3. a \in Reply
      <3>1. m.t = "hello" /\ m.pid = NoPid => minted < MaxPid
        BY <1>8, RoomForId, TailFacts DEF BrokerReceive, IInv, TypeOK
      <3>2. m.t = "hello" => NextPid(m.pid) \in Pid
        BY <2>1, <3>1, HandleFacts
      <3>3. m.t = "publish" => m.seq \in Seqs /\ m.attempt \in 0 .. Retries
        BY <2>1, MessageFacts, SentFacts DEF IInv
      <3>4. m.t \in {"hello", "publish"}
        BY <2>1, MessageFacts, SentFacts DEF IInv
      <3> QED
        BY <3>2, <3>3, <3>4 DEF Answer, Reply
    <2>4. m.t = "publish" => m.seq <= seq /\ (m.seq \in accepted' \/ status'[m.seq] \notin Underway)
      <3> SUFFICES ASSUME m.t = "publish"
                   PROVE  m.seq <= seq /\ (m.seq \in accepted' \/ status'[m.seq] \notin Underway)
        OBVIOUS
      <3>1. m.seq <= seq
        BY <2>1 DEF IInv, PublishesAgree
      <3> HIDE DEF m
      <3> QED
        BY <2>1, <3>1, SettledFacts
    <2>5. accepted \subseteq accepted'
      BY <2>1 DEF Handle, Accept
    <2> HIDE DEF m, a
    <2>6. \A r \in ToSet(toClient') : r \in ToSet(toClient) \/ r = a
      BY <2>1, <2>3, AppendFacts DEF IInv, TypeOK
    <2>7. \A r \in ToSet(toClient) : r.t = "ok" =>
            r.seq <= seq' /\ (r.seq \in accepted' \/ status'[r.seq] \notin Underway)
      BY <1>1, <2>1, <2>5 DEF ResolvedInv, AnswersAgree, InFlight, Underway
    <2>8. a.t = "ok" => a.seq <= seq' /\ (a.seq \in accepted' \/ status'[a.seq] \notin Underway)
      BY <2>1, <2>2, <2>4 DEF InFlight, Underway
    <2> QED
      BY <2>1, <2>5, <2>6, <2>7, <2>8 DEF InFlight, Underway, ResolvedInv, AnswersAgree,
         ResolvedIsAccepted
  <1>9. CASE BrokerReceiveLate
    <2>1. UNCHANGED <<seq, status, toClient>> /\ accepted \subseteq accepted'
      BY <1>9 DEF BrokerReceiveLate, clientVars, Handle, Accept
    <2>2. \A s \in Seqs : status'[s] = status[s]
      BY <2>1 DEF InFlight, Underway
    <2> QED
      BY <1>1, <2>1, <2>2 DEF InFlight, Underway, ResolvedInv, AnswersAgree,
         ResolvedIsAccepted
  <1> QED
    BY <1>3, <1>4, <1>5, <1>6, <1>7, <1>8, <1>9 DEF Next

\* A publish() that resolves was accepted by a broker, as long as the program leaves fewer
\* messages in flight than dedupWindow: _dedupSeen takes for a repeat what is further behind.
THEOREM ResolvedHolds ==
    ASSUME Spread <= Window
    PROVE  Spec => []ResolvedIsAccepted
  <1>1. Init => ResolvedInv
    BY DEF Init, ResolvedInv, AnswersAgree, ResolvedIsAccepted, ToSet
  <1>2. IInv /\ IInv' /\ ResolvedInv /\ [Next]_vars => ResolvedInv'
    <2> SUFFICES ASSUME IInv, IInv', ResolvedInv, [Next]_vars PROVE ResolvedInv'
      OBVIOUS
    <2>1. CASE Next
      BY <2>1, ResolvedStep
    <2>2. CASE UNCHANGED vars
      BY <2>2 DEF vars, clientVars, brokerVars, ResolvedInv, AnswersAgree, ResolvedIsAccepted,
                  InFlight, Underway
    <2> QED
      BY <2>1, <2>2
  <1>3. ResolvedInv => ResolvedIsAccepted
    BY DEF Underway, ResolvedInv
  <1> QED
    BY <1>1, <1>2, <1>3, Inductive, PTL DEF Spec


-----------------------------------------------------------------------------
(* A publish is accepted once.                                             *)

\* What _dedupSeen makes of a message of the one id: a repeat of what is retained, or it marks
\* it and still covers what it did.
LEMMA AcceptFacts ==
    ASSUME IInv, OnceInv, NEW m \in Sent, Handle(m), pid' = pid
    PROVE  WindowCovers' /\ AcceptedOnce' /\ \A i \in DOMAIN log' : pid # NoPid /\ log'[i].pid = pid
  <1>1. /\ m.t = "publish" => m.pid \in Pid \cup {NoPid} /\ m.seq \in Seqs
        /\ m.t \in {"hello", "publish"}
    BY MessageFacts, SentFacts DEF IInv
  <1>2. CASE UNCHANGED <<hi, seen, log>>
    BY <1>2 DEF OnceInv, OneId, WindowCovers, AcceptedOnce
  <1>3. CASE /\ m.t = "publish" /\ Accept(m.pid, m.seq)
             /\ ~(m.pid # NoPid /\ Duplicate(m.pid, m.seq))
    <2> DEFINE s == m.seq
    <2>1. /\ pid # NoPid /\ m.pid = pid /\ pid \in Pid /\ s \in Seqs
      BY <1>1, <1>3 DEF OnceInv, OneId
    <2>2. /\ log' = Append(log, [pid |-> pid, seq |-> s])
          /\ hi' = [hi EXCEPT ![pid] = IF s > @ THEN s ELSE @]
          /\ seen' = [seen EXCEPT ![pid] = Remembered(pid, s)]
          /\ ~Duplicate(pid, s)
      BY <1>3, <2>1 DEF Accept
    <2> HIDE DEF s
    <2>3. hi[pid] \in Int /\ s \in Int /\ Window \in Int /\ Window > 0
      BY <2>1, ProducerAssumption DEF IInv, TypeOK, Seqs
    <2>4. hi'[pid] = IF s > hi[pid] THEN s ELSE hi[pid]
      BY <2>1, <2>2 DEF IInv, TypeOK
    <2>5. seen'[pid] = Remembered(pid, s)
      BY <2>1, <2>2 DEF IInv, TypeOK
    <2>6. \A i \in DOMAIN log : log[i].seq \in Int
      <3>1. log \in Seq([pid : Pid \cup {NoPid}, seq : Seqs]) /\ Seqs \subseteq Int
        BY DEF IInv, TypeOK, Seqs
      <3> QED
        BY <3>1, RecordFacts
    <2>7. \A i \in DOMAIN log : log[i].seq # s
      BY <2>2, <2>3, <2>6 DEF Duplicate, OnceInv, WindowCovers
    <2>8. \A r \in Int : /\ r <= hi[pid] /\ (r > hi[pid] - Window => r \in seen[pid])
                         => r <= hi'[pid] /\ (r > hi'[pid] - Window => r \in seen'[pid])
      BY <2>3, <2>4, <2>5 DEF Remembered
    <2>9. s <= hi'[pid] /\ s \in seen'[pid]
      BY <2>3, <2>4, <2>5 DEF Remembered
    <2>10. \A i \in DOMAIN log' :
             \/ i \in DOMAIN log /\ log'[i] = log[i]
             \/ i = Len(log) + 1 /\ log'[i].seq = s /\ log'[i].pid = pid
      <3> DEFINE e == [pid |-> pid, seq |-> s]
      <3>1. e \in [pid : Pid \cup {NoPid}, seq : Seqs] /\ e.seq = s /\ e.pid = pid
        BY <2>1
      <3>2. log' = Append(log, e) /\ log \in Seq([pid : Pid \cup {NoPid}, seq : Seqs])
        BY <2>2 DEF IInv, TypeOK
      <3> HIDE DEF e
      <3>3. /\ DOMAIN log' = 1 .. Len(log) + 1 /\ DOMAIN log = 1 .. Len(log) /\ Len(log) \in Nat
            /\ \A i \in DOMAIN log : log'[i] = log[i]
            /\ log'[Len(log) + 1] = e
        BY <3>1, <3>2, AppendFacts
      <3> QED
        BY <3>1, <3>3
    <2>11. WindowCovers'
      <3>1. \A i \in DOMAIN log : /\ log[i].seq <= hi'[pid]
                                  /\ log[i].seq > hi'[pid] - Window => log[i].seq \in seen'[pid]
        BY <2>6, <2>8 DEF OnceInv, WindowCovers
      <3> QED
        BY <2>9, <2>10, <3>1 DEF WindowCovers
    <2>12. AcceptedOnce'
      BY <2>7, <2>10 DEF OnceInv, AcceptedOnce
    <2> QED
      BY <2>1, <2>10, <2>11, <2>12 DEF OnceInv, OneId
  <1> QED
    BY <1>1, <1>2, <1>3 DEF Handle

LEMMA OnceStep ==
    ASSUME IInv, ~EarlyPublish, OnceInv, Next
    PROVE  OnceInv'
  <1>1. ASSUME /\ UNCHANGED <<pid, hi, seen, log>>
               /\ \A s \in Seqs : status'[s] \in {"waiting", "backoff"} =>
                                    status[s] \in {"waiting", "backoff"} \/ pid # NoPid
               /\ \A m \in Sent' : m.t = "publish" => m \in Sent \/ (pid # NoPid /\ m.pid = pid)
        PROVE  OnceInv'
    BY <1>1 DEF OnceInv, OneId, WindowCovers, AcceptedOnce
  <1>2. CASE Publish \/ \E s \in Seqs : Retry(s)
    <2>1. PICK s \in Seqs, n \in 0 .. Retries :
            /\ Try(s, n) /\ UNCHANGED <<link, pid, late, hi, seen, log>>
            /\ link = "down" \/ pid # NoPid
      <3>1. CASE Publish
        BY <3>1, ProducerAssumption DEF Publish, brokerVars, IInv, TypeOK, HelloFirst
      <3>2. ASSUME NEW s \in Seqs, Retry(s)
            PROVE  /\ attempt[s] + 1 \in 0 .. Retries /\ pid # NoPid
                   /\ Try(s, attempt[s] + 1) /\ UNCHANGED <<link, pid, late, hi, seen, log>>
        BY <3>2, ProducerAssumption
           DEF Retry, IInv, TypeOK, PublishesAgree, OnceInv, OneId, HelloFirst, brokerVars
      <3> QED
        BY <1>2, <3>1, <3>2
    <2>2. PICK st \in {"waiting", "offline", "failed"} :
            status' = [status EXCEPT ![s] = st] /\ (st = "waiting" => link # "down")
      BY <2>1, TryFacts
    <2>3. \A m \in ToSet(toBroker') : \/ m \in ToSet(toBroker)
                                      \/ m.pid = pid /\ link # "down"
      BY <2>1, TryFacts
    <2>4. \A m \in Sent' : m \in Sent \/ (pid # NoPid /\ m.pid = pid)
      BY <2>1, <2>3 DEF Sent
    <2>5. \A r \in Seqs : status'[r] \in {"waiting", "backoff"} =>
                            status[r] \in {"waiting", "backoff"} \/ pid # NoPid
      BY <2>1, <2>2 DEF IInv, TypeOK
    <2> QED
      BY <1>1, <2>1, <2>4, <2>5
  <1>3. CASE \E s \in Seqs : Timeout(s) \/ GiveUp(s)
    <2>1. PICK s \in Seqs :
            /\ \/ status' = [status EXCEPT ![s] = "failed"]
               \/ status' = [status EXCEPT ![s] = "backoff"] /\ status[s] = "waiting"
            /\ UNCHANGED <<pid, hi, seen, log, toBroker, late>>
      BY <1>3 DEF Timeout, GiveUp, brokerVars
    <2>2. \A r \in Seqs : status'[r] \in {"waiting", "backoff"} =>
                            status[r] \in {"waiting", "backoff"}
      BY <2>1 DEF IInv, TypeOK
    <2>3. Sent' = Sent
      BY <2>1 DEF Sent
    <2> QED
      BY <1>1, <2>1, <2>2, <2>3
  <1>4. CASE Connect
    <2>1. /\ UNCHANGED <<pid, hi, seen, log, status, late>>
          /\ toBroker' = <<[t |-> "hello", pid |-> pid]>>
      BY <1>4 DEF Connect, brokerVars
    <2>2. \A m \in ToSet(toBroker') : m.t = "hello"
      BY <2>1 DEF ToSet
    <2>3. \A m \in Sent' : m.t = "publish" => m \in Sent
      BY <2>1, <2>2 DEF Sent
    <2> QED
      BY <1>1, <2>1, <2>3
  <1>5. CASE ClientReceive
    <2>1. /\ UNCHANGED <<hi, seen, log, toBroker, late>>
          /\ \A s \in Seqs : status'[s] \in {"waiting", "backoff"} =>
                               status[s] \in {"waiting", "backoff"}
      BY <1>5 DEF ClientReceive, brokerVars, IInv, TypeOK
    <2>2. pid' = pid \/ (pid = NoPid /\ pid' # NoPid)
      <3>1. /\ Head(toClient) = toClient[1] /\ 1 \in DOMAIN toClient /\ Head(toClient) \in Reply
            /\ pid' = pid \/ (Head(toClient).t = "welcome" /\ pid' = Head(toClient).pid)
        BY <1>5, TailFacts DEF ClientReceive, IInv, TypeOK
      <3> QED
        BY <3>1, ReplyFacts DEF IInv, HelloFirst, Pid, NoPid
    <2>3. Sent' = Sent
      BY <2>1 DEF Sent
    <2>4. CASE pid' = pid
      BY <1>1, <2>1, <2>3, <2>4
    <2>5. CASE pid = NoPid /\ pid' # NoPid
      <3>1. DOMAIN log = {}
        BY <2>5 DEF OnceInv, OneId
      <3> QED
        BY <2>1, <2>3, <2>5, <3>1 DEF OnceInv, OneId, WindowCovers, AcceptedOnce
    <2> QED
      BY <2>2, <2>4, <2>5
  <1>6. CASE Break
    <2>1. /\ UNCHANGED <<pid, seq, attempt, hi, seen, log>> /\ Disconnected
      BY <1>6 DEF Break, brokerVars
    <2>2. Sent' \subseteq Sent
      BY <1>6, BreakStep
    <2> QED
      BY <1>1, <2>1, <2>2, DisconnectedFacts
  <1>7. CASE BrokerReceive \/ BrokerReceiveLate
    <2>1. PICK m \in Sent : Handle(m)
      <3>1. CASE BrokerReceive
        BY <3>1, TailFacts DEF BrokerReceive, Sent, IInv, TypeOK
      <3>2. CASE BrokerReceiveLate
        <4>1. PICK s \in late : Handle(Head(s))
          BY <3>2 DEF BrokerReceiveLate
        <4>2. Head(s) \in ToSet(s)
          BY TailFacts DEF IInv, TypeOK, HelloFirst
        <4> QED
          BY <4>1, <4>2 DEF Sent
      <3> QED
        BY <1>7, <3>1, <3>2
    <2>2. UNCHANGED <<pid, status>> /\ Sent' \subseteq Sent
      BY <1>7, BrokerReceiveStep, LateStep DEF BrokerReceive, BrokerReceiveLate, clientVars
    <2>3. /\ WindowCovers' /\ AcceptedOnce'
          /\ \A i \in DOMAIN log' : pid # NoPid /\ log'[i].pid = pid
      BY <2>1, <2>2, AcceptFacts
    <2> QED
      BY <2>2, <2>3 DEF OnceInv, OneId
  <1>8. CASE Restart
    <2>1. UNCHANGED <<pid, seq, attempt>> /\ Disconnected /\ Sent' = {}
      BY <1>8, RecoverFacts DEF Restart
    <2>2. \A s \in Seqs : status'[s] \in {"waiting", "backoff"} =>
                            status[s] \in {"waiting", "backoff"}
      BY <2>1, DisconnectedFacts
    <2>3. PICK f \in Nat : \A i \in DOMAIN log' :
                             i \in Int /\ i + f \in DOMAIN log /\ log'[i] = log[i + f]
      BY <1>8, RecoverFacts
    <2>4. \A i \in DOMAIN log' : pid # NoPid /\ log'[i].pid = pid
      BY <2>3 DEF OnceInv, OneId
    <2>5. AcceptedOnce'
      <3>1. \A i, j \in DOMAIN log' : log'[i].seq = log'[j].seq => i + f = j + f
        BY <2>3 DEF OnceInv, AcceptedOnce
      <3>2. \A i \in DOMAIN log' : i \in Int
        BY <2>3
      <3>3. \A i, j \in Int : i + f = j + f => i = j
        OBVIOUS
      <3> QED
        BY <3>1, <3>2, <3>3 DEF AcceptedOnce
    <2>6. WindowCovers'
      <3>1. DOMAIN log' # {} => pid \in Pid
        BY <2>4 DEF IInv, TypeOK
      <3>2. seen' = [p \in Pid |->
                      {log'[i].seq : i \in {j \in DOMAIN log' : log'[j].pid = p}}]
        BY <1>8, RecoverFacts
      <3>3. \A p \in Pid : \A i \in DOMAIN log' : log'[i].pid = p => log'[i].seq <= hi'[p]
        BY <1>8, RecoverFacts
      <3>4. \A i \in DOMAIN log' : log'[i].seq \in seen'[pid]
        <4> SUFFICES ASSUME NEW i \in DOMAIN log'
                     PROVE  log'[i].seq \in seen'[pid]
          OBVIOUS
        <4>1. pid \in Pid /\ log'[i].pid = pid
          BY <2>4, <3>1
        <4>2. seen'[pid] = {log'[k].seq : k \in {j \in DOMAIN log' : log'[j].pid = pid}}
          BY <3>2, <4>1
        <4> QED
          BY <4>1, <4>2
      <3> QED
        <4>1. \A i \in DOMAIN log' : log'[i].seq <= hi'[pid]
          BY <2>4, <3>1, <3>3
        <4> QED
          BY <2>1, <3>4, <4>1 DEF WindowCovers
    <2> QED
      BY <2>1, <2>2, <2>4, <2>5, <2>6 DEF OnceInv, OneId
  <1> QED
    BY <1>2, <1>3, <1>4, <1>5, <1>6, <1>7, <1>8 DEF Next

\* The broker accepts a publish once, also when it is retried over a new link while the old one
\* is still being read, or after a restart from the log (_dedupSeen, _recoverPub), provided the
\* program does not publish before the client has its producer id.
THEOREM OnceHolds ==
    ASSUME ~EarlyPublish
    PROVE  Spec => []AcceptedOnce
  <1>1. Init => OnceInv
    <2> SUFFICES ASSUME Init PROVE OnceInv
      OBVIOUS
    <2>1. Sent = {} /\ DOMAIN log = {}
      BY DEF Init, Sent, ToSet
    <2> QED
      BY <2>1 DEF Init, OnceInv, OneId, WindowCovers, AcceptedOnce
  <1>2. IInv /\ OnceInv /\ [Next]_vars => OnceInv'
    <2> SUFFICES ASSUME IInv, OnceInv, [Next]_vars PROVE OnceInv'
      OBVIOUS
    <2>1. CASE Next
      BY <2>1, OnceStep
    <2>2. CASE UNCHANGED vars
      BY <2>2 DEF vars, clientVars, brokerVars, OnceInv, OneId, WindowCovers, AcceptedOnce, Sent
    <2> QED
      BY <2>1, <2>2
  <1>3. OnceInv => AcceptedOnce
    BY DEF OnceInv
  <1> QED
    BY <1>1, <1>2, <1>3, Inductive, PTL DEF Spec

=============================================================================
