----------------------------- MODULE LockProofs -----------------------------
(***************************************************************************)
(* Proofs about the lock service for every value of its constants: the     *)
(* state and action properties of LockManager; that LockClient implements  *)
(* it, so that they hold of clients too; what lock() was granted is never  *)
(* orphaned; a hand-back never harms another task.                         *)
(***************************************************************************)
EXTENDS LockClient, FiniteSetTheorems, SequenceTheorems, TLAPS

-----------------------------------------------------------------------------
(* The broker: LockManager.                                                *)

\* What a LOCK request names is a connection and a key.
LEMMA ReqFacts ==
    ASSUME NEW r \in Req
    PROVE  ConnOf(r) \in Conn /\ KeyOf(r) \in Key
  BY DEF Req, ConnOf, KeyOf

\* A reservation (noteToken) is a number, and with a persist dir it covers the
\* tokens minted.
LEMMA NotedFacts ==
    ASSUME nextToken \in Nat, reserved \in Nat,
           NEW n \in Nat, NEW e \in Noted(n)
    PROVE  e \in Nat /\ (Persistent => n <= e)
  <1>1. CASE ~Persistent \/ n <= reserved
    BY <1>1, LockAssumption DEF Noted
  <1>2. CASE ~(~Persistent \/ n <= reserved)
    <2>1. PICK i \in (nextToken + 1) .. n : e = Reserve(i)
      BY <1>2 DEF Noted
    <2>2. (i + TokenBlock) % TokenBlock \in 0 .. (TokenBlock - 1)
      BY LockAssumption
    <2>3. Reserve(i) \in Nat
      BY <2>2, LockAssumption DEF Reserve
    <2>4. n <= e
      BY <1>2 DEF Noted
    <2>5. QED
      BY <2>1, <2>3, <2>4
  <1>3. QED
    BY <1>1, <1>2

\* A token minted next is above the bar of every key.
LEMMA RaisedByFresh ==
    ASSUME IInv, NEW k \in Key, NEW t \in Nat, t > nextToken
    PROVE  Raised(k, t) = t
  BY DEF IInv, TypeOK, CounterReserved, Raised

\* ... and above every token TokensUnique compares it with.
LEMMA FreshToken ==
    ASSUME IInv, NEW r \in Req, granted[r] # NoToken,
           Persistent \/ born[r] = incarnation
    PROVE  granted[r] <= nextToken
  BY ReqFacts DEF IInv, TypeOK, TokensBounded, CounterReserved

\* The broker starts in a state of the inductive invariant.
LEMMA InitIInv == Init => IInv
  BY ReqFacts, LockAssumption
     DEF Init, IInv, TypeOK, ConnState, Status, NoStrandedWaiter, OwnedLockExpires,
         GrantsHaveTokens, HolderOnRecord, TokensBounded, CounterReserved,
         WritesBelowBar, TokensUnique, NoToken, ReqOn

\* One lemma per action: the step preserves the inductive invariant.  A
\* connection opens.
LEMMA OpenStep ==
    ASSUME IInv, NEW c \in Conn, Open(c)
    PROVE  IInv'
  BY ReqFacts
     DEF IInv, Open, TypeOK, ConnState, NoStrandedWaiter, OwnedLockExpires,
         GrantsHaveTokens, HolderOnRecord, TokensBounded, CounterReserved, CanMint,
         WritesBelowBar, TokensUnique, ReqOn, lockVars, queueVars, fenceVars,
         bootVars, history

\* LOCK of a free key: the fresh token is above all others.
LEMMA AcquireFreeStep ==
    ASSUME IInv, NEW r \in Req, Acquire(r), AcquireFree(r)
    PROVE  IInv'
  <1> DEFINE k == KeyOf(r)
             t == nextToken + 1
  <1>1. /\ ConnOf(r) \in Conn /\ k \in Key /\ t \in Nat /\ nextToken < t
        /\ conn[ConnOf(r)] = "open" /\ status[r] = "idle" /\ granted[r] = NoToken
        /\ owner[k] = NoConn /\ waiters[k] = {}
    BY ReqFacts DEF IInv, TypeOK, Acquire, AcquireFree, IsFree, NoStrandedWaiter, GrantsHaveTokens
  <1>2. reserved' \in Nat /\ (Persistent => t <= reserved')
    BY NotedFacts DEF IInv, TypeOK, AcquireFree, Grant, MintUpTo
  <1>3. /\ owner' = [owner EXCEPT ![k] = ConnOf(r)]
        /\ nextToken' = t
        /\ token' = [token EXCEPT ![k] = t]
        /\ fenceHigh' = [fenceHigh EXCEPT ![k] = t]
        /\ armed' = [armed EXCEPT ![k] = TRUE]
        /\ status' = [status EXCEPT ![r] = "held"]
        /\ granted' = [granted EXCEPT ![r] = t]
        /\ born' = [born EXCEPT ![r] = incarnation]
        /\ UNCHANGED <<waiters, arrival, arrivals, conn, fenceFloor, incarnation, value>>
    <2>1. Raised(k, t) = t
      BY <1>1, RaisedByFresh
    <2>2. QED
      BY <2>1 DEF Acquire, AcquireFree, Grant, TimerSet, MintUpTo, queueVars, bootVars
  <1>4. TypeOK'
    BY <1>1, <1>2, <1>3 DEF IInv, TypeOK, Status
  <1>5. NoStrandedWaiter'
    BY <1>1, <1>3, ReqFacts DEF IInv, TypeOK, NoStrandedWaiter, ReqOn
  <1>6. OwnedLockExpires'
    BY <1>1, <1>3, LockAssumption DEF IInv, TypeOK, OwnedLockExpires, CanMint
  <1>7. GrantsHaveTokens'
    BY <1>1, <1>3 DEF IInv, TypeOK, GrantsHaveTokens, NoToken
  <1>8. HolderOnRecord'
    BY <1>1, <1>3, ReqFacts, LockAssumption DEF IInv, TypeOK, HolderOnRecord
  <1>9. TokensBounded'
    BY <1>1, <1>3, ReqFacts
    DEF IInv, TypeOK, TokensBounded, CounterReserved, NoToken
  <1>10. CounterReserved' /\ WritesBelowBar'
    BY <1>1, <1>2, <1>3 DEF IInv, TypeOK, CounterReserved, WritesBelowBar
  <1>11. TokensUnique'
    BY <1>1, <1>3, FreshToken DEF IInv, TypeOK, TokensUnique, NoToken
  <1>12. QED
    BY <1>4, <1>5, <1>6, <1>7, <1>8, <1>9, <1>10, <1>11 DEF IInv

\* LOCK that is refused, queued, or granted without a token.
LEMMA AcquireOtherStep ==
    ASSUME IInv, NEW r \in Req, Acquire(r),
           AcquireExhausted(r) \/ AcquireRefused(r) \/ AcquireWait(r)
    PROVE  IInv'
  <1>1. /\ ConnOf(r) \in Conn /\ KeyOf(r) \in Key /\ conn[ConnOf(r)] = "open"
        /\ status[r] = "idle" /\ granted[r] = NoToken
        /\ UNCHANGED <<conn, fenceFloor, incarnation, value>>
    BY ReqFacts DEF IInv, TypeOK, Acquire, GrantsHaveTokens, bootVars
  <1>2. CASE AcquireExhausted(r)
    BY <1>1, <1>2, ReqFacts, LockAssumption
    DEF AcquireExhausted, IsFree, IInv, TypeOK, Status, NoStrandedWaiter, OwnedLockExpires,
        GrantsHaveTokens, HolderOnRecord, TokensBounded, CounterReserved, CanMint,
        WritesBelowBar, TokensUnique, ReqOn, lockVars, queueVars, fenceVars
  <1>3. CASE AcquireRefused(r)
    BY <1>1, <1>3, ReqFacts
    DEF AcquireRefused, IsFree, IInv, TypeOK, Status, NoStrandedWaiter, OwnedLockExpires,
        GrantsHaveTokens, HolderOnRecord, TokensBounded, CounterReserved, CanMint,
        WritesBelowBar, TokensUnique, ReqOn, lockVars, queueVars, fenceVars
  <1>4. CASE AcquireWait(r)
    BY <1>1, <1>4, ReqFacts
    DEF AcquireWait, IsFree, IInv, TypeOK, Status, NoStrandedWaiter, OwnedLockExpires,
        GrantsHaveTokens, HolderOnRecord, TokensBounded, CounterReserved, CanMint,
        WritesBelowBar, TokensUnique, ReqOn, lockVars, queueVars, fenceVars
  <1>5. QED
    BY <1>2, <1>3, <1>4

\* _release without a waiter, from an UNLOCK or the TTL timer.
LEMMA FreeLockStep ==
    ASSUME IInv, NEW k \in Key, FreeLock(k), UNCHANGED <<conn, bootVars, value>>
    PROVE  IInv'
  <1>1. /\ waiters[k] = {}
        /\ owner' = [owner EXCEPT ![k] = NoConn]
        /\ token' = [token EXCEPT ![k] = NoToken]
        /\ armed' = [armed EXCEPT ![k] = FALSE]
        /\ \A r \in Req : status'[r] =
             IF KeyOf(r) = k /\ status[r] = "held" THEN "past" ELSE status[r]
        /\ status' \in [Req -> Status]
        /\ UNCHANGED <<waiters, arrival, arrivals, nextToken, reserved, fenceHigh, granted,
                       born, conn, fenceFloor, incarnation, value>>
    BY DEF IInv, TypeOK, FreeLock, HeldOn, ReqOn, Status, queueVars, fenceVars, bootVars
  <1>2. TypeOK'
    BY <1>1 DEF IInv, TypeOK, NoToken
  <1>3. NoStrandedWaiter' /\ OwnedLockExpires'
    BY <1>1 DEF IInv, TypeOK, NoStrandedWaiter, OwnedLockExpires, CanMint, ReqOn
  <1>4. GrantsHaveTokens' /\ HolderOnRecord'
    BY <1>1, ReqFacts DEF IInv, TypeOK, GrantsHaveTokens, HolderOnRecord
  <1>5. TokensBounded' /\ CounterReserved' /\ WritesBelowBar' /\ TokensUnique'
    BY <1>1 DEF IInv, TokensBounded, CounterReserved, WritesBelowBar, TokensUnique
  <1>6. QED
    BY <1>2, <1>3, <1>4, <1>5 DEF IInv

\* _release with a waiter.
LEMMA HandOverStep ==
    ASSUME IInv, NEW k \in Key, HandOver(k), UNCHANGED <<conn, bootVars, value>>
    PROVE  IInv'
  <1> DEFINE t == nextToken + 1
  <1>1. PICK next \in Heads(k, {}) :
          /\ owner' = [owner EXCEPT ![k] = ConnOf(next)]
          /\ MintUpTo(t)
          /\ token' = [token EXCEPT ![k] = t]
          /\ fenceHigh' = [fenceHigh EXCEPT ![k] = Raised(k, t)]
          /\ armed' = [armed EXCEPT ![k] = TRUE]
          /\ waiters' = [waiters EXCEPT ![k] = @ \ {next}]
          /\ arrival' = [arrival EXCEPT ![next] = 0]
          /\ status' = [r \in Req |-> IF r = next THEN "held"
                                      ELSE IF r \in HeldOn(k) THEN "past"
                                      ELSE status[r]]
          /\ granted' = [granted EXCEPT ![next] = t]
          /\ born' = [born EXCEPT ![next] = incarnation]
          /\ UNCHANGED arrivals
    BY DEF HandOver, Grant, TimerSet
  <1>2. /\ next \in Req /\ next \in waiters[k] /\ KeyOf(next) = k
        /\ ConnOf(next) \in Conn /\ conn[ConnOf(next)] = "open"
        /\ status[next] = "waiting" /\ granted[next] = NoToken
        /\ t \in Nat /\ nextToken < t
    BY ReqFacts DEF IInv, TypeOK, Heads, NoStrandedWaiter, GrantsHaveTokens, ReqOn
  <1>3. /\ nextToken' = t
        /\ reserved' \in Nat /\ (Persistent => t <= reserved')
        /\ UNCHANGED <<conn, fenceFloor, incarnation, value>>
    BY <1>1, <1>2, NotedFacts DEF IInv, TypeOK, MintUpTo, bootVars
  <1>4. Raised(k, t) = t
    BY <1>2, RaisedByFresh
  <1>5. /\ status' \in [Req -> Status]
        /\ status'[next] = "held"
        /\ \A r \in Req \ {next} : status'[r] =
             IF KeyOf(r) = k /\ status[r] = "held" THEN "past" ELSE status[r]
    BY <1>1, <1>2 DEF IInv, TypeOK, HeldOn, ReqOn, Status
  <1> HIDE DEF t
  <1>6. TypeOK'
    BY <1>1, <1>2, <1>3, <1>4, <1>5 DEF IInv, TypeOK
  <1>7. NoStrandedWaiter'
    BY <1>1, <1>2, <1>3, <1>5, LockAssumption DEF IInv, TypeOK, NoStrandedWaiter, ReqOn
  <1>8. OwnedLockExpires'
    BY <1>1, <1>2, <1>3, LockAssumption
    DEF IInv, TypeOK, OwnedLockExpires, CanMint
  <1>9. GrantsHaveTokens'
    BY <1>1, <1>2, <1>5 DEF IInv, TypeOK, GrantsHaveTokens, NoToken
  <1>10. HolderOnRecord'
    BY <1>1, <1>2, <1>3, <1>4, <1>5, ReqFacts DEF IInv, TypeOK, HolderOnRecord
  <1>11. TokensBounded'
    BY <1>1, <1>2, <1>3, <1>4, ReqFacts
    DEF IInv, TypeOK, TokensBounded, CounterReserved, NoToken
  <1>12. CounterReserved' /\ WritesBelowBar'
    BY <1>1, <1>2, <1>3, <1>4 DEF IInv, TypeOK, CounterReserved, WritesBelowBar
  <1>13. TokensUnique'
    BY <1>1, <1>2, <1>3, FreshToken DEF IInv, TypeOK, TokensUnique, NoToken
  <1>14. QED
    BY <1>6, <1>7, <1>8, <1>9, <1>10, <1>11, <1>12, <1>13 DEF IInv

\* The hand-over that cannot mint: the head leaves the queue unanswered.
LEMMA HandOverExhaustedStep ==
    ASSUME IInv, NEW k \in Key, HandOverExhausted(k), UNCHANGED <<conn, bootVars, value>>
    PROVE  IInv'
  <1>1. PICK next \in Heads(k, {}) :
          /\ ~CanMint
          /\ owner' = [owner EXCEPT ![k] = ConnOf(next)]
          /\ armed' = [armed EXCEPT ![k] = FALSE]
          /\ waiters' = [waiters EXCEPT ![k] = @ \ {next}]
          /\ arrival' = [arrival EXCEPT ![next] = 0]
          /\ status' = [r \in Req |-> IF r = next THEN "dropped"
                                      ELSE IF r \in HeldOn(k) THEN "past"
                                      ELSE status[r]]
          /\ UNCHANGED <<token, arrivals, fenceVars, granted, born>>
    BY DEF HandOverExhausted
  <1>2. /\ next \in Req /\ KeyOf(next) = k
        /\ ConnOf(next) \in Conn /\ conn[ConnOf(next)] = "open"
        /\ status[next] = "waiting"
    BY ReqFacts DEF IInv, TypeOK, Heads, NoStrandedWaiter, ReqOn
  <1>3. UNCHANGED <<conn, fenceFloor, incarnation, value, nextToken, reserved, fenceHigh>>
    BY <1>1 DEF fenceVars, bootVars
  <1>4. /\ status' \in [Req -> Status]
        /\ status'[next] = "dropped"
        /\ \A r \in Req \ {next} : status'[r] =
             IF KeyOf(r) = k /\ status[r] = "held" THEN "past" ELSE status[r]
    BY <1>1, <1>2 DEF IInv, TypeOK, HeldOn, ReqOn, Status
  <1>5. TypeOK'
    BY <1>1, <1>2, <1>3, <1>4 DEF IInv, TypeOK
  <1>6. NoStrandedWaiter'
    BY <1>1, <1>2, <1>3, <1>4, LockAssumption DEF IInv, TypeOK, NoStrandedWaiter, ReqOn
  <1>7. OwnedLockExpires'
    BY <1>1, <1>2, <1>3 DEF IInv, TypeOK, OwnedLockExpires, CanMint
  <1>8. GrantsHaveTokens' /\ HolderOnRecord'
    BY <1>1, <1>2, <1>3, <1>4, ReqFacts DEF IInv, TypeOK, GrantsHaveTokens, HolderOnRecord
  <1>9. TokensBounded' /\ CounterReserved' /\ WritesBelowBar' /\ TokensUnique'
    BY <1>1, <1>3 DEF IInv, TokensBounded, CounterReserved, WritesBelowBar, TokensUnique
  <1>10. QED
    BY <1>5, <1>6, <1>7, <1>8, <1>9 DEF IInv

\* A queued request gives up.
LEMMA WaitTimeoutStep ==
    ASSUME IInv, NEW r \in Req, WaitTimeout(r)
    PROVE  IInv'
  <1>1. /\ KeyOf(r) \in Key /\ status[r] = "waiting"
        /\ UNCHANGED <<conn, owner, token, armed, arrivals, nextToken, reserved, fenceHigh,
                       fenceFloor, incarnation, value, granted, born>>
    BY ReqFacts
    DEF IInv, NoStrandedWaiter, WaitTimeout, ReqOn, lockVars, fenceVars, bootVars
  <1>2. TypeOK' /\ NoStrandedWaiter'
    BY <1>1, ReqFacts DEF WaitTimeout, IInv, TypeOK, NoStrandedWaiter, ReqOn, Status
  <1>3. OwnedLockExpires'
    BY <1>1 DEF IInv, OwnedLockExpires, CanMint
  <1>4. GrantsHaveTokens' /\ HolderOnRecord'
    BY <1>1 DEF WaitTimeout, IInv, TypeOK, GrantsHaveTokens, HolderOnRecord
  <1>5. TokensBounded' /\ CounterReserved' /\ WritesBelowBar' /\ TokensUnique'
    BY <1>1 DEF IInv, TokensBounded, CounterReserved, WritesBelowBar, TokensUnique
  <1>6. QED
    BY <1>2, <1>3, <1>4, <1>5 DEF IInv

\* A write the gate accepts raises the bar of its key to its own token, which
\* with a persist dir is the bar already.
LEMMA FencedWriteStep ==
    ASSUME IInv, NEW r \in Req, FencedWrite(r)
    PROVE  IInv'
  <1> DEFINE k == KeyOf(r)
  <1>1. /\ k \in Key /\ granted[r] \in Nat /\ granted[r] # NoToken
        /\ granted[r] <= nextToken
        /\ fenceHigh[k] <= granted[r]
        /\ fenceFloor > 0 => fenceFloor < granted[r]
    BY ReqFacts DEF IInv, TypeOK, FencedWrite, FencePasses, FenceBar, NoToken
  <1>2. /\ fenceHigh' = [fenceHigh EXCEPT ![k] = granted[r]]
        /\ value' = [value EXCEPT ![k] = granted[r]]
        /\ UNCHANGED <<conn, owner, token, armed, waiters, arrival, arrivals, nextToken,
                       reserved, fenceFloor, incarnation, status, granted, born>>
    <2>1. Raised(k, granted[r]) = granted[r]
      BY <1>1 DEF IInv, TypeOK, Raised
    <2>2. QED
      BY <2>1 DEF FencedWrite, lockVars, queueVars, bootVars, history
  <1>3. Persistent => fenceHigh'[k] = fenceHigh[k]
    BY <1>1, <1>2, SMTT(30) DEF IInv, TypeOK, TokensBounded, NoToken
  <1>4. TypeOK' /\ NoStrandedWaiter' /\ OwnedLockExpires' /\ GrantsHaveTokens'
    BY <1>1, <1>2
    DEF IInv, TypeOK, NoStrandedWaiter, OwnedLockExpires, GrantsHaveTokens, CanMint
  <1>5. HolderOnRecord'
    BY <1>1, <1>2, <1>3, ReqFacts DEF IInv, TypeOK, HolderOnRecord
  <1>6. TokensBounded' /\ CounterReserved' /\ WritesBelowBar' /\ TokensUnique'
    BY <1>1, <1>2, ReqFacts
    DEF IInv, TypeOK, TokensBounded, CounterReserved, WritesBelowBar, TokensUnique
  <1>7. QED
    BY <1>4, <1>5, <1>6 DEF IInv

\* The broker restarts: every token so far ends up at or below the new floor.
LEMMA RestartStep ==
    ASSUME IInv, Restart
    PROVE  IInv'
  <1>1. /\ incarnation' = incarnation + 1
        /\ nextToken' = IF Persistent THEN reserved ELSE 0
        /\ fenceFloor' = nextToken'
        /\ UNCHANGED <<arrivals, reserved, granted, born>>
        /\ (value' = value /\ Persistent) \/ value' = [k \in Key |-> NoToken]
    BY LockAssumption DEF Restart
  <1>2. /\ status' \in [Req -> Status]
        /\ \A r \in Req : status'[r] = CASE status[r] = "held" -> "past"
                                         [] status[r] = "waiting" -> "dropped"
                                         [] OTHER -> status[r]
        /\ conn' \in [Conn -> ConnState]
    BY DEF IInv, TypeOK, Restart, Status, ConnState
  <1>3. TypeOK'
    BY <1>1, <1>2 DEF IInv, TypeOK, Restart, NoToken
  <1>4. NoStrandedWaiter' /\ OwnedLockExpires'
    BY <1>1, <1>2 DEF IInv, TypeOK, Restart, NoStrandedWaiter, OwnedLockExpires, ReqOn
  <1>5. GrantsHaveTokens'
    BY <1>1, <1>2 DEF IInv, TypeOK, GrantsHaveTokens
  <1>6. HolderOnRecord'
    BY <1>2 DEF IInv, TypeOK, HolderOnRecord
  <1>7. TokensBounded'
    <2>1. ASSUME NEW r \in Req, granted[r] # NoToken
          PROVE  /\ born[r] < incarnation'
                 /\ Persistent => granted[r] <= fenceFloor'
      <3>1. born[r] <= incarnation /\ incarnation \in Nat /\ born[r] \in Nat
        BY <2>1 DEF IInv, TypeOK, TokensBounded
      <3>2. ASSUME Persistent PROVE granted[r] <= nextToken /\ nextToken <= reserved
        BY <2>1, <3>2, FreshToken DEF IInv, CounterReserved
      <3>3. granted[r] \in Nat /\ nextToken \in Nat /\ reserved \in Nat
        BY DEF IInv, TypeOK
      <3>4. QED
        BY <1>1, <3>1, <3>2, <3>3
    <2>2. incarnation' \in Nat /\ \A r \in Req : born[r] \in Nat
      BY <1>3 DEF IInv, TypeOK
    <2>3. QED
      BY <1>1, <2>1, <2>2 DEF TokensBounded
  <1>8. CounterReserved' /\ WritesBelowBar'
    BY <1>1, LockAssumption
    DEF Restart, IInv, TypeOK, CounterReserved, WritesBelowBar, NoToken
  <1>9. TokensUnique'
    BY <1>1 DEF IInv, TokensUnique
  <1>10. QED
    BY <1>3, <1>4, <1>5, <1>6, <1>7, <1>8, <1>9 DEF IInv

\* Finitely many locks change hands when a connection closes.
LEMMA CountHanded ==
    ASSUME NEW c \in Conn
    PROVE  Cardinality(Handed(c)) \in Nat
  <1>1. IsFiniteSet(Handed(c))
    BY FS_Subset, LockAssumption DEF Handed, Owned
  <1>2. QED
    BY <1>1, FS_CardinalityType

\* releaseAll.  heirs are the waiters that take over the locks of c; each has a
\* token of its own above all the tokens issued so far.
LEMMA CloseStep ==
    ASSUME IInv, NEW c \in Conn, Close(c)
    PROVE  IInv'
  <1> DEFINE owned  == Owned(c)
             handed == Handed(c)
             n      == nextToken + Cardinality(handed)
  <1>1. n \in Nat /\ nextToken <= n
    BY CountHanded DEF IInv, TypeOK
  <1>2. /\ conn[c] = "open"
        /\ conn' = [conn EXCEPT ![c] = "closed"]
        /\ MintUpTo(n)
        /\ UNCHANGED <<arrivals, fenceFloor, incarnation, value>>
    BY DEF Close, bootVars
  <1>3. PICK next \in [handed -> Req], t \in Bijection(handed, (nextToken + 1) .. n) :
          ReleaseAll(c, next, t)
    BY DEF Close
  <1> DEFINE heirs == {next[k] : k \in handed}
  <1>4. /\ handed \subseteq owned
        /\ \A k \in handed : next[k] \in heirs /\ k \in Key
        /\ \A k \in Key : k \in owned <=> owner[k] = c
        /\ \A k \in Key : k \in owned /\ k \notin handed => waiters[k] \subseteq ReqBy(c)
    BY DEF Owned, Handed
  \* What is known of each lock handed on ...
  <1>5. ASSUME NEW k \in handed
        PROVE  /\ k \in Key /\ owner[k] = c
               /\ next[k] \in Req /\ KeyOf(next[k]) = k /\ next[k] \in waiters[k]
               /\ ConnOf(next[k]) \in Conn \ {c} /\ conn[ConnOf(next[k])] = "open"
               /\ status[next[k]] = "waiting" /\ granted[next[k]] = NoToken
               /\ t[k] \in Nat /\ nextToken < t[k] /\ t[k] <= n
    <2>1. next[k] \in waiters[k] /\ next[k] \notin ReqBy(c) /\ next[k] \in Req
      BY <1>3 DEF ReleaseAll, Heads
    <2>2. t[k] \in (nextToken + 1) .. n
      BY DEF Bijection, Injection
    <2>3. k \in Key /\ owner[k] = c
      BY <1>4
    <2>4. KeyOf(next[k]) = k /\ status[next[k]] = "waiting" /\ conn[ConnOf(next[k])] = "open"
      BY <2>1, <2>3 DEF IInv, NoStrandedWaiter, ReqOn
    <2>5. ConnOf(next[k]) \in Conn \ {c}
      BY <2>1, ReqFacts DEF ReqBy
    <2>6. granted[next[k]] = NoToken
      BY <2>1, <2>4 DEF IInv, GrantsHaveTokens
    <2>7. t[k] \in Nat /\ nextToken < t[k] /\ t[k] <= n
      BY <2>2, <1>1 DEF IInv, TypeOK
    <2>8. QED
      BY <2>1, <2>3, <2>4, <2>5, <2>6, <2>7
  \* ... and of each heir.
  <1>6. ASSUME NEW r \in heirs
        PROVE  KeyOf(r) \in handed /\ r = next[KeyOf(r)]
    BY <1>5
  <1>7. ASSUME NEW j \in handed, NEW k \in handed, t[j] = t[k]
        PROVE  j = k
    BY <1>7 DEF Bijection, Injection, IsInjective
  <1>8. ASSUME NEW k \in handed
        PROVE  fenceHigh'[k] = t[k]
    BY <1>3, <1>5, RaisedByFresh DEF ReleaseAll
  <1>9. /\ nextToken' = n
        /\ reserved' \in Nat /\ (Persistent => n <= reserved')
    BY <1>1, <1>2, NotedFacts DEF IInv, TypeOK, MintUpTo
  <1>10. /\ \A k \in Key : owner'[k] = IF k \in handed THEN ConnOf(next[k])
                                       ELSE IF k \in owned THEN NoConn ELSE owner[k]
         /\ \A k \in Key : token'[k] = IF k \in handed THEN t[k]
                                       ELSE IF k \in owned THEN NoToken ELSE token[k]
         /\ \A k \in Key : armed'[k] = IF k \in handed THEN TRUE
                                       ELSE IF k \in owned THEN FALSE ELSE armed[k]
         /\ \A k \in Key : k \notin handed => fenceHigh'[k] = fenceHigh[k]
         /\ \A k \in Key : waiters'[k] = waiters[k] \ (ReqBy(c) \cup heirs)
    BY <1>3 DEF ReleaseAll
  <1>11. \A r \in Req :
          /\ status'[r] = IF r \in heirs THEN "held"
                          ELSE IF status[r] = "held" /\ KeyOf(r) \in owned THEN "past"
                          ELSE IF status[r] = "waiting" /\ r \in ReqBy(c) THEN "dropped"
                          ELSE status[r]
          /\ granted'[r] = IF r \in heirs THEN t[KeyOf(r)] ELSE granted[r]
          /\ born'[r] = IF r \in heirs THEN incarnation ELSE born[r]
    BY <1>3 DEF ReleaseAll
  <1>12. TypeOK'
    <2>1. owner' \in [Key -> Conn \cup {NoConn}] /\ token' \in [Key -> Nat]
      BY <1>3, <1>5 DEF ReleaseAll, IInv, TypeOK, NoToken
    <2>2. armed' \in [Key -> BOOLEAN] /\ waiters' \in [Key -> SUBSET Req]
      BY <1>3 DEF ReleaseAll, IInv, TypeOK
    <2>3. fenceHigh' \in [Key -> Nat]
      BY <1>3, <1>5, <1>8 DEF ReleaseAll, IInv, TypeOK
    <2>4. arrival' \in [Req -> Nat] /\ status' \in [Req -> Status] /\ born' \in [Req -> Nat]
      BY <1>3 DEF ReleaseAll, IInv, TypeOK, Status
    <2>5. granted' \in [Req -> Nat]
      <3>1. \A r \in Req : granted'[r] \in Nat
        BY <1>5, <1>6, <1>11 DEF IInv, TypeOK
      <3>2. QED
        BY <1>3, <3>1 DEF ReleaseAll
    <2>6. QED
      BY <1>1, <1>2, <1>9, <2>1, <2>2, <2>3, <2>4, <2>5 DEF IInv, TypeOK, ConnState
  <1> HIDE DEF heirs, n, owned, handed
  \* An heir holds the lock of its key from here on ...
  <1>13. ASSUME NEW r \in heirs
         PROVE  /\ r \in Req /\ KeyOf(r) \in handed /\ KeyOf(r) \in Key
                /\ status[r] = "waiting" /\ status'[r] = "held"
                /\ granted[r] = NoToken /\ granted'[r] = t[KeyOf(r)] /\ born'[r] = incarnation
                /\ granted'[r] \in Nat /\ nextToken < granted'[r] /\ granted'[r] <= n
                /\ owner'[KeyOf(r)] = ConnOf(r) /\ token'[KeyOf(r)] = granted'[r]
                /\ fenceHigh'[KeyOf(r)] = granted'[r]
    <2>1. KeyOf(r) \in handed /\ r = next[KeyOf(r)]
      BY <1>6
    <2>2. QED
      BY <2>1, <1>5, <1>8, <1>10, <1>11
  \* ... and any other request keeps its token, and its lock if c did not own it.
  <1>14. ASSUME NEW r \in Req, r \notin heirs
         PROVE  /\ granted'[r] = granted[r] /\ born'[r] = born[r]
                /\ status'[r] = "held" <=> status[r] = "held" /\ KeyOf(r) \notin owned
                /\ status'[r] \in {"held", "past"} <=> status[r] \in {"held", "past"}
                /\ status'[r] = "waiting" <=> status[r] = "waiting" /\ r \notin ReqBy(c)
    BY <1>11, <1>14
  \* No bar is lowered.
  <1>15. ASSUME NEW k \in Key
         PROVE  /\ fenceHigh'[k] \in Nat /\ fenceHigh[k] <= fenceHigh'[k] /\ fenceHigh'[k] <= n
                /\ k \notin handed => fenceHigh'[k] = fenceHigh[k]
    <2>1. fenceHigh[k] \in Nat /\ nextToken \in Nat /\ fenceHigh[k] <= nextToken
      BY DEF IInv, TypeOK, CounterReserved
    <2>2. CASE k \in handed
      BY <2>1, <2>2, <1>1, <1>5, <1>8
    <2>3. CASE k \notin handed
      BY <2>1, <2>3, <1>1, <1>10
    <2>4. QED
      BY <2>2, <2>3
  <1>16. NoStrandedWaiter'
    <2> SUFFICES ASSUME NEW k \in Key
                 PROVE  /\ waiters'[k] = {r \in ReqOn(k) : status'[r] = "waiting"}
                        /\ waiters'[k] # {} => owner'[k] # NoConn
                        /\ \A r \in waiters'[k] : conn'[ConnOf(r)] = "open"
      BY DEF NoStrandedWaiter
    <2>1. /\ waiters[k] = {r \in Req : KeyOf(r) = k /\ status[r] = "waiting"}
          /\ waiters[k] # {} => owner[k] # NoConn
          /\ \A r \in waiters[k] : conn[ConnOf(r)] = "open"
          /\ waiters'[k] = waiters[k] \ (ReqBy(c) \cup heirs)
      BY <1>10 DEF IInv, NoStrandedWaiter, ReqOn
    <2>2. waiters'[k] = {r \in Req : KeyOf(r) = k /\ status'[r] = "waiting"}
      BY <2>1, <1>13, <1>14
    <2>3. \A r \in waiters'[k] : conn'[ConnOf(r)] = "open"
      BY <2>1, <1>2, ReqFacts DEF IInv, TypeOK, ReqBy
    <2>4. ASSUME waiters'[k] # {} PROVE owner'[k] # NoConn
      <3>1. k \in handed \/ k \notin owned
        BY <2>1, <2>4, <1>4
      <3>2. QED
        BY <2>1, <2>4, <3>1, <1>5, <1>10, <1>4, LockAssumption
    <2>5. QED
      BY <2>2, <2>3, <2>4 DEF ReqOn
  <1>17. OwnedLockExpires'
    <2> SUFFICES ASSUME NEW k \in Key, owner'[k] # NoConn
                 PROVE  conn'[owner'[k]] = "open" /\ (armed'[k] \/ ~CanMint')
      BY DEF OwnedLockExpires
    <2>1. CASE k \in handed
      <3>1. /\ owner'[k] = ConnOf(next[k]) /\ armed'[k] = TRUE
            /\ ConnOf(next[k]) \in Conn \ {c} /\ conn[ConnOf(next[k])] = "open"
        BY <2>1, <1>5, <1>10
      <3>2. QED
        BY <3>1, <1>2 DEF IInv, TypeOK
    <2>2. CASE k \notin owned
      <3>1. /\ k \notin handed /\ owner'[k] = owner[k] /\ armed'[k] = armed[k]
            /\ owner[k] \in Conn \ {c}
        BY <2>2, <1>10, <1>4, LockAssumption DEF IInv, TypeOK
      <3>2. conn[owner[k]] = "open" /\ (armed[k] \/ ~CanMint)
        BY <3>1 DEF IInv, OwnedLockExpires
      <3>3. ~CanMint => ~CanMint'
        BY <1>1, <1>9, LockAssumption DEF IInv, TypeOK, CanMint
      <3>4. QED
        BY <3>1, <3>2, <3>3, <1>2 DEF IInv, TypeOK
    <2>3. QED
      BY <2>1, <2>2, <1>10, <1>4
  <1>18. GrantsHaveTokens'
    <2> SUFFICES ASSUME NEW r \in Req
                 PROVE  granted'[r] # NoToken <=> status'[r] \in {"held", "past"}
      BY DEF GrantsHaveTokens
    <2>1. CASE r \in heirs
      BY <2>1, <1>13 DEF IInv, TypeOK, NoToken
    <2>2. CASE r \notin heirs
      BY <2>2, <1>14 DEF IInv, GrantsHaveTokens
    <2>3. QED
      BY <2>1, <2>2
  <1>19. HolderOnRecord'
    <2> SUFFICES ASSUME NEW r \in Req, status'[r] = "held"
                 PROVE  /\ owner'[KeyOf(r)] = ConnOf(r)
                        /\ token'[KeyOf(r)] = granted'[r]
                        /\ born'[r] = incarnation'
                        /\ Persistent => fenceHigh'[KeyOf(r)] = granted'[r]
      BY DEF HolderOnRecord
    <2>1. CASE r \in heirs
      BY <2>1, <1>2, <1>13
    <2>2. CASE r \notin heirs
      BY <2>2, <1>2, <1>10, <1>4, <1>14, ReqFacts DEF IInv, HolderOnRecord
    <2>3. QED
      BY <2>1, <2>2
  <1>20. TokensBounded'
    <2> SUFFICES ASSUME NEW r \in Req, granted'[r] # NoToken
                 PROVE  /\ born'[r] <= incarnation
                        /\ born'[r] = incarnation =>
                            /\ granted'[r] <= n
                            /\ granted'[r] <= fenceHigh'[KeyOf(r)]
                            /\ fenceFloor < granted'[r]
                        /\ Persistent /\ born'[r] < incarnation => granted'[r] <= fenceFloor
      BY <1>2, <1>9 DEF TokensBounded
    <2>1. CASE r \in heirs
      BY <2>1, <1>13 DEF IInv, TypeOK, CounterReserved
    <2>2. CASE r \notin heirs
      BY <2>2, <1>1, <1>14, <1>15, ReqFacts DEF IInv, TypeOK, TokensBounded
    <2>3. QED
      BY <2>1, <2>2
  <1>21. CounterReserved' /\ WritesBelowBar'
    <2>1. CounterReserved'
      BY <1>1, <1>2, <1>9, <1>15 DEF IInv, TypeOK, CounterReserved
    <2>2. WritesBelowBar'
      BY <1>2, <1>15 DEF IInv, TypeOK, WritesBelowBar
    <2>3. QED
      BY <2>1, <2>2
  <1>22. TokensUnique'
    <2> SUFFICES ASSUME NEW r \in Req, NEW s \in Req, r # s,
                        granted'[r] # NoToken, granted'[s] # NoToken,
                        Persistent \/ born'[r] = born'[s]
                 PROVE  granted'[r] # granted'[s]
      BY DEF TokensUnique
    <2>1. CASE r \in heirs /\ s \in heirs
      BY <2>1, <1>6, <1>7, <1>13
    <2>2. ASSUME NEW a \in heirs, NEW b \in Req, b \notin heirs, granted'[b] # NoToken,
                 Persistent \/ born'[a] = born'[b]
          PROVE  granted'[a] # granted'[b]
      <3>1. granted[b] <= nextToken /\ granted'[b] = granted[b]
        BY <2>2, <1>13, <1>14, FreshToken
      <3>2. nextToken < granted'[a] /\ granted'[a] \in Nat
        BY <1>13
      <3>3. nextToken \in Nat /\ granted[b] \in Nat
        BY DEF IInv, TypeOK
      <3>4. QED
        BY <3>1, <3>2, <3>3
    <2>3. CASE r \notin heirs /\ s \notin heirs
      BY <2>3, <1>14 DEF IInv, TokensUnique
    <2>4. QED
      BY <2>1, <2>2, <2>3
  <1>23. QED
    BY <1>12, <1>16, <1>17, <1>18, <1>19, <1>20, <1>21, <1>22 DEF IInv

\* Every step of the broker keeps the inductive invariant.
LEMMA NextStep == IInv /\ [Next]_vars => IInv'
  <1> SUFFICES ASSUME IInv, [Next]_vars
               PROVE  IInv'
    OBVIOUS
  <1>1. ASSUME NEW c \in Conn, Open(c) \/ Close(c)
        PROVE  IInv'
    BY <1>1, OpenStep, CloseStep
  <1>2. ASSUME NEW r \in Req, Acquire(r)
        PROVE  IInv'
    BY <1>2, AcquireFreeStep, AcquireOtherStep DEF Acquire
  <1>3. ASSUME NEW r \in Req, WaitTimeout(r) \/ FencedWrite(r)
        PROVE  IInv'
    BY <1>3, WaitTimeoutStep, FencedWriteStep
  <1>4. ASSUME NEW c \in Conn, NEW k \in Key, NEW t \in Tokens(k), Unlock(c, k, t)
        PROVE  IInv'
    BY <1>4, FreeLockStep, HandOverStep, HandOverExhaustedStep DEF Unlock
  <1>5. ASSUME NEW k \in Key, Expire(k)
        PROVE  IInv'
    BY <1>5, FreeLockStep, HandOverStep DEF Expire
  <1>6. CASE UNCHANGED vars
    BY <1>6
    DEF vars, lockVars, queueVars, fenceVars, bootVars, history, IInv, TypeOK,
        NoStrandedWaiter, OwnedLockExpires, CanMint, GrantsHaveTokens, HolderOnRecord,
        TokensBounded, CounterReserved, WritesBelowBar, TokensUnique
  <1>7. QED
    BY <1>1, <1>2, <1>3, <1>4, <1>5, <1>6, RestartStep DEF Next

\* The inductive invariant holds in every reachable state.
THEOREM Inductive == Spec => []IInv
  BY InitIInv, NextStep, PTL DEF Spec

-----------------------------------------------------------------------------
(* State properties. *)

\* Every variable keeps to its set of values, whatever handler or timer ran.
THEOREM TypeCorrect == Spec => []TypeOK
  <1>1. IInv => TypeOK
    BY DEF IInv
  <1>2. QED
    BY <1>1, Inductive, PTL

\* No two requests hold one lock (acquire, _release, releaseAll).
THEOREM MutexHolds == Spec => []MutualExclusion
  <1>1. IInv => MutualExclusion
    BY DEF IInv, TypeOK, HolderOnRecord, GrantsHaveTokens, TokensUnique, MutualExclusion
  <1>2. QED
    BY <1>1, Inductive, PTL

\* No queued request is stranded (_gcIfEmpty, the wait timer, releaseAll).
THEOREM WaitersKept == Spec => []NoStrandedWaiter
  <1>1. IInv => NoStrandedWaiter
    BY DEF IInv
  <1>2. QED
    BY <1>1, Inductive, PTL

\* An owned lock has a live owner and a running TTL timer, tokens permitting.
THEOREM OwnersExpire == Spec => []OwnedLockExpires
  <1>1. IInv => OwnedLockExpires
    BY DEF IInv
  <1>2. QED
    BY <1>1, Inductive, PTL

\* No token is issued twice (_mintToken, noteToken, the seed in start).
THEOREM NoTokenTwice == Spec => []TokensUnique
  <1>1. IInv => TokensUnique
    BY DEF IInv
  <1>2. QED
    BY <1>1, Inductive, PTL

\* The gate of _fence rejects every grant but the newest of a key.
THEOREM SupersededRejected == Spec => []SupersededIsFenced
  <1>1. IInv => SupersededIsFenced
    <2> SUFFICES ASSUME IInv, NEW r \in Req, NEW s \in Req, KeyOf(r) = KeyOf(s),
                        granted[r] < granted[s], NoToken # granted[r],
                        born[s] = incarnation
                 PROVE  ~FencePasses(KeyOf(r), granted[r])
      BY DEF SupersededIsFenced
    <2>1. granted[s] <= fenceHigh[KeyOf(r)]
      BY DEF IInv, TypeOK, TokensBounded, NoToken
    <2>2. QED
      BY <2>1, ReqFacts DEF IInv, TypeOK, FencePasses, FenceBar
  <1>2. QED
    BY <1>1, Inductive, PTL

\* With a persist dir the gate passes the holder ...
THEOREM HolderAccepted ==
    ASSUME Persistent
    PROVE  Spec => []HolderIsNotFenced
  <1>1. IInv => HolderIsNotFenced
    BY ReqFacts
    DEF IInv, TypeOK, HolderOnRecord, GrantsHaveTokens, TokensBounded, CounterReserved,
        HolderIsNotFenced, FencePasses, FenceBar
  <1>2. QED
    BY <1>1, Inductive, PTL

\* ... and no token of before a restart.
THEOREM OldTokensRejected ==
    ASSUME Persistent
    PROVE  Spec => []RestartRejectsOldTokens
  <1>1. IInv => RestartRejectsOldTokens
    BY ReqFacts
    DEF IInv, TypeOK, TokensBounded, RestartRejectsOldTokens, FencePasses, FenceBar, NoToken
  <1>2. QED
    BY <1>1, Inductive, PTL

-----------------------------------------------------------------------------
(* Action properties. *)

\* Contenders get the lock first come, first served: acquire takes a free lock
\* only, nobody waits for a free lock, and a hand-over takes the queue's head.
THEOREM FirstComeFirstServed == Spec => NoOvertaking
  <1> DEFINE Fair(r) ==
        status[r] # "held" /\ status'[r] = "held" =>
          \A s \in waiters[KeyOf(r)] :
            (r \notin waiters[KeyOf(r)] \/ arrival[s] < arrival[r]) => status'[s] # "waiting"
  <1>1. ASSUME IInv, [Next]_vars, NEW r \in Req
        PROVE  Fair(r)
    <2> SUFFICES ASSUME status[r] # "held", status'[r] = "held", NEW s \in waiters[KeyOf(r)],
                        r \notin waiters[KeyOf(r)] \/ arrival[s] < arrival[r]
                 PROVE  status'[s] # "waiting"
      OBVIOUS
    <2>0. /\ KeyOf(r) \in Key /\ s \in Req /\ KeyOf(s) = KeyOf(r) /\ status[s] = "waiting"
          /\ arrival[r] \in Nat /\ arrival[s] \in Nat
          /\ owner[KeyOf(r)] # NoConn
      BY <1>1, ReqFacts DEF IInv, TypeOK, NoStrandedWaiter, ReqOn
    <2>1. ASSUME NEW k \in Key, HandOver(k)
          PROVE  status'[s] # "waiting"
      BY <2>0, <2>1, <1>1 DEF HandOver, Grant, Heads, HeldOn, ReqOn, IInv, TypeOK, NoStrandedWaiter
    <2>2. ASSUME NEW k \in Key, FreeLock(k) \/ HandOverExhausted(k)
          PROVE  FALSE
      BY <2>0, <2>2, <1>1 DEF FreeLock, HandOverExhausted, HeldOn, ReqOn, IInv, TypeOK
    <2>3. ASSUME NEW q \in Req, Acquire(q)
          PROVE  status'[s] # "waiting"
      BY <2>0, <2>3, <1>1
      DEF Acquire, AcquireFree, AcquireExhausted, AcquireRefused, AcquireWait, IsFree, Grant,
          IInv, TypeOK
    <2>4. ASSUME NEW c \in Conn, Close(c)
          PROVE  status'[s] # "waiting"
      <3> DEFINE n == nextToken + Cardinality(Handed(c))
      <3>1. PICK next \in [Handed(c) -> Req], t \in Bijection(Handed(c), (nextToken + 1) .. n) :
              ReleaseAll(c, next, t)
        BY <2>4 DEF Close
      <3>2. PICK k \in Handed(c) : r = next[k]
        BY <3>1, <1>1 DEF ReleaseAll, IInv, TypeOK
      <3>3. r \in waiters[k] \ ReqBy(c) /\ \A q \in waiters[k] \ ReqBy(c) : arrival[r] <= arrival[q]
        BY <3>1, <3>2 DEF ReleaseAll, Heads
      <3>4. k = KeyOf(r)
        BY <3>3, <1>1 DEF IInv, NoStrandedWaiter, ReqOn, Handed, Owned
      <3>5. s \in ReqBy(c)
        BY <2>0, <3>3, <3>4
      <3>6. \A q \in waiters[k] : next[KeyOf(q)] = q => q = r
        BY <3>2, <3>4, <1>1 DEF IInv, NoStrandedWaiter, ReqOn, Handed, Owned
      <3>7. QED
        BY <2>0, <3>1, <3>5, <1>1 DEF ReleaseAll, Heads, IInv, TypeOK
    <2>5. ASSUME NEW q \in Req, WaitTimeout(q) \/ FencedWrite(q)
          PROVE  FALSE
      BY <2>0, <2>5, <1>1 DEF WaitTimeout, FencedWrite, history, IInv, TypeOK
    <2>6. ASSUME NEW c \in Conn, Open(c)
          PROVE  FALSE
      BY <2>0, <2>6, <1>1 DEF Open, history
    <2>7. CASE Restart
      BY <2>0, <2>7, <1>1 DEF Restart, IInv, TypeOK
    <2>8. CASE UNCHANGED vars
      BY <2>8 DEF vars, history
    <2>9. QED
      BY <1>1, <2>1, <2>2, <2>3, <2>4, <2>5, <2>6, <2>7, <2>8
      DEF Next, Unlock, Expire
  <1>2. IInv /\ [Next]_vars => [\A r \in Req : Fair(r)]_vars
    BY <1>1
  <1>3. QED
    BY <1>2, Inductive, PTL DEF Spec, NoOvertaking

\* Only a write the gate accepted changes the guarded state of a lock, and the
\* bar keeps it from going back to an older holder's.
THEOREM WritesInOrder == Spec => WritesFollowGrants
  <1> DEFINE Forward == incarnation' = incarnation => \A k \in Key : value'[k] >= value[k]
  <1>1. ASSUME IInv, NEW r \in Req, FencedWrite(r)
        PROVE  Forward
    <2>1. value[KeyOf(r)] <= granted[r]
      BY <1>1, ReqFacts
      DEF IInv, TypeOK, WritesBelowBar, FencedWrite, FencePasses, FenceBar
    <2>2. QED
      BY <1>1, <2>1, ReqFacts DEF IInv, TypeOK, FencedWrite
  <1>2. ASSUME IInv, value' = value
        PROVE  Forward
    BY <1>2 DEF IInv, TypeOK
  <1>3. ASSUME IInv, Restart
        PROVE  Forward
    BY <1>3 DEF Restart, IInv, TypeOK
  <1>4. IInv /\ [Next]_vars => [Forward]_vars
    BY <1>1, <1>2, <1>3
    DEF Next, Open, Close, Acquire, WaitTimeout, Unlock, Expire, vars
  <1>5. QED
    BY <1>4, Inductive, PTL DEF Spec, WritesFollowGrants

-----------------------------------------------------------------------------
(* Refinement: each lock of a broker with a persist dir is a FencedMutex.  *)

\* A release that carries a token ends the hold granted with that token.
THEOREM ReleaseIsOwn == Spec => ReleaseEndsOwnGrant
  <1> DEFINE Step ==
        \A c \in Conn, k \in Key : \A t \in Tokens(k) \ {NoToken} :
            Unlock(c, k, t) =>
                \A r \in Req : status[r] = "held" /\ status'[r] # "held" => granted[r] = t
  <1>1. IInv => [Step]_vars
    <2> SUFFICES ASSUME IInv, NEW c \in Conn, NEW k \in Key, NEW t \in Tokens(k) \ {NoToken},
                        Unlock(c, k, t),
                        NEW r \in Req, status[r] = "held", status'[r] # "held"
                 PROVE  granted[r] = t
      OBVIOUS
    <2>1. token[k] = t
      BY DEF Unlock
    <2>2. KeyOf(r) = k
      <3>1. CASE FreeLock(k)
        BY <3>1 DEF FreeLock, HeldOn, ReqOn
      <3>2. CASE HandOver(k) \/ HandOverExhausted(k)
        BY <3>2 DEF HandOver, HandOverExhausted, Heads, HeldOn, ReqOn,
                    IInv, NoStrandedWaiter
      <3>3. QED
        BY <3>1, <3>2 DEF Unlock
    <2>3. QED
      BY <2>1, <2>2 DEF IInv, HolderOnRecord
  <1>2. QED
    BY <1>1, Inductive, PTL DEF ReleaseEndsOwnGrant

\* The refinement: an initial state of the broker is one of every mutex.
LEMMA MutexInit ==
    ASSUME Init, NEW k \in Key
    PROVE  Mutex(k)!Init
  BY DEF Init, Mutex!Init, HeldOn, ReqOn, NoToken

\* A step that leaves the holder, the tokens and the guarded state alone.
LEMMA MutexStutter ==
    ASSUME NEW k \in Key, value'[k] = value[k],
           \A r \in ReqOn(k) : (status'[r] = "held" <=> status[r] = "held")
                               /\ granted'[r] = granted[r]
    PROVE  UNCHANGED Mutex(k)!vars
  BY DEF Mutex!vars, HeldOn, ReqOn

\* A step after which nobody holds the lock.
LEMMA MutexFree ==
    ASSUME NEW k \in Key, value'[k] = value[k],
           \A r \in ReqOn(k) : status'[r] # "held" /\ granted'[r] = granted[r]
    PROVE  Mutex(k)!Next \/ UNCHANGED Mutex(k)!vars
  <1>1. HeldOn(k)' = {}
    BY DEF HeldOn, ReqOn
  <1>2. [r \in ReqOn(k) |-> granted[r]]' = [r \in ReqOn(k) |-> granted[r]]
    BY DEF ReqOn
  <1>3. CASE HeldOn(k) = {}
    BY <1>1, <1>2, <1>3 DEF Mutex!vars
  <1>4. CASE HeldOn(k) # {}
    BY <1>1, <1>2, <1>4 DEF Mutex!Next, Mutex!Free
  <1>5. QED
    BY <1>3, <1>4

\* A step that grants the lock to r.
LEMMA MutexGrant ==
    ASSUME NEW k \in Key, NEW r \in Req, KeyOf(r) = k, value'[k] = value[k],
           Persistent, IInv, IInv',
           granted[r] = NoToken, status'[r] = "held", nextToken < granted'[r],
           \A s \in ReqOn(k) \ {r} : granted'[s] = granted[s]
    PROVE  Mutex(k)!Next
  <1>1. r \in ReqOn(k)
    BY DEF ReqOn
  <1>2. HeldOn(k)' = {r}
    <2>1. MutualExclusion'
      BY DEF IInv, TypeOK, HolderOnRecord, GrantsHaveTokens, TokensUnique, MutualExclusion
    <2>2. QED
      BY <2>1 DEF MutualExclusion, HeldOn, ReqOn
  <1>3. granted'[r] \in Nat /\ nextToken \in Nat
    BY DEF IInv, TypeOK
  <1>4. \A s \in ReqOn(k) : granted[s] < granted'[r]
    <2> SUFFICES ASSUME NEW s \in ReqOn(k)
                 PROVE  granted[s] < granted'[r]
      OBVIOUS
    <2>1. s \in Req /\ granted[s] \in Nat
      BY DEF ReqOn, IInv, TypeOK
    <2>2. granted[s] <= nextToken
      BY <2>1, <1>3, FreshToken DEF NoToken
    <2>3. QED
      BY <2>1, <2>2, <1>3
  <1> DEFINE f == [s \in ReqOn(k) |-> granted[s]]
  <1>5. /\ f' = [f EXCEPT ![r] = f'[r]]
        /\ f[r] = 0 /\ f'[r] = granted'[r] /\ \A s \in ReqOn(k) : f[s] = granted[s]
    BY <1>1 DEF ReqOn, NoToken
  <1>6. Mutex(k)!Grant(r)
    BY <1>1, <1>2, <1>3, <1>4, <1>5 DEF Mutex!Grant
  <1>7. QED
    BY <1>1, <1>6 DEF Mutex!Next

\* A fenced write that passes the gate is a write of the newest grant.
LEMMA MutexWrite ==
    ASSUME NEW k \in Key, NEW r \in Req, Persistent, IInv, FencedWrite(r)
    PROVE  Mutex(k)!Next \/ UNCHANGED Mutex(k)!vars
  <1>1. CASE KeyOf(r) # k
    BY <1>1, ReqFacts, MutexStutter DEF FencedWrite, history, IInv, TypeOK
  <1>2. CASE KeyOf(r) = k
    <2>1. /\ r \in ReqOn(k) /\ granted[r] # 0
          /\ FenceBar(k) <= granted[r]
          /\ value'[k] = granted[r] /\ granted' = granted /\ status' = status
      BY <1>2 DEF FencedWrite, FencePasses, ReqOn, history, NoToken, IInv, TypeOK
    <2>2. \A s \in ReqOn(k) : granted[s] <= granted[r]
      <3> SUFFICES ASSUME NEW s \in ReqOn(k)
                   PROVE  granted[s] <= granted[r]
        OBVIOUS
      <3>1. /\ s \in Req /\ KeyOf(s) = k /\ granted[s] \in Nat /\ granted[r] \in Nat
            /\ born[s] \in Nat /\ incarnation \in Nat
        BY <2>1 DEF ReqOn, IInv, TypeOK
      <3>2. granted[s] # 0 => granted[s] <= fenceHigh[k] \/ granted[s] <= fenceFloor
        BY <3>1 DEF IInv, TokensBounded, NoToken
      <3>3. QED
        BY <3>1, <3>2, <2>1 DEF FenceBar, IInv, TypeOK
    <2>3. Mutex(k)!Write(r)
      BY <2>1, <2>2 DEF Mutex!Write, HeldOn
    <2>4. QED
      BY <2>1, <2>3 DEF Mutex!Next
  <1>3. QED
    BY <1>1, <1>2

\* A restart is a crash of every mutex.
LEMMA MutexRestart ==
    ASSUME NEW k \in Key, IInv, Restart
    PROVE  Mutex(k)!Next
  <1>1. /\ HeldOn(k)' = {}
        /\ value'[k] \in {0, value[k]}
        /\ granted' = granted
    BY DEF Restart, HeldOn, ReqOn, NoToken
  <1>2. QED
    BY <1>1 DEF Mutex!Next, Mutex!Crash

\* The close of a connection frees or hands over several mutexes at once.
LEMMA MutexClose ==
    ASSUME NEW k \in Key, NEW c \in Conn, Persistent, IInv, IInv', Close(c)
    PROVE  Mutex(k)!Next \/ UNCHANGED Mutex(k)!vars
  <1> DEFINE owned  == Owned(c)
             handed == Handed(c)
             n      == nextToken + Cardinality(handed)
  <1>1. n \in Nat /\ nextToken \in Nat /\ value' = value
    BY CountHanded, SMTT(30) DEF IInv, TypeOK, Close
  <1>2. PICK next \in [handed -> Req], t \in Bijection(handed, (nextToken + 1) .. n) :
          ReleaseAll(c, next, t)
    BY DEF Close
  <1> HIDE DEF n
  <1>3. ASSUME NEW j \in handed
        PROVE  /\ j \in Key /\ next[j] \in Req /\ KeyOf(next[j]) = j
               /\ granted[next[j]] = NoToken /\ nextToken < t[j]
    <2>1. next[j] \in waiters[j] /\ next[j] \in Req
      BY <1>2 DEF ReleaseAll, Heads
    <2>2. j \in Key /\ KeyOf(next[j]) = j /\ status[next[j]] = "waiting"
      BY <2>1 DEF IInv, NoStrandedWaiter, ReqOn, Handed, Owned
    <2>3. granted[next[j]] = NoToken
      BY <2>1, <2>2 DEF IInv, GrantsHaveTokens
    <2>4. t[j] \in (nextToken + 1) .. n
      BY DEF Bijection, Injection
    <2>5. nextToken < t[j]
      BY <2>4, <1>1
    <2>6. QED
      BY <2>1, <2>2, <2>3, <2>5
  <1>4. \A r \in Req :
          /\ status'[r] = IF r \in {next[j] : j \in handed} THEN "held"
                          ELSE IF status[r] = "held" /\ KeyOf(r) \in owned THEN "past"
                          ELSE IF status[r] = "waiting" /\ r \in ReqBy(c) THEN "dropped"
                          ELSE status[r]
          /\ granted'[r] = IF r \in {next[j] : j \in handed} THEN t[KeyOf(r)]
                           ELSE granted[r]
    BY <1>2 DEF ReleaseAll
  <1> HIDE DEF handed, owned
  <1>5. \A r \in ReqOn(k) : r \in Req /\ KeyOf(r) = k
    BY DEF ReqOn
  <1>6. \A r \in ReqOn(k) : r \in {next[j] : j \in handed} <=> k \in handed /\ r = next[k]
    BY <1>3, <1>5
  <1>7. CASE k \in handed
    <2>1. /\ status'[next[k]] = "held" /\ granted'[next[k]] = t[k]
          /\ \A s \in ReqOn(k) \ {next[k]} : granted'[s] = granted[s]
      BY <1>4, <1>3, <1>5, <1>6, <1>7
    <2>2. QED
      BY <2>1, <1>1, <1>3, <1>7, MutexGrant
  <1>8. CASE k \notin handed /\ k \in owned
    <2>1. \A r \in ReqOn(k) : status'[r] # "held" /\ granted'[r] = granted[r]
      BY <1>4, <1>5, <1>6, <1>8
    <2>2. QED
      BY <2>1, <1>2, <1>1, MutexFree
  <1>9. CASE k \notin handed /\ k \notin owned
    <2>1. \A r \in ReqOn(k) : (status'[r] = "held" <=> status[r] = "held")
                              /\ granted'[r] = granted[r]
      BY <1>4, <1>5, <1>6, <1>9
    <2>2. QED
      BY <2>1, <1>2, <1>1, MutexStutter
  <1>10. QED
    BY <1>7, <1>8, <1>9

\* Every step of the broker is a step or a stutter of every mutex.
LEMMA MutexStep ==
    ASSUME NEW k \in Key, Persistent, IInv, IInv', [Next]_vars
    PROVE  Mutex(k)!Next \/ UNCHANGED Mutex(k)!vars
  <1> DEFINE Good == Mutex(k)!Next \/ UNCHANGED Mutex(k)!vars
  \* A step in which no lock is granted or lost and nothing is written.
  <1>1. ASSUME value' = value, granted' = granted,
               \A r \in Req : status'[r] = "held" <=> status[r] = "held"
        PROVE  Good
    BY <1>1, MutexStutter DEF ReqOn
  <1>2. ASSUME NEW r \in Req, Acquire(r)
        PROVE  Good
    <2>1. CASE AcquireFree(r)
      <3>1. /\ status[r] = "idle" /\ granted[r] = NoToken
            /\ status' = [status EXCEPT ![r] = "held"]
            /\ granted' = [granted EXCEPT ![r] = nextToken + 1]
            /\ value' = value /\ nextToken \in Nat
        BY <1>2, <2>1 DEF Acquire, AcquireFree, Grant, IInv, TypeOK, GrantsHaveTokens
      <3>2. CASE KeyOf(r) = k
        <4>1. /\ status'[r] = "held" /\ nextToken < granted'[r]
              /\ \A s \in ReqOn(k) \ {r} : granted'[s] = granted[s]
          BY <3>1 DEF ReqOn, IInv, TypeOK
        <4>2. QED
          BY <3>1, <3>2, <4>1, MutexGrant
      <3>3. CASE KeyOf(r) # k
        BY <3>1, <3>3, MutexStutter DEF ReqOn, IInv, TypeOK
      <3>4. QED
        BY <3>2, <3>3
    <2>2. CASE ~AcquireFree(r)
      BY <1>1, <1>2, <2>2
      DEF Acquire, AcquireExhausted, AcquireRefused, AcquireWait, IInv, TypeOK
    <2>3. QED
      BY <2>1, <2>2
  <1>3. ASSUME NEW j \in Key, FreeLock(j) \/ HandOverExhausted(j), value' = value
        PROVE  Good
    <2>1. /\ granted' = granted
          /\ \A r \in Req : status'[r] = "held" <=> status[r] = "held" /\ KeyOf(r) # j
      <3>1. CASE FreeLock(j)
        BY <3>1 DEF FreeLock, HeldOn, ReqOn
      <3>2. CASE HandOverExhausted(j)
        BY <3>2 DEF HandOverExhausted, Heads, HeldOn, ReqOn, IInv, TypeOK, NoStrandedWaiter
      <3>3. QED
        BY <1>3, <3>1, <3>2
    <2>2. CASE j = k
      BY <1>3, <2>1, <2>2, MutexFree DEF ReqOn
    <2>3. CASE j # k
      BY <1>3, <2>1, <2>3, MutexStutter DEF ReqOn
    <2>4. QED
      BY <2>2, <2>3
  <1>4. ASSUME NEW j \in Key, HandOver(j), value' = value
        PROVE  Good
    <2>1. PICK r \in Heads(j, {}) :
            /\ status' = [q \in Req |-> IF q = r THEN "held"
                                        ELSE IF q \in HeldOn(j) THEN "past"
                                        ELSE status[q]]
            /\ granted' = [granted EXCEPT ![r] = nextToken + 1]
      BY <1>4 DEF HandOver, Grant
    <2>2. /\ r \in Req /\ KeyOf(r) = j /\ status[r] = "waiting" /\ granted[r] = NoToken
          /\ nextToken \in Nat
      BY DEF Heads, IInv, TypeOK, NoStrandedWaiter, GrantsHaveTokens, ReqOn
    <2>3. CASE j = k
      <3>1. /\ status'[r] = "held" /\ nextToken < granted'[r]
            /\ \A s \in ReqOn(k) \ {r} : granted'[s] = granted[s]
        BY <2>1, <2>2 DEF ReqOn, IInv, TypeOK
      <3>2. QED
        BY <1>4, <2>2, <2>3, <3>1, MutexGrant
    <2>4. CASE j # k
      BY <1>4, <2>1, <2>2, <2>4, MutexStutter DEF ReqOn, HeldOn, IInv, TypeOK
    <2>5. QED
      BY <2>3, <2>4
  <1>5. ASSUME NEW c \in Conn, NEW j \in Key, NEW t \in Tokens(j), Unlock(c, j, t)
        PROVE  Good
    BY <1>3, <1>4, <1>5 DEF Unlock
  <1>6. ASSUME NEW j \in Key, Expire(j)
        PROVE  Good
    BY <1>3, <1>4, <1>6 DEF Expire
  <1>7. ASSUME NEW r \in Req, WaitTimeout(r)
        PROVE  Good
    BY <1>1, <1>7 DEF WaitTimeout, IInv, TypeOK, NoStrandedWaiter, ReqOn
  <1>8. ASSUME NEW c \in Conn, Open(c)
        PROVE  Good
    BY <1>1, <1>8 DEF Open, history
  <1>9. CASE UNCHANGED vars
    BY <1>1, <1>9 DEF vars, history
  <1>10. QED
    BY <1>2, <1>5, <1>6, <1>7, <1>8, <1>9, MutexClose, MutexWrite, MutexRestart DEF Next

\* The lock service of a broker with a persist dir implements, key by key, a
\* mutex whose grants carry increasing tokens and whose writes are accepted
\* from the newest grant only.
THEOREM Refinement ==
    ASSUME Persistent
    PROVE  Spec => ImplementsMutex
  <1> DEFINE Step == \A k \in Key : Mutex(k)!Next \/ UNCHANGED Mutex(k)!vars
  <1>1. Init => \A k \in Key : Mutex(k)!Init
    BY MutexInit
  <1>2. IInv /\ IInv' /\ [Next]_vars => [Step]_vars
    BY MutexStep
  <1>3. QED
    BY <1>1, <1>2, Inductive, PTL DEF Spec, ImplementsMutex

-----------------------------------------------------------------------------
(* LockClient.                                                             *)

\* A frame that is written or read is one, and changes what is under way by itself only.
LEMMA AppendFacts ==
    ASSUME NEW q \in Seq(Frame), NEW f \in Frame
    PROVE  Append(q, f) \in Seq(Frame) /\ Range(Append(q, f)) = Range(q) \cup {f}
  BY AppendProperties DEF Range

LEMMA HeadFacts ==
    ASSUME NEW q \in Seq(Frame), q # <<>>
    PROVE  /\ Head(q) \in Frame /\ Tail(q) \in Seq(Frame)
           /\ Range(q) = {Head(q)} \cup Range(Tail(q))
  <1>1. Head(q) \in Frame /\ Tail(q) \in Seq(Frame)
    BY HeadTailProperties
  <1>2. \A i \in 1 .. Len(q) : i = 1 \/ (i - 1 \in 1 .. Len(Tail(q)) /\ q[i] = Tail(q)[i - 1])
    BY HeadTailProperties
  <1>3. \A i \in 1 .. Len(Tail(q)) : i + 1 \in 1 .. Len(q) /\ q[i + 1] = Tail(q)[i]
    BY HeadTailProperties
  <1>4. Head(q) = q[1] /\ 1 \in 1 .. Len(q)
    BY HeadTailProperties
  <1>5. /\ DOMAIN q = 1 .. Len(q)
        /\ DOMAIN Tail(q) = 1 .. Len(Tail(q))
    BY <1>1
  <1>6. Range(q) = {q[i] : i \in 1 .. Len(q)} /\ Range(Tail(q)) = {Tail(q)[i] : i \in 1 .. Len(Tail(q))}
    BY <1>5 DEF Range
  <1>7. Range(q) \subseteq {Head(q)} \cup Range(Tail(q))
    <2> SUFFICES ASSUME NEW i \in 1 .. Len(q)
                 PROVE  q[i] = Head(q) \/ \E j \in 1 .. Len(Tail(q)) : q[i] = Tail(q)[j]
      BY <1>6
    <2> QED
      BY <1>2, <1>4
  <1>8. {Head(q)} \cup Range(Tail(q)) \subseteq Range(q)
    <2>1. Head(q) \in Range(q)
      BY <1>4, <1>6
    <2>2. ASSUME NEW i \in 1 .. Len(Tail(q)) PROVE Tail(q)[i] \in Range(q)
      BY <1>3, <1>6
    <2> QED
      BY <1>6, <2>1, <2>2
  <1> QED
    BY <1>1, <1>7, <1>8

\* What a frame names.
LEMMA FrameFacts ==
    ASSUME NEW f \in Frame
    PROVE  /\ f[1] \in {"LOCK", "UNLOCK"} /\ f[2] \in Req /\ f = <<f[1], f[2]>>
           /\ ConnOf(f[2]) \in Conn /\ KeyOf(f[2]) \in Key
  BY ReqFacts DEF Frame

-----------------------------------------------------------------------------
(* What the broker's steps do to requests and connections.                 *)

\* A LOCK that is handled (acquire) is answered or queued, and no other request changes.
LEMMA AcquireMoves ==
    ASSUME IInv, NEW r \in Req, Acquire(r)
    PROVE  /\ status[r] = "idle" /\ status'[r] \in {"held", "denied", "waiting"}
           /\ \A q \in Req \ {r} : status'[q] = status[q]
           /\ conn' = conn
  BY DEF IInv, TypeOK, Acquire, AcquireFree, AcquireExhausted, AcquireRefused, AcquireWait

\* A request in a queue is granted, refused or forgotten; one that holds the lock loses it.
Moved(r) ==
    \/ status'[r] = status[r]
    \/ status[r] = "held" /\ status'[r] = "past"
    \/ status[r] = "waiting" /\ status'[r] \in {"held", "denied", "dropped"}

\* _release of a key moves requests for that key only, and whoever held it does no more.
LEMMA ReleaseMoves ==
    ASSUME IInv, NEW k \in Key, FreeLock(k) \/ HandOver(k) \/ HandOverExhausted(k)
    PROVE  \A r \in Req : /\ Moved(r)
                          /\ status[r] = "held" => (status'[r] = "held" <=> KeyOf(r) # k)
  <1>1. CASE FreeLock(k)
    BY <1>1 DEF IInv, TypeOK, FreeLock, Moved, HeldOn, ReqOn
  <1>2. CASE HandOver(k) \/ HandOverExhausted(k)
    <2>1. PICK next \in Heads(k, {}), s \in {"held", "dropped"} :
            status' = [r \in Req |-> IF r = next THEN s
                                     ELSE IF r \in HeldOn(k) THEN "past"
                                     ELSE status[r]]
      BY <1>2 DEF HandOver, HandOverExhausted
    <2>2. next \in Req /\ status[next] = "waiting"
      BY DEF Heads, IInv, NoStrandedWaiter, ReqOn
    <2> QED
      BY <2>1, <2>2 DEF IInv, TypeOK, Moved, HeldOn, ReqOn
  <1> QED
    BY <1>1, <1>2

\* When the broker's end of a connection closes, nothing is held over it any more.
LEMMA CloseMoves ==
    ASSUME IInv, NEW c \in Conn, Close(c)
    PROVE  /\ conn[c] = "open" /\ conn' = [conn EXCEPT ![c] = "closed"]
           /\ \A r \in Req : /\ Moved(r)
                             /\ ConnOf(r) = c => status'[r] # "held"
  <1>1. PICK next \in [Handed(c) -> Req] :
          /\ \A k \in Handed(c) : next[k] \in Heads(k, ReqBy(c))
          /\ status' = [r \in Req |->
               IF r \in {next[k] : k \in Handed(c)} THEN "held"
               ELSE IF status[r] = "held" /\ KeyOf(r) \in Owned(c) THEN "past"
               ELSE IF status[r] = "waiting" /\ r \in ReqBy(c) THEN "dropped"
               ELSE status[r]]
    BY DEF Close, ReleaseAll
  <1>2. \A k \in Handed(c) : /\ next[k] \in Req \ ReqBy(c)
                             /\ status[next[k]] = "waiting"
    BY <1>1 DEF Heads, Handed, Owned, IInv, NoStrandedWaiter, ReqOn
  <1>3. \A r \in Req : ConnOf(r) = c /\ status[r] = "held" => KeyOf(r) \in Owned(c)
    BY ReqFacts DEF IInv, HolderOnRecord, Owned
  <1>4. ASSUME NEW r \in Req
        PROVE  Moved(r) /\ (ConnOf(r) = c => status'[r] # "held")
    <2>1. CASE r \in {next[k] : k \in Handed(c)}
      BY <1>1, <1>2, <2>1 DEF Moved, ReqBy
    <2>2. CASE r \notin {next[k] : k \in Handed(c)}
      BY <1>1, <1>3, <2>2 DEF Moved, ReqBy
    <2> QED
      BY <2>1, <2>2
  <1> QED
    BY <1>4 DEF Close

\* A wait timer answers one request.
LEMMA WaitMoves ==
    ASSUME IInv, NEW q \in Req, WaitTimeout(q)
    PROVE  \A r \in Req : Moved(r) /\ (status[r] = "held" => status'[r] = "held")
  BY ReqFacts DEF IInv, TypeOK, NoStrandedWaiter, WaitTimeout, Moved, ReqOn

\* A restart ends all.
LEMMA RestartMoves ==
    ASSUME IInv, Restart
    PROVE  /\ \A r \in Req : Moved(r) /\ status'[r] # "held"
           /\ conn' = [c \in Conn |-> IF conn[c] = "open" THEN "closed" ELSE conn[c]]
  BY DEF IInv, TypeOK, Restart, Moved

-----------------------------------------------------------------------------
(* The mesh implements LockManager.                                        *)

\* Every step of a client or of the broker is one of the lock service, or leaves it alone.
LEMMA MeshStep ==
    ASSUME MeshTypeOK, [MeshNext]_meshVars
    PROVE  [Next]_vars
  <1>1. CASE UNCHANGED meshVars
    BY <1>1 DEF meshVars
  <1>2. ASSUME NEW p \in Client, Connect(p) PROVE Next
    <2>1. PICK d \in Conn : conn[d] = "new"
      BY <1>2 DEF Connect, Dialled
    <2>2. \E c \in Conn : Open(c)
      BY <1>2, <2>1 DEF Connect
    <2> QED
      BY <2>2 DEF Next
  <1>3. ASSUME NEW p \in Client, LoseLink(p) PROVE UNCHANGED vars
    BY <1>3 DEF LoseLink
  <1>4. ASSUME NEW r \in Req, Lock(r) \/ GiveUp(r) \/ Resolve(r) \/ ResolveLate(r) \/ Release(r)
        PROVE  UNCHANGED vars
    BY <1>4 DEF Lock, GiveUp, Resolve, ResolveLate, Release
  <1>5. ASSUME NEW c \in Conn, Read(c) PROVE [Next]_vars
    <2> DEFINE f == Head(toBroker[c])
    <2>1. f \in Frame
      BY <1>5, HeadFacts DEF Read, MeshTypeOK
    <2>2. f[2] \in Req /\ KeyOf(f[2]) \in Key
      BY <2>1, FrameFacts
    <2>3. granted[f[2]] \in Tokens(KeyOf(f[2]))
      BY <2>2 DEF Tokens, ReqOn
    <2>4. Acquire(f[2]) \/ HandleUnlock(c, f[2])
      BY <1>5 DEF Read
    <2>5. CASE Acquire(f[2])
      BY <2>2, <2>5 DEF Next
    <2>6. CASE HandleUnlock(c, f[2])
      BY <2>2, <2>3, <2>6 DEF Next, HandleUnlock
    <2> QED
      BY <2>4, <2>5, <2>6
  <1>6. ASSUME NEW c \in Conn, Hangup(c) PROVE Next
    BY <1>6 DEF Hangup, Next
  <1>7. CASE TimerFires
    BY <1>7 DEF TimerFires, Next
  <1>8. CASE BrokerRestart
    BY <1>8 DEF BrokerRestart, Next
  <1> QED
    BY <1>1, <1>2, <1>3, <1>4, <1>5, <1>6, <1>7, <1>8 DEF MeshNext

-----------------------------------------------------------------------------
(* The inductive invariant: what a client does.                            *)

\* A frame that is written joins those of its stream, if that is open.
LEMMA WriteFacts ==
    ASSUME MeshTypeOK, NEW c, NEW f \in Frame, Write(c, f)
    PROVE  /\ toBroker' \in [Conn -> Seq(Frame)]
           /\ \A d \in Conn :
                /\ Range(toBroker[d]) \subseteq Range(toBroker'[d])
                /\ Range(toBroker'[d]) \subseteq Range(toBroker[d]) \cup {f}
                /\ toBroker'[d] # <<>> => toBroker[d] # <<>> \/ conn[d] = "open"
                /\ d = c /\ conn[d] = "open" => f \in Range(toBroker'[d])
                /\ f \in Range(toBroker'[d]) => f \in Range(toBroker[d]) \/ d = c
  <1>1. CASE c \in Conn /\ conn[c] = "open"
    <2>1. toBroker' = [toBroker EXCEPT ![c] = Append(@, f)]
      BY <1>1, LockAssumption DEF Write
    <2>2. /\ Append(toBroker[c], f) \in Seq(Frame)
          /\ Range(Append(toBroker[c], f)) = Range(toBroker[c]) \cup {f}
      BY <1>1, AppendFacts DEF MeshTypeOK
    <2> QED
      BY <1>1, <2>1, <2>2 DEF MeshTypeOK
  <1>2. CASE ~(c \in Conn /\ conn[c] = "open")
    BY <1>2 DEF Write, MeshTypeOK
  <1> QED
    BY <1>1, <1>2

\* The client starts without a connection.
LEMMA MeshInitInv == MeshInit => MeshInv
  <1> SUFFICES ASSUME MeshInit PROVE MeshInv
    OBVIOUS
  <1>1. IInv
    BY InitIInv DEF MeshInit
  <1>2. Dialled = {} /\ \A r \in Req : status[r] = "idle" /\ task[r] = "idle"
    BY DEF MeshInit, Init, Dialled
  <1>3. \A c \in Conn : toBroker[c] = <<>> /\ Range(toBroker[c]) = {}
    BY DEF MeshInit, Range
  <1>4. MeshTypeOK
    BY <1>1, <1>2 DEF IInv, MeshInit, MeshTypeOK, TaskState
  <1> QED
    BY <1>1, <1>2, <1>3, <1>4, LockAssumption
    DEF MeshInit, MeshInv, StreamsAgree, SomeoneWaits, ReleasesAreOfGrants, NoOrphanGrant, OnLink

\* A connection that is new carries nothing yet.
LEMMA ConnectStep ==
    ASSUME MeshInv, IInv', NEW p \in Client, Connect(p)
    PROVE  MeshInv'
  <1>1. PICK c \in Conn : /\ conn[c] = "new" /\ link[p] = NoConn
                          /\ Open(c)
                          /\ dialler' = [d \in Dialled \cup {c} |-> IF d = c THEN p ELSE dialler[d]]
                          /\ link' = [link EXCEPT ![p] = c]
                          /\ UNCHANGED <<task, wireVars>>
    <2>1. \E d \in Conn : conn[d] = "new"
      BY DEF Connect, Dialled
    <2> QED
      BY <2>1 DEF Connect
  <1>2. /\ c \notin Dialled /\ Dialled' = Dialled \cup {c}
        /\ conn' = [conn EXCEPT ![c] = "open"]
        /\ UNCHANGED <<status, toBroker, replies, task>>
    BY <1>1 DEF Dialled, Open, history, wireVars, MeshInv, MeshTypeOK, TypeOK
  <1>3. /\ dialler' \in [Dialled' -> Client] /\ dialler'[c] = p
        /\ \A d \in Dialled : dialler'[d] = dialler[d]
    BY <1>1, <1>2 DEF MeshInv, MeshTypeOK
  <1>4. MeshTypeOK'
    BY <1>1, <1>2, <1>3 DEF MeshInv, MeshTypeOK, IInv
  <1>5. StreamsAgree'
    BY <1>1, <1>2, <1>3, LockAssumption DEF MeshInv, MeshTypeOK, TypeOK, StreamsAgree
  <1>6. \A r \in Req : OnLink(r)' => ConnOf(r) = c \/ OnLink(r)
    BY <1>1, <1>2, <1>3, ReqFacts DEF OnLink, MeshInv, MeshTypeOK
  <1>7. \A r \in Req : ConnOf(r) = c =>
          status[r] \notin {"held", "waiting"} /\ Range(toBroker[ConnOf(r)]) = {}
    <2> SUFFICES ASSUME NEW r \in Req, ConnOf(r) = c
                 PROVE  status[r] \notin {"held", "waiting"} /\ Range(toBroker[c]) = {}
      OBVIOUS
    <2>1. status[r] # "held"
      BY <1>1, ReqFacts, LockAssumption DEF MeshInv, IInv, HolderOnRecord, OwnedLockExpires
    <2>2. status[r] # "waiting"
      BY <1>1, ReqFacts DEF MeshInv, IInv, NoStrandedWaiter, ReqOn
    <2>3. toBroker[c] = <<>>
      BY <1>1 DEF MeshInv, StreamsAgree
    <2> QED
      BY <2>1, <2>2, <2>3 DEF Range
  <1>8. SomeoneWaits' /\ ReleasesAreOfGrants' /\ NoOrphanGrant'
    BY <1>2, <1>6, <1>7 DEF MeshInv, SomeoneWaits, ReleasesAreOfGrants, NoOrphanGrant
  <1> QED
    BY <1>4, <1>5, <1>8 DEF MeshInv

\* lock() sends its request and waits; giving up, it still waits, but for the late answer.
LEMMA LockStep ==
    ASSUME MeshInv, IInv', NEW r \in Req, Lock(r) \/ GiveUp(r)
    PROVE  MeshInv'
  <1>1. /\ UNCHANGED <<conn, status, dialler, link, replies>>
        /\ task[r] \in {"idle", "asked"}
        /\ \E t \in {"asked", "gaveUp"} : task' = [task EXCEPT ![r] = t]
    BY DEF Lock, GiveUp, vars, history, wireVars
  <1>2. /\ toBroker' \in [Conn -> Seq(Frame)]
        /\ \A d \in Conn :
             /\ Range(toBroker[d]) \subseteq Range(toBroker'[d])
             /\ toBroker'[d] # <<>> => toBroker[d] # <<>> \/ conn[d] = "open"
             /\ \A f \in Range(toBroker'[d]) :
                  f \in Range(toBroker[d]) \/ (f = <<"LOCK", r>> /\ d = ConnOf(r))
    <2>1. CASE Lock(r)
      <3>1. <<"LOCK", r>> \in Frame /\ Write(ConnOf(r), <<"LOCK", r>>)
        BY <2>1 DEF Lock, Frame
      <3>2. MeshTypeOK
        BY DEF MeshInv
      <3>3. /\ toBroker' \in [Conn -> Seq(Frame)]
            /\ \A d \in Conn :
                 /\ Range(toBroker[d]) \subseteq Range(toBroker'[d])
                 /\ Range(toBroker'[d]) \subseteq Range(toBroker[d]) \cup {<<"LOCK", r>>}
                 /\ toBroker'[d] # <<>> => toBroker[d] # <<>> \/ conn[d] = "open"
                 /\ <<"LOCK", r>> \in Range(toBroker'[d]) =>
                      <<"LOCK", r>> \in Range(toBroker[d]) \/ d = ConnOf(r)
        BY <3>1, <3>2, WriteFacts
      <3> QED
        BY <3>3, Zenon
    <2>2. CASE GiveUp(r)
      BY <2>2 DEF GiveUp, wireVars, MeshInv, MeshTypeOK
    <2> QED
      BY <2>1, <2>2
  <1>3. MeshTypeOK'
    BY <1>1, <1>2 DEF MeshInv, MeshTypeOK, IInv, Dialled, TaskState
  <1>4. StreamsAgree'
    BY <1>1, <1>2 DEF MeshInv, StreamsAgree, Dialled
  <1>5. OnLink(r)' = OnLink(r) /\ \A q \in Req : OnLink(q)' = OnLink(q)
    BY <1>1 DEF OnLink, Dialled
  <1>6. SomeoneWaits'
    BY <1>1, <1>2, <1>5, ReqFacts DEF MeshInv, MeshTypeOK, SomeoneWaits
  <1>7. ReleasesAreOfGrants' /\ NoOrphanGrant'
    BY <1>1, <1>2, <1>5, ReqFacts DEF MeshInv, MeshTypeOK, ReleasesAreOfGrants, NoOrphanGrant
  <1> QED
    BY <1>3, <1>4, <1>6, <1>7 DEF MeshInv

\* An answer that arrives in time is passed on; what it granted, the task has.
LEMMA ResolveStep ==
    ASSUME MeshInv, IInv', NEW r \in Req, Resolve(r)
    PROVE  MeshInv'
  <1>1. /\ UNCHANGED <<conn, status, dialler, link, toBroker>>
        /\ r \in replies /\ replies' = replies \ {r}
        /\ task' = [task EXCEPT ![r] = IF granted[r] # NoToken THEN "has" ELSE "done"]
    BY DEF Resolve, vars, history
  <1>2. MeshTypeOK'
    BY <1>1 DEF MeshInv, MeshTypeOK, IInv, Dialled, TaskState
  <1>3. StreamsAgree'
    BY <1>1 DEF MeshInv, StreamsAgree, Dialled
  <1>4. \A q \in Req : OnLink(q)' = OnLink(q)
    BY <1>1 DEF OnLink, Dialled
  <1>5. /\ status[r] \notin {"idle", "waiting"}
        /\ granted[r] # NoToken <=> status[r] \in {"held", "past"}
    BY <1>1 DEF MeshInv, SomeoneWaits, IInv, GrantsHaveTokens
  <1>6. SomeoneWaits' /\ ReleasesAreOfGrants' /\ NoOrphanGrant'
    BY <1>1, <1>4, <1>5
    DEF MeshInv, MeshTypeOK, SomeoneWaits, ReleasesAreOfGrants, NoOrphanGrant
  <1> QED
    BY <1>2, <1>3, <1>6 DEF MeshInv

\* What a client gives back, because it is released or came too late, is under way while
\* its connection is up.
LEMMA GiveBackStep ==
    ASSUME MeshInv, IInv', NEW r \in Req, ResolveLate(r) \/ Release(r)
    PROVE  MeshInv'
  <1>1. /\ UNCHANGED <<conn, status, dialler, link>>
        /\ replies' \subseteq replies /\ replies \ {r} \subseteq replies'
        /\ task' = [task EXCEPT ![r] = "done"]
        /\ r \in replies \/ task[r] = "has"
    BY DEF ResolveLate, Release, vars, history
  <1>2. \/ granted[r] = NoToken /\ toBroker' = toBroker
        \/ Write(link[dialler[ConnOf(r)]], <<"UNLOCK", r>>) /\ status[r] \in {"held", "past"}
    <2>1. granted[r] # NoToken => status[r] \in {"held", "past"}
      BY DEF MeshInv, IInv, GrantsHaveTokens
    <2>2. task[r] = "has" => status[r] \in {"held", "past"}
      BY DEF MeshInv, ReleasesAreOfGrants
    <2> QED
      BY <2>1, <2>2 DEF ResolveLate, Release, HandBack, SendUnlock
  <1>3. <<"UNLOCK", r>> \in Frame
    BY DEF Frame
  <1>4. /\ toBroker' \in [Conn -> Seq(Frame)]
        /\ \A d \in Conn :
             /\ Range(toBroker[d]) \subseteq Range(toBroker'[d])
             /\ toBroker'[d] # <<>> => toBroker[d] # <<>> \/ conn[d] = "open"
             /\ \A f \in Range(toBroker'[d]) :
                  \/ f \in Range(toBroker[d])
                  \/ f = <<"UNLOCK", r>> /\ status[r] \in {"held", "past"}
    BY <1>2, <1>3, WriteFacts DEF MeshInv, MeshTypeOK
  <1>5. status[r] = "held" /\ OnLink(r) => <<"UNLOCK", r>> \in Range(toBroker'[ConnOf(r)])
    <2> SUFFICES ASSUME status[r] = "held", OnLink(r)
                 PROVE  <<"UNLOCK", r>> \in Range(toBroker'[ConnOf(r)])
      OBVIOUS
    <2>1. granted[r] # NoToken
      BY DEF MeshInv, IInv, GrantsHaveTokens
    <2>2. conn[ConnOf(r)] = "open" /\ ConnOf(r) \in Conn
      BY ReqFacts, LockAssumption DEF MeshInv, IInv, HolderOnRecord, OwnedLockExpires
    <2>3. Write(ConnOf(r), <<"UNLOCK", r>>)
      BY <1>2, <2>1 DEF OnLink
    <2> QED
      BY <1>3, <2>2, <2>3, WriteFacts DEF MeshInv
  <1>6. MeshTypeOK'
    BY <1>1, <1>4 DEF MeshInv, MeshTypeOK, IInv, Dialled, TaskState
  <1>7. StreamsAgree'
    BY <1>1, <1>4 DEF MeshInv, StreamsAgree, Dialled
  <1>8. \A q \in Req : OnLink(q)' = OnLink(q)
    BY <1>1 DEF OnLink, Dialled
  <1>9. status[r] \notin {"idle", "waiting"}
    BY <1>1 DEF MeshInv, SomeoneWaits, ReleasesAreOfGrants
  <1>10. SomeoneWaits'
    BY <1>1, <1>4, <1>8, <1>9, ReqFacts DEF MeshInv, MeshTypeOK, SomeoneWaits
  <1>11. ReleasesAreOfGrants'
    BY <1>1, <1>4 DEF MeshInv, MeshTypeOK, ReleasesAreOfGrants
  <1>12. NoOrphanGrant'
    BY <1>1, <1>4, <1>5, <1>8, ReqFacts DEF MeshInv, MeshTypeOK, NoOrphanGrant
  <1> QED
    BY <1>6, <1>7, <1>10, <1>11, <1>12 DEF MeshInv

\* A client that lost its connection forgets what it asked over that.
LEMMA LoseLinkStep ==
    ASSUME MeshInv, IInv', NEW p \in Client, LoseLink(p)
    PROVE  MeshInv'
  <1> DEFINE c == link[p]
  <1>1. /\ c # NoConn /\ c \in Dialled /\ dialler[c] = p
        /\ UNCHANGED <<conn, status, dialler, toBroker>>
        /\ link' = [link EXCEPT ![p] = NoConn]
        /\ replies' = replies \ ReqBy(c)
        /\ task' = [r \in Req |-> IF r \in ReqBy(c) /\ task[r] \in {"asked", "gaveUp"}
                                  THEN "done" ELSE task[r]]
    BY DEF LoseLink, vars, history, MeshInv, StreamsAgree
  <1>2. MeshTypeOK'
    BY <1>1 DEF MeshInv, MeshTypeOK, IInv, Dialled, TaskState
  <1>3. StreamsAgree'
    BY <1>1 DEF MeshInv, MeshTypeOK, StreamsAgree, Dialled
  <1>4. \A q \in Req : OnLink(q)' => OnLink(q) /\ q \notin ReqBy(c)
    BY <1>1, LockAssumption DEF OnLink, Dialled, ReqBy, MeshInv, MeshTypeOK
  <1>5. SomeoneWaits' /\ ReleasesAreOfGrants' /\ NoOrphanGrant'
    BY <1>1, <1>4 DEF MeshInv, MeshTypeOK, SomeoneWaits, ReleasesAreOfGrants, NoOrphanGrant
  <1> QED
    BY <1>2, <1>3, <1>5 DEF MeshInv

-----------------------------------------------------------------------------
(* The inductive invariant: what the broker does.                          *)

\* The broker moves requests, and answers in the same step whom it granted a lock; the
\* UNLOCK of a lock that stays held is not read.
LEMMA BrokerStep ==
    ASSUME MeshInv, IInv', UNCHANGED clientVars,
           \A c \in Conn : conn'[c] = "new" <=> conn[c] = "new",
           toBroker' \in [Conn -> Seq(Frame)],
           \A c \in Conn : Range(toBroker'[c]) \subseteq Range(toBroker[c]),
           \A c \in Conn : toBroker'[c] # <<>> => conn'[c] = "open",
           replies \subseteq replies', replies' \subseteq Req,
           \A r \in replies' \ replies : status'[r] \in {"held", "denied"},
           \A r \in Req :
             \/ Moved(r)
             \/ /\ status[r] = "idle" /\ status'[r] \in {"held", "denied", "waiting"}
                /\ <<"LOCK", r>> \in Range(toBroker[ConnOf(r)]),
           \A r \in Req :
             status[r] \in {"idle", "waiting"} /\ status'[r] = "held" /\ OnLink(r) =>
               r \in replies',
           \A r \in Req :
             /\ status[r] = "held" /\ status'[r] = "held"
             /\ <<"UNLOCK", r>> \in Range(toBroker[ConnOf(r)])
             => <<"UNLOCK", r>> \in Range(toBroker'[ConnOf(r)])
    PROVE  MeshInv'
  <1>1. Dialled' = Dialled /\ UNCHANGED <<dialler, link, task>>
    BY DEF Dialled, clientVars
  <1>2. MeshTypeOK'
    BY <1>1 DEF MeshInv, MeshTypeOK, IInv
  <1>3. StreamsAgree'
    BY <1>1 DEF MeshInv, StreamsAgree
  <1>4. \A r \in Req : OnLink(r)' = OnLink(r)
    BY <1>1 DEF OnLink
  <1>5. SomeoneWaits'
    <2>1. ASSUME NEW r \in Req, OnLink(r)',
                 \/ status'[r] = "waiting"
                 \/ status'[r] = "idle" /\ <<"LOCK", r>> \in Range(toBroker'[ConnOf(r)])
          PROVE  task'[r] \in {"asked", "gaveUp"}
      BY <1>1, <1>4, <2>1, ReqFacts DEF MeshInv, SomeoneWaits, Moved
    <2>2. ASSUME NEW r \in replies'
          PROVE  status'[r] \notin {"idle", "waiting"}
      BY <2>2 DEF MeshInv, SomeoneWaits, Moved
    <2> QED
      BY <2>1, <2>2 DEF SomeoneWaits
  <1>6. ReleasesAreOfGrants'
    BY <1>1 DEF MeshInv, ReleasesAreOfGrants, Moved
  <1>7. ASSUME NEW r \in Req, status'[r] = "held", OnLink(r)'
        PROVE  \/ task'[r] = "has"
               \/ r \in replies' /\ task'[r] \in {"asked", "gaveUp"}
               \/ <<"UNLOCK", r>> \in Range(toBroker'[ConnOf(r)])
    <2>1. CASE status[r] = "held"
      BY <1>1, <1>4, <1>7, <2>1 DEF MeshInv, NoOrphanGrant
    <2>2. CASE status[r] # "held"
      BY <1>1, <1>4, <1>7, <2>2 DEF MeshInv, SomeoneWaits, Moved
    <2> QED
      BY <2>1, <2>2
  <1> QED
    BY <1>2, <1>3, <1>5, <1>6, <1>7 DEF MeshInv, NoOrphanGrant

LEMMA AnswerFacts ==
    ASSUME MeshTypeOK, Answer
    PROVE  /\ replies \subseteq replies' /\ replies' \subseteq Req
           /\ \A r \in replies' \ replies : status'[r] \in {"held", "denied"}
           /\ \A r \in Req :
                status[r] \in {"idle", "waiting"} /\ status'[r] = "held" /\ OnLink(r) =>
                  r \in replies'
  BY DEF MeshTypeOK, Answer

\* The frame read is gone from its stream: a LOCK is that of a request over the
\* connection, an UNLOCK ends the hold it names.
LEMMA ReadStep ==
    ASSUME MeshInv, IInv', NEW c \in Conn, Read(c)
    PROVE  MeshInv'
  <1> DEFINE f == Head(toBroker[c])
             r == f[2]
  <1>1. /\ conn[c] = "open" /\ toBroker[c] # <<>> /\ toBroker[c] \in Seq(Frame)
        /\ toBroker' = [toBroker EXCEPT ![c] = Tail(@)]
        /\ (f[1] = "LOCK" /\ Acquire(r)) \/ (f[1] = "UNLOCK" /\ HandleUnlock(c, r))
        /\ Answer /\ UNCHANGED clientVars
    BY DEF Read, MeshInv, MeshTypeOK
  <1>2. /\ f \in Frame /\ Tail(toBroker[c]) \in Seq(Frame)
        /\ Range(toBroker[c]) = {f} \cup Range(Tail(toBroker[c]))
    BY <1>1, HeadFacts
  <1>3. r \in Req /\ f = <<f[1], r>> /\ KeyOf(r) \in Key
    BY <1>2, FrameFacts
  <1>4. /\ toBroker' \in [Conn -> Seq(Frame)]
        /\ toBroker'[c] = Tail(toBroker[c])
        /\ \A d \in Conn \ {c} : toBroker'[d] = toBroker[d]
    BY <1>1, <1>2 DEF MeshInv, MeshTypeOK
  <1>5. /\ \A d \in Conn : Range(toBroker'[d]) \subseteq Range(toBroker[d])
        /\ \A d \in Conn : Range(toBroker[d]) \ {f} \subseteq Range(toBroker'[d])
        /\ \A d \in Conn \ {c} : Range(toBroker'[d]) = Range(toBroker[d])
    BY <1>2, <1>4
  <1>6. \A q \in Req : <<"UNLOCK", q>> = f => f[1] = "UNLOCK" /\ q = r
    OBVIOUS
  <1>7. CASE f[1] = "LOCK" /\ Acquire(r)
    <2>1. ConnOf(r) = c
      BY <1>2, <1>3, <1>7 DEF MeshInv, StreamsAgree
    <2>2. /\ conn' = conn
          /\ \A q \in Req :
               \/ Moved(q)
               \/ /\ status[q] = "idle" /\ status'[q] \in {"held", "denied", "waiting"}
                  /\ <<"LOCK", q>> \in Range(toBroker[ConnOf(q)])
      BY <1>2, <1>3, <1>7, <2>1, AcquireMoves DEF MeshInv, Moved
    <2>3. \A q \in Req :
            <<"UNLOCK", q>> \in Range(toBroker[ConnOf(q)]) =>
              <<"UNLOCK", q>> \in Range(toBroker'[ConnOf(q)])
      BY <1>5, <1>7, <1>6, ReqFacts
    <2>4. \A d \in Conn : toBroker'[d] # <<>> => conn'[d] = "open"
      BY <1>1, <1>4, <2>2 DEF MeshInv, StreamsAgree
    <2> QED
      BY <1>1, <1>4, <1>5, <2>2, <2>3, <2>4, AnswerFacts, BrokerStep DEF MeshInv
  <1>8. CASE f[1] = "UNLOCK" /\ HandleUnlock(c, r)
    <2>1. /\ conn' = conn
          /\ \A q \in Req : Moved(q)
          /\ ConnOf(r) = c => status[r] # "held" \/ status'[r] # "held"
      <3>1. CASE Unlock(c, KeyOf(r), granted[r])
        <4>1. FreeLock(KeyOf(r)) \/ HandOver(KeyOf(r)) \/ HandOverExhausted(KeyOf(r))
          BY <3>1 DEF Unlock
        <4> QED
          BY <1>3, <3>1, <4>1, ReleaseMoves DEF MeshInv, Unlock
      <3>2. CASE /\ owner[KeyOf(r)] # c \/ token[KeyOf(r)] # granted[r]
                 /\ UNCHANGED vars
        BY <1>3, <3>2 DEF vars, history, Moved, MeshInv, IInv, HolderOnRecord
      <3> QED
        BY <1>8, <3>1, <3>2 DEF HandleUnlock
    <2>2. \A q \in Req :
            /\ status[q] = "held" /\ status'[q] = "held"
            /\ <<"UNLOCK", q>> \in Range(toBroker[ConnOf(q)])
            => <<"UNLOCK", q>> \in Range(toBroker'[ConnOf(q)])
      BY <1>5, <1>6, <2>1, ReqFacts
    <2>3. \A d \in Conn : toBroker'[d] # <<>> => conn'[d] = "open"
      BY <1>1, <1>4, <2>1 DEF MeshInv, StreamsAgree
    <2> QED
      BY <1>1, <1>4, <1>5, <2>1, <2>2, <2>3, AnswerFacts, BrokerStep DEF MeshInv
  <1> QED
    BY <1>1, <1>7, <1>8

\* A timer of the broker fires.
LEMMA TimerStep ==
    ASSUME MeshInv, IInv', TimerFires
    PROVE  MeshInv'
  <1>1. /\ conn' = conn
        /\ \A r \in Req : Moved(r)
    <2>1. ASSUME NEW k \in Key, Expire(k)
          PROVE  conn' = conn /\ \A r \in Req : Moved(r)
      <3>1. FreeLock(k) \/ HandOver(k)
        BY <2>1 DEF Expire
      <3> QED
        BY <2>1, <3>1, ReleaseMoves DEF MeshInv, Expire
    <2>2. ASSUME NEW r \in Req, WaitTimeout(r)
          PROVE  conn' = conn /\ \A q \in Req : Moved(q)
      BY <2>2, WaitMoves DEF MeshInv, WaitTimeout
    <2> QED
      BY <2>1, <2>2 DEF TimerFires
  <1>2. Answer /\ UNCHANGED clientVars /\ toBroker' = toBroker
    BY DEF TimerFires
  <1>3. toBroker' \in [Conn -> Seq(Frame)] /\ \A d \in Conn : toBroker'[d] # <<>> => conn'[d] = "open"
    BY <1>1, <1>2 DEF MeshInv, MeshTypeOK, StreamsAgree
  <1> QED
    BY <1>1, <1>2, <1>3, AnswerFacts, BrokerStep DEF MeshInv

\* The broker's end of a connection closes: what was held over it is not any more.
LEMMA HangupStep ==
    ASSUME MeshInv, IInv', NEW c \in Conn, Hangup(c)
    PROVE  MeshInv'
  <1>1. /\ Close(c) /\ Answer /\ UNCHANGED clientVars
        /\ toBroker' = [toBroker EXCEPT ![c] = <<>>]
    BY DEF Hangup
  <1>2. /\ conn[c] = "open" /\ conn' = [conn EXCEPT ![c] = "closed"]
        /\ \A r \in Req : Moved(r) /\ (ConnOf(r) = c => status'[r] # "held")
    BY <1>1, CloseMoves DEF MeshInv
  <1>3. /\ toBroker' \in [Conn -> Seq(Frame)] /\ toBroker'[c] = <<>> /\ Range(toBroker'[c]) = {}
        /\ \A d \in Conn \ {c} : toBroker'[d] = toBroker[d]
    BY <1>1 DEF MeshInv, MeshTypeOK, Range
  <1>4. /\ \A d \in Conn : conn'[d] = "new" <=> conn[d] = "new"
        /\ \A d \in Conn : toBroker'[d] # <<>> => conn'[d] = "open"
        /\ \A d \in Conn : Range(toBroker'[d]) \subseteq Range(toBroker[d])
    BY <1>2, <1>3 DEF MeshInv, StreamsAgree, MeshTypeOK, TypeOK
  <1>5. \A r \in Req :
          /\ status[r] = "held" /\ status'[r] = "held"
          /\ <<"UNLOCK", r>> \in Range(toBroker[ConnOf(r)])
          => <<"UNLOCK", r>> \in Range(toBroker'[ConnOf(r)])
    BY <1>2, <1>3, ReqFacts
  <1> QED
    BY <1>1, <1>2, <1>3, <1>4, <1>5, AnswerFacts, BrokerStep DEF MeshInv

\* The broker restarts: all streams end, and nothing is held.
LEMMA BrokerRestartStep ==
    ASSUME MeshInv, IInv', BrokerRestart
    PROVE  MeshInv'
  <1>1. /\ Restart /\ UNCHANGED clientVars /\ replies' = replies
        /\ toBroker' = [c \in Conn |-> <<>>]
    BY DEF BrokerRestart
  <1>2. /\ \A r \in Req : Moved(r) /\ status'[r] # "held"
        /\ conn' = [c \in Conn |-> IF conn[c] = "open" THEN "closed" ELSE conn[c]]
    BY <1>1, RestartMoves DEF MeshInv
  <1>3. /\ toBroker' \in [Conn -> Seq(Frame)]
        /\ \A c \in Conn : toBroker'[c] = <<>> /\ Range(toBroker'[c]) = {}
        /\ \A c \in Conn : conn'[c] = "new" <=> conn[c] = "new"
        /\ replies \subseteq Req
    BY <1>1, <1>2 DEF Range, MeshInv, MeshTypeOK
  <1> QED
    BY <1>1, <1>2, <1>3, BrokerStep

\* Every step of a client or of the broker preserves the invariant.
LEMMA MeshNextStep == MeshInv /\ [MeshNext]_meshVars => MeshInv'
  <1> SUFFICES ASSUME MeshInv, [MeshNext]_meshVars
               PROVE  MeshInv'
    OBVIOUS
  <1>1. IInv'
    BY MeshStep, NextStep DEF MeshInv
  <1>2. CASE UNCHANGED meshVars
    <2>1. MeshTypeOK' /\ StreamsAgree'
      BY <1>1, <1>2 DEF IInv, MeshInv, meshVars, vars, clientVars, wireVars, MeshTypeOK, Dialled,
                 StreamsAgree
    <2>2. \A r \in Req : OnLink(r)' = OnLink(r)
      BY <1>2 DEF meshVars, vars, clientVars, OnLink, Dialled
    <2> QED
      BY <1>1, <1>2, <2>1, <2>2
      DEF MeshInv, meshVars, vars, history, clientVars, wireVars, SomeoneWaits,
          ReleasesAreOfGrants, NoOrphanGrant
  <1>3. ASSUME NEW p \in Client, Connect(p) \/ LoseLink(p)
        PROVE  MeshInv'
    BY <1>1, <1>3, ConnectStep, LoseLinkStep
  <1>4. ASSUME NEW r \in Req, Lock(r) \/ GiveUp(r) \/ Resolve(r) \/ ResolveLate(r) \/ Release(r)
        PROVE  MeshInv'
    BY <1>1, <1>4, LockStep, ResolveStep, GiveBackStep
  <1>5. ASSUME NEW c \in Conn, Read(c) \/ Hangup(c)
        PROVE  MeshInv'
    BY <1>1, <1>5, ReadStep, HangupStep
  <1> QED
    BY <1>1, <1>2, <1>3, <1>4, <1>5, TimerStep, BrokerRestartStep DEF MeshNext

\* What the clients know of their locks, what is on its way and what the broker granted
\* agree at all times.
THEOREM MeshInductive == MeshSpec => []MeshInv
  BY MeshInitInv, MeshNextStep, PTL DEF MeshSpec

-----------------------------------------------------------------------------
(* What holds of the mesh.                                                 *)

\* Clients and broker together implement LockManager: frames, answers and reconnects add
\* no step that the lock service does not have.
THEOREM MeshImplementsLocks == MeshSpec => Spec
  <1>1. MeshInit => Init
    BY DEF MeshInit
  <1>2. MeshInv /\ [MeshNext]_meshVars => [Next]_vars
    BY MeshStep DEF MeshInv
  <1> QED
    BY <1>1, <1>2, MeshInductive, PTL DEF MeshSpec, Spec

\* So no two tasks hold one lock, and no request is stranded in a queue.
THEOREM MeshKeepsLocks == MeshSpec => []MutualExclusion /\ []NoStrandedWaiter
  BY MeshImplementsLocks, MutexHolds, WaitersKept, PTL

\* Every lock granted over a connection that is up has somebody to release it (lock,
\* onLate, release).
THEOREM NoOrphans == MeshSpec => []NoOrphanGrant
  <1>1. MeshInv => NoOrphanGrant
    BY DEF MeshInv
  <1> QED
    BY <1>1, MeshInductive, PTL

\* A release or a hand-back ends the hold of its own grant only: the connection and the
\* token it names are those of no other request (release with a token, onLate).
THEOREM HandBackHolds == MeshSpec => HandBackIsHarmless
  <1> DEFINE Step ==
        \A c \in Conn, q \in Req : ReadsUnlock(c, q) /\ (Persistent \/ born[q] = incarnation) =>
          \A r \in Req \ {q} : status[r] = "held" => status'[r] = "held"
  <1>1. MeshInv => [Step]_meshVars
    <2> SUFFICES ASSUME MeshInv, NEW c \in Conn, NEW q \in Req, ReadsUnlock(c, q),
                        Persistent \/ born[q] = incarnation,
                        NEW r \in Req \ {q}, status[r] = "held"
                 PROVE  status'[r] = "held"
      OBVIOUS
    <2>1. toBroker[c] # <<>> /\ Head(toBroker[c]) = <<"UNLOCK", q>> /\ toBroker[c] \in Seq(Frame)
      BY DEF ReadsUnlock, MeshInv, MeshTypeOK
    <2>2. HandleUnlock(c, q)
      BY <2>1 DEF ReadsUnlock, Read
    <2>3. status[q] \in {"held", "past"}
      BY <2>1, HeadFacts DEF MeshInv, ReleasesAreOfGrants
    <2>4. granted[q] # NoToken /\ granted[r] # NoToken
      BY <2>3 DEF MeshInv, IInv, GrantsHaveTokens
    <2>5. granted[q] # granted[r]
      BY <2>4 DEF MeshInv, IInv, TokensUnique, HolderOnRecord
    <2>6. CASE Unlock(c, KeyOf(q), granted[q])
      <3>1. token[KeyOf(q)] = granted[q]
        BY <2>4, <2>6 DEF Unlock
      <3>2. KeyOf(r) # KeyOf(q)
        BY <2>5, <3>1 DEF MeshInv, IInv, HolderOnRecord
      <3>3. FreeLock(KeyOf(q)) \/ HandOver(KeyOf(q)) \/ HandOverExhausted(KeyOf(q))
        BY <2>6 DEF Unlock
      <3> QED
        BY <3>2, <3>3, ReqFacts, ReleaseMoves DEF MeshInv
    <2>7. CASE UNCHANGED vars
      BY <2>7 DEF vars, history
    <2> QED
      BY <2>2, <2>6, <2>7 DEF HandleUnlock
  <1> QED
    BY <1>1, MeshInductive, PTL DEF HandBackIsHarmless
=============================================================================
