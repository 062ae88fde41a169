---------------------------- MODULE LockManager ----------------------------
(***************************************************************************)
(* The broker's lock service: class LockManager (src/src/locks.js) driven  *)
(* by the LOCK, UNLOCK and FSET/FCAS/FDEL handlers, by its own TTL and     *)
(* wait timers, by the close of a connection and by a restart of the       *)
(* broker, together with the fencing-token counter of src/src/broker.js    *)
(* and the block reservation of src/src/persistence.js that makes the      *)
(* counter survive a crash.                                                *)
(*                                                                         *)
(* The broker runs on one event loop, so one handler or timer callback is  *)
(* one step.  A timer may fire in any state in which it is armed.          *)
(***************************************************************************)
EXTENDS Integers, FiniteSets, Functions

CONSTANTS
    Conn,         \* connections, over all incarnations of the broker
    Key,          \* lock keys
    Slot,         \* tells apart the LOCK requests of one connection for one key
    NoConn,       \* owner === null
    Persistent,   \* TRUE: a persist dir is configured, FALSE: NullPersistence
    TokenBlock,   \* TOKEN_BLOCK
    MaxToken,     \* Number.MAX_SAFE_INTEGER
    MaxRestarts   \* bound: restarts of the broker

ASSUME LockAssumption ==
    /\ NoConn \notin Conn
    /\ IsFiniteSet(Key)
    /\ Persistent \in BOOLEAN
    /\ TokenBlock \in Nat /\ TokenBlock >= 2
    /\ MaxToken \in Nat
    /\ MaxRestarts \in Nat

VARIABLES
    conn,         \* state of each connection
    owner,        \* lock.owner, NoConn also where the Map has no entry
    token,        \* lock.token, NoToken where it was never assigned
    armed,        \* lock.timer: is the TTL timer running
    waiters,      \* lock.waiters, as a set; its order is that of arrival
    arrival,      \* when a queued request was pushed
    arrivals,     \* how many requests were ever pushed
    nextToken,    \* broker.nextToken
    reserved,     \* persist.tokenReserved, which is also what is on disk
    fenceHigh,    \* locks.fenceHigh
    fenceFloor,   \* locks.fenceFloor
    value,        \* the state the lock guards: token of its last fenced writer
    status,       \* history: what became of each LOCK request
    granted,      \* history: the token its grant carried
    born,         \* history: the incarnation of the broker that granted it
    incarnation   \* history: restarts of the broker so far

lockVars  == <<owner, token, armed>>
queueVars == <<waiters, arrival, arrivals>>
fenceVars == <<nextToken, reserved, fenceHigh>>
bootVars  == <<fenceFloor, incarnation>>
history   == <<status, granted, born>>
vars == <<conn, lockVars, queueVars, fenceVars, bootVars, value, history>>

NoToken == 0

\* A LOCK request: who asked, for which key, and which of its requests it is.
Req == Conn \X Key \X Slot
ConnOf(r) == r[1]
KeyOf(r)  == r[2]
ReqOn(k)  == {r \in Req : KeyOf(r) = k}
ReqBy(c)  == {r \in Req : ConnOf(r) = c}

ConnState == {"new", "open", "closed"}
\* "past": granted, and the lock was freed or handed on since.
\* "denied": answered without the lock.  "dropped": never answered.
Status == {"idle", "waiting", "held", "past", "denied", "dropped"}

HeldOn(k) == {r \in ReqOn(k) : status[r] = "held"}

TypeOK ==
    /\ conn \in [Conn -> ConnState]
    /\ owner \in [Key -> Conn \cup {NoConn}]
    /\ token \in [Key -> Nat]
    /\ armed \in [Key -> BOOLEAN]
    /\ waiters \in [Key -> SUBSET Req]
    /\ arrival \in [Req -> Nat]
    /\ arrivals \in Nat
    /\ nextToken \in Nat
    /\ reserved \in Nat
    /\ fenceHigh \in [Key -> Nat]
    /\ fenceFloor \in Nat
    /\ value \in [Key -> Nat]
    /\ status \in [Req -> Status]
    /\ granted \in [Req -> Nat]
    /\ born \in [Req -> Nat]
    /\ incarnation \in Nat

Init ==
    /\ conn = [c \in Conn |-> "new"]
    /\ owner = [k \in Key |-> NoConn]
    /\ token = [k \in Key |-> NoToken]
    /\ armed = [k \in Key |-> FALSE]
    /\ waiters = [k \in Key |-> {}]
    /\ arrival = [r \in Req |-> 0]
    /\ arrivals = 0
    /\ nextToken = 0
    /\ reserved = 0
    /\ fenceHigh = [k \in Key |-> 0]
    /\ fenceFloor = 0
    /\ value = [k \in Key |-> NoToken]
    /\ status = [r \in Req |-> "idle"]
    /\ granted = [r \in Req |-> NoToken]
    /\ born = [r \in Req |-> 0]
    /\ incarnation = 0

-----------------------------------------------------------------------------
(* Fencing tokens: _mintToken, noteToken, bumpFence, getFenceHigh, _fence. *)

CanMint == nextToken < MaxToken

\* Math.ceil((n + 1) / TOKEN_BLOCK) * TOKEN_BLOCK
Reserve(n) == (n + TokenBlock) - ((n + TokenBlock) % TokenBlock)

\* Mutant of Noted: a block is reserved one token too late.
NotedLate(n) ==
    IF ~Persistent \/ n <= reserved + 1
    THEN {reserved}
    ELSE {Reserve(n)}

\* What the reservation may be once tokens nextToken+1..n are minted one by
\* one: unchanged, or that of the last of them to cross it, which is the
\* least block end that covers n.
Noted(n) ==
    IF ~Persistent \/ n <= reserved
    THEN {reserved}
    ELSE LET ends == {Reserve(i) : i \in (nextToken + 1) .. n}
         IN  {e \in ends : e >= n /\ \A f \in ends : f >= n => e <= f}

\* Mutant of MintUpTo: the counter is read but not advanced.
MintAgain(n) == nextToken' = nextToken /\ reserved' \in Noted(n)

MintUpTo(n) == nextToken' = n /\ reserved' \in Noted(n)

\* Mutant of Raised: a grant does not raise the bar.
RaisedNot(k, t) == fenceHigh[k]

Raised(k, t) == IF t > fenceHigh[k] THEN t ELSE fenceHigh[k]

FenceBar(k) ==
    IF fenceFloor > 0 /\ fenceFloor + 1 > fenceHigh[k]
    THEN fenceFloor + 1
    ELSE fenceHigh[k]

\* Mutants of FencePasses: token < high - 1, and token <= high, is rejected.
FencePassesPrevious(k, t) == t <= nextToken /\ t + 1 >= FenceBar(k)
FencePassesAbove(k, t) == t <= nextToken /\ t > FenceBar(k)

FencePasses(k, t) == t <= nextToken /\ t >= FenceBar(k)

-----------------------------------------------------------------------------
(* LockManager: acquire, release, releaseAll and the timers.               *)

\* Mutant of Heads: pop() for shift().
HeadsLast(k, gone) ==
    {r \in waiters[k] \ gone :
        \A s \in waiters[k] \ gone : arrival[r] >= arrival[s]}

\* The queue's head once the requests in gone have left it: what shift()
\* removes.
Heads(k, gone) ==
    {r \in waiters[k] \ gone :
        \A s \in waiters[k] \ gone : arrival[r] <= arrival[s]}

Open(c) == conn[c] = "new" /\ conn' = [conn EXCEPT ![c] = "open"]
           /\ UNCHANGED <<lockVars, queueVars, fenceVars, bootVars, value, history>>

\* Mutant of TimerSet: the old timer is cleared and no new one set.
TimerUnset(k) == [armed EXCEPT ![k] = FALSE]

TimerSet(k) == [armed EXCEPT ![k] = TRUE]

\* _grant: r becomes the owner, with a fresh token that raises the bar at once.
Grant(k, r) ==
    LET t == nextToken + 1
    IN  /\ CanMint
        /\ owner' = [owner EXCEPT ![k] = ConnOf(r)]
        /\ MintUpTo(t)
        /\ token' = [token EXCEPT ![k] = t]
        /\ fenceHigh' = [fenceHigh EXCEPT ![k] = Raised(k, t)]
        /\ armed' = TimerSet(k)
        /\ granted' = [granted EXCEPT ![r] = t]
        /\ born' = [born EXCEPT ![r] = incarnation]

\* Mutant of IsFree: the owner is not looked at.
IsFreeAlways(k) == TRUE

IsFree(k) == owner[k] = NoConn

AcquireFree(r) ==
    /\ IsFree(KeyOf(r))
    /\ Grant(KeyOf(r), r)
    /\ status' = [status EXCEPT ![r] = "held"]
    /\ UNCHANGED queueVars

\* mintToken throws EFENCEEXHAUSTED after the owner was assigned: the caller
\* gets an ERR, its connection keeps the lock and no TTL timer is armed.
AcquireExhausted(r) ==
    /\ IsFree(KeyOf(r))
    /\ ~CanMint
    /\ owner' = [owner EXCEPT ![KeyOf(r)] = ConnOf(r)]
    /\ status' = [status EXCEPT ![r] = "denied"]
    /\ UNCHANGED <<token, armed, queueVars, fenceVars, granted, born>>

\* The lock is taken and wait is 0.
AcquireRefused(r) ==
    /\ ~IsFree(KeyOf(r))
    /\ status' = [status EXCEPT ![r] = "denied"]
    /\ UNCHANGED <<lockVars, queueVars, fenceVars, granted, born>>

\* The lock is taken and wait is positive: queue behind everybody else.
AcquireWait(r) ==
    LET k == KeyOf(r)
    IN  /\ ~IsFree(k)
        /\ arrivals' = arrivals + 1
        /\ arrival' = [arrival EXCEPT ![r] = arrivals']
        /\ waiters' = [waiters EXCEPT ![k] = @ \cup {r}]
        /\ status' = [status EXCEPT ![r] = "waiting"]
        /\ UNCHANGED <<lockVars, fenceVars, granted, born>>

Acquire(r) ==
    /\ conn[ConnOf(r)] = "open"
    /\ status[r] = "idle"
    /\ AcquireFree(r) \/ AcquireExhausted(r) \/ AcquireRefused(r) \/ AcquireWait(r)
    /\ UNCHANGED <<conn, bootVars, value>>

\* _release(k) with nobody queued: the entry leaves the Map.
FreeLock(k) ==
    /\ waiters[k] = {}
    /\ owner' = [owner EXCEPT ![k] = NoConn]
    /\ token' = [token EXCEPT ![k] = NoToken]
    /\ armed' = [armed EXCEPT ![k] = FALSE]
    /\ status' = [r \in Req |-> IF r \in HeldOn(k) THEN "past" ELSE status[r]]
    /\ UNCHANGED <<queueVars, fenceVars, granted, born>>

\* _release(k) hands the lock to the head of the queue.
HandOver(k) ==
    \E next \in Heads(k, {}) :
        /\ Grant(k, next)
        /\ waiters' = [waiters EXCEPT ![k] = @ \ {next}]
        /\ arrival' = [arrival EXCEPT ![next] = 0]
        /\ status' = [r \in Req |-> IF r = next THEN "held"
                                    ELSE IF r \in HeldOn(k) THEN "past"
                                    ELSE status[r]]
        /\ UNCHANGED arrivals

\* The hand-over throws EFENCEEXHAUSTED: the head of the queue is shifted and
\* becomes owner, but neither its promise is resolved nor a timer armed.
HandOverExhausted(k) ==
    \E next \in Heads(k, {}) :
        /\ ~CanMint
        /\ owner' = [owner EXCEPT ![k] = ConnOf(next)]
        /\ armed' = [armed EXCEPT ![k] = FALSE]
        /\ waiters' = [waiters EXCEPT ![k] = @ \ {next}]
        /\ arrival' = [arrival EXCEPT ![next] = 0]
        /\ status' = [r \in Req |-> IF r = next THEN "dropped"
                                    ELSE IF r \in HeldOn(k) THEN "past"
                                    ELSE status[r]]
        /\ UNCHANGED <<token, arrivals, fenceVars, granted, born>>

\* Mutant of Unlock: the token is not compared.
UnlockByConn(c, k, t) ==
    /\ conn[c] = "open"
    /\ owner[k] = c
    /\ FreeLock(k) \/ HandOver(k) \/ HandOverExhausted(k)
    /\ UNCHANGED <<conn, bootVars, value>>

\* UNLOCK from connection c; t = NoToken stands for an UNLOCK without a token.
\* One that does not name the current grant changes nothing.
Unlock(c, k, t) ==
    /\ conn[c] = "open"
    /\ owner[k] = c
    /\ t # NoToken => token[k] = t
    /\ FreeLock(k) \/ HandOver(k) \/ HandOverExhausted(k)
    /\ UNCHANGED <<conn, bootVars, value>>

\* The TTL timer fires.  (When the hand-over cannot mint, the exception leaves
\* the timer callback and ends the process: see Restart.)
Expire(k) ==
    /\ armed[k]
    /\ FreeLock(k) \/ HandOver(k)
    /\ UNCHANGED <<conn, bootVars, value>>

\* The wait timer of a queued request fires.
WaitTimeout(r) ==
    /\ r \in waiters[KeyOf(r)]
    /\ waiters' = [waiters EXCEPT ![KeyOf(r)] = @ \ {r}]
    /\ arrival' = [arrival EXCEPT ![r] = 0]
    /\ status' = [status EXCEPT ![r] = "denied"]
    /\ UNCHANGED <<conn, lockVars, arrivals, fenceVars, bootVars, value, granted, born>>

\* What releaseAll(c) frees.
Owned(c) == {k \in Key : owner[k] = c}

\* Mutant of Handed: what the connection owned is dropped with its queue.
HandedNone(c) == {}

\* ... and what of it somebody else is waiting for.
Handed(c) == {k \in Owned(c) : waiters[k] \ ReqBy(c) # {}}

\* releaseAll: the queued requests of c leave every queue, then each lock c
\* owns is freed, or handed with token t[k] to next[k], the head of what is left.
ReleaseAll(c, next, t) ==
    LET heirs == {next[k] : k \in Handed(c)}
    IN  /\ \A k \in Handed(c) : next[k] \in Heads(k, ReqBy(c))
        /\ owner' = [k \in Key |-> IF k \in Handed(c) THEN ConnOf(next[k])
                                   ELSE IF k \in Owned(c) THEN NoConn
                                   ELSE owner[k]]
        /\ token' = [k \in Key |-> IF k \in Handed(c) THEN t[k]
                                   ELSE IF k \in Owned(c) THEN NoToken
                                   ELSE token[k]]
        /\ armed' = [k \in Key |-> IF k \in Handed(c) THEN TRUE
                                   ELSE IF k \in Owned(c) THEN FALSE
                                   ELSE armed[k]]
        /\ fenceHigh' = [k \in Key |-> IF k \in Handed(c) THEN Raised(k, t[k])
                                       ELSE fenceHigh[k]]
        /\ waiters' = [k \in Key |-> waiters[k] \ (ReqBy(c) \cup heirs)]
        /\ arrival' = [r \in Req |-> IF r \in ReqBy(c) \cup heirs THEN 0
                                     ELSE arrival[r]]
        /\ status' = [r \in Req |->
             IF r \in heirs THEN "held"
             ELSE IF status[r] = "held" /\ KeyOf(r) \in Owned(c) THEN "past"
             ELSE IF status[r] = "waiting" /\ r \in ReqBy(c) THEN "dropped"
             ELSE status[r]]
        /\ granted' = [r \in Req |-> IF r \in heirs THEN t[KeyOf(r)]
                                     ELSE granted[r]]
        /\ born' = [r \in Req |-> IF r \in heirs THEN incarnation
                                  ELSE born[r]]

\* A connection closes.  The locks it held are handed on in the order of the
\* Map, here any order, each with the next token.  (Out of tokens, the close
\* callback throws and ends the process: see Restart.)
Close(c) ==
    /\ conn[c] = "open"
    /\ conn' = [conn EXCEPT ![c] = "closed"]
    /\ LET n == nextToken + Cardinality(Handed(c))
       IN  /\ Handed(c) = {} \/ n <= MaxToken
           /\ MintUpTo(n)
           /\ \E next \in [Handed(c) -> Req],
                 t \in Bijection(Handed(c), (nextToken + 1) .. n) :
                ReleaseAll(c, next, t)
    /\ UNCHANGED <<arrivals, bootVars, value>>

\* A fenced mutation (FSET, FCAS, FDEL) naming r's lock and carrying r's token,
\* sent over any connection, long after r lost the lock perhaps.
\* A rejected one (EFENCED) changes nothing.
FencedWrite(r) ==
    LET k == KeyOf(r)
    IN  /\ \E c \in Conn : conn[c] = "open"
        /\ granted[r] # NoToken
        /\ FencePasses(k, granted[r])
        /\ fenceHigh' = [fenceHigh EXCEPT ![k] = Raised(k, granted[r])]
        /\ value' = [value EXCEPT ![k] = granted[r]]
        /\ UNCHANGED <<conn, lockVars, queueVars, nextToken, reserved, bootVars, history>>

\* The broker process ends (shutdown, crash, an exception out of a timer or a
\* close callback) and starts again: locks and fence bars are gone, the token
\* counter and the fence floor are seeded from the reservation on disk.
\* What was written since the log was last flushed may be lost with it.
Restart ==
    /\ incarnation < MaxRestarts
    /\ incarnation' = incarnation + 1
    /\ conn' = [c \in Conn |-> IF conn[c] = "open" THEN "closed" ELSE conn[c]]
    /\ owner' = [k \in Key |-> NoConn]
    /\ token' = [k \in Key |-> NoToken]
    /\ armed' = [k \in Key |-> FALSE]
    /\ waiters' = [k \in Key |-> {}]
    /\ arrival' = [r \in Req |-> 0]
    /\ nextToken' = IF Persistent THEN reserved ELSE 0
    /\ fenceFloor' = nextToken'
    /\ fenceHigh' = [k \in Key |-> 0]
    /\ value' \in {[k \in Key |-> NoToken]} \cup (IF Persistent THEN {value} ELSE {})
    /\ status' = [r \in Req |-> CASE status[r] = "held" -> "past"
                                  [] status[r] = "waiting" -> "dropped"
                                  [] OTHER -> status[r]]
    /\ UNCHANGED <<arrivals, reserved, granted, born>>

Tokens(k) == {granted[r] : r \in ReqOn(k)} \cup {NoToken}

Next ==
    \/ \E c \in Conn : Open(c) \/ Close(c)
    \/ \E r \in Req : Acquire(r) \/ WaitTimeout(r) \/ FencedWrite(r)
    \/ \E c \in Conn, k \in Key : \E t \in Tokens(k) : Unlock(c, k, t)
    \/ \E k \in Key : Expire(k)
    \/ Restart

Spec == Init /\ [][Next]_vars

\* The TTL timer of an owned lock does fire.  Nothing else is owed: a client
\* may never release, never disconnect, and a wait may be as long as it likes.
FairSpec == Spec /\ \A k \in Key : WF_vars(Expire(k))
-----------------------------------------------------------------------------
(* Properties *)

\* A request that was told it has the lock, and neither gave it back nor lost
\* it, is the one the lock's record names; so no two requests hold one key,
\* whichever of _grant, _release and releaseAll ran in between.
MutualExclusion ==
    /\ \A r \in Req : status[r] = "held" =>
        owner[KeyOf(r)] = ConnOf(r) /\ token[KeyOf(r)] = granted[r]
    /\ \A r, s \in Req :
        status[r] = "held" /\ status[s] = "held" /\ KeyOf(r) = KeyOf(s) => r = s

\* A queued request is never stranded: it is in the queue of its key, behind an
\* owner whose release will shift the queue, and its connection is open, so
\* _gcIfEmpty never drops an entry with waiters and releaseAll leaves none.
NoStrandedWaiter ==
    \A k \in Key :
        /\ waiters[k] = {r \in ReqOn(k) : status[r] = "waiting"}
        /\ waiters[k] # {} => owner[k] # NoConn
        /\ \A r \in waiters[k] : conn[ConnOf(r)] = "open"

\* A lock is owned by an open connection only, so a client that died cannot
\* keep it, and a TTL timer is running for it unless the tokens ran out.
OwnedLockExpires ==
    \A k \in Key : owner[k] # NoConn =>
        /\ conn[owner[k]] = "open"
        /\ armed[k] \/ ~CanMint

\* Two grants never carry the same token; with a persist dir not even across
\* crashes, because a block of tokens is reserved on disk before its first use.
TokensUnique ==
    \A r, s \in Req :
        /\ r # s /\ granted[r] # NoToken /\ granted[s] # NoToken
        /\ Persistent \/ born[r] = born[s]
        => granted[r] # granted[s]

\* Once a lock was granted again, the write gate never passes the token of an
\* earlier grant of this incarnation, whatever was written in between.
SupersededIsFenced ==
    \A r, s \in Req :
        /\ KeyOf(r) = KeyOf(s) /\ NoToken # granted[r] /\ granted[r] < granted[s]
        /\ born[s] = incarnation
        => ~FencePasses(KeyOf(r), granted[r])

\* The gate never turns away the request that does hold the lock.
HolderIsNotFenced ==
    \A r \in Req : status[r] = "held" => FencePasses(KeyOf(r), granted[r])

\* "A broker restart counts as every lock expiring: tokens issued before the
\* restart are rejected" (src/README.md:232).
RestartRejectsOldTokens ==
    \A r \in Req :
        granted[r] # NoToken /\ born[r] < incarnation =>
            ~FencePasses(KeyOf(r), granted[r])

\* Contenders queue FIFO (locks.js:5): a request gets the lock, on a free lock
\* as well as by a hand-over, only if nobody who was queued before it for the
\* same key is left waiting.
NoOvertaking ==
    [][\A r \in Req : status[r] # "held" /\ status'[r] = "held" =>
        \A s \in waiters[KeyOf(r)] :
            (r \notin waiters[KeyOf(r)] \/ arrival[s] < arrival[r])
                => status'[s] # "waiting"]_vars

\* "A late release after a TTL overrun can't free the next holder's lock"
\* (src/README.md:208): what a release with a token ends is the hold that was
\* granted with it, though the next holder may be on the same connection.
ReleaseEndsOwnGrant ==
    [][\A c \in Conn, k \in Key : \A t \in Tokens(k) \ {NoToken} :
        Unlock(c, k, t) =>
            \A r \in Req : status[r] = "held" /\ status'[r] # "held" =>
                granted[r] = t]_vars

\* The guarded state never goes back to the write of an earlier holder: only
\* the loss of the state in a restart lowers the token of its last writer.
WritesFollowGrants ==
    [][incarnation' = incarnation => \A k \in Key : value'[k] >= value[k]]_vars

\* Nobody waits forever behind a holder that hangs: the TTLs alone get every
\* queued request an answer, or its connection is gone.
EveryWaiterIsAnswered ==
    \A r \in Req : status[r] = "waiting" ~> status[r] # "waiting"

\* One lock as FencedMutex sees it.
Mutex(k) == INSTANCE FencedMutex WITH
    Task    <- ReqOn(k),
    holders <- HeldOn(k),
    granted <- [r \in ReqOn(k) |-> granted[r]],
    value   <- value[k]

\* Each lock of a persistent broker keeps the promise of FencedMutex.
ImplementsMutex ==
    /\ \A k \in Key : Mutex(k)!Init
    /\ [][\A k \in Key : Mutex(k)!Next \/ UNCHANGED Mutex(k)!vars]_vars

-----------------------------------------------------------------------------
(* The inductive invariant behind the state properties above. *)

\* A request has a token exactly when it was granted the lock.
GrantsHaveTokens ==
    \A r \in Req : granted[r] # NoToken <=> status[r] \in {"held", "past"}

\* The holder is the owner on record, granted by this incarnation of the
\* broker, and with a persist dir its token is the highest its key has seen.
HolderOnRecord ==
    \A r \in Req : status[r] = "held" =>
        /\ owner[KeyOf(r)] = ConnOf(r)
        /\ token[KeyOf(r)] = granted[r]
        /\ born[r] = incarnation
        /\ Persistent => fenceHigh[KeyOf(r)] = granted[r]

\* Tokens of this incarnation lie above the floor and below the counter and
\* the bar of their key; older ones, with a persist dir, at or below the floor.
TokensBounded ==
    \A r \in Req : granted[r] # NoToken =>
        /\ born[r] <= incarnation
        /\ born[r] = incarnation =>
            /\ granted[r] <= nextToken
            /\ granted[r] <= fenceHigh[KeyOf(r)]
            /\ fenceFloor < granted[r]
        /\ Persistent /\ born[r] < incarnation => granted[r] <= fenceFloor

\* The counter never passes the reservation on disk, nor drops below the floor.
CounterReserved ==
    /\ fenceFloor <= nextToken
    /\ Persistent => nextToken <= reserved
    /\ ~Persistent => fenceFloor = 0
    /\ \A k \in Key : fenceHigh[k] <= nextToken

\* What was written is not above the bar.
WritesBelowBar ==
    \A k \in Key : value[k] <= fenceHigh[k] \/ value[k] <= fenceFloor

IInv ==
    /\ TypeOK
    /\ NoStrandedWaiter
    /\ OwnedLockExpires
    /\ GrantsHaveTokens
    /\ HolderOnRecord
    /\ TokensBounded
    /\ CounterReserved
    /\ WritesBelowBar
    /\ TokensUnique
=============================================================================
