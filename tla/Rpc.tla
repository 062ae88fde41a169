-------------------------------- MODULE Rpc --------------------------------
(***************************************************************************)
(* Remote procedure calls: the pool of workers of one procedure name in    *)
(* the broker (src/src/broker.js, "rpc"), and the two ends of a call in    *)
(* the clients (src/src/client.js): register, unregister and call on the   *)
(* one side, the handler on the other.                                     *)
(*                                                                         *)
(* A session is one socket between a client and the broker, with a FIFO    *)
(* stream of messages in each direction.  Its two ends close one after the *)
(* other, and what was under way when an end closes is lost.               *)
(***************************************************************************)
EXTENDS Integers, FiniteSets, Sequences, SequencesExt

CONSTANTS
    Caller,       \* clients that call the procedure
    Worker,       \* clients that may register a handler for it
    Slot,         \* tells apart the calls of one client
    NoClient,
    Overlap,      \* may connect() run while a reconnect is scheduled
    MaxSession,   \* bound: sessions
    MaxToggles,   \* bound: register() and unregister() calls
    MaxRestarts   \* bound: restarts of the broker

Client  == Caller \cup Worker
Session == 1 .. MaxSession
Call    == Caller \X Slot
CallerOf(k) == k[1]
NoSession == 0

ASSUME RpcAssumption ==
    /\ IsFiniteSet(Caller) /\ IsFiniteSet(Worker)
    /\ NoClient \notin Client
    /\ Overlap \in BOOLEAN
    /\ MaxSession \in Nat /\ MaxToggles \in Nat /\ MaxRestarts \in Nat

VARIABLES
    opener,       \* the client that opened a session
    ends,         \* which ends of a session are open
    toBroker,     \* the stream from the client
    toClient,     \* the stream from the broker
    peer,         \* client.peer
    retry,        \* client._reconnectTimer is running
    handles,      \* client.handlers has the name
    toggles,      \* register() and unregister() calls so far
    call,         \* what became of each call: client.pending and after
    jobs,         \* handlers running: _onInvoke between its await and its reply
    workers,      \* procs.get(name).workers in insertion order, <<>> for no entry
    inflight,     \* procs.get(name).inflight, 0 for sessions without an entry
    pending,      \* broker.pending
    nextCallId,   \* broker.nextCallId
    restarts      \* restarts of the broker so far

linkVars   == <<opener, ends, peer, retry>>
clientVars == <<handles, toggles, call, jobs>>
brokerVars == <<workers, inflight, pending, nextCallId, restarts>>
vars == <<linkVars, toBroker, toClient, clientVars, brokerVars>>

\* "answered": by the handler.  "refused": by an error of the broker, or of a
\* worker without the handler.  "timeout", "lost": given up by the client.
Outcome == {"answered", "refused", "timeout", "lost"}

ToBrokerMsg ==
    [t : {"register", "unregister"}]
    \cup [t : {"call"}, call : Call]
    \cup [t : {"result"}, id : Nat, of : Call, ok : BOOLEAN, via : Session]
ToClientMsg ==
    [t : {"invoke"}, id : Nat, call : Call]
    \cup [t : {"answer"}, call : Call, of : Call, ok : BOOLEAN]

TypeOK ==
    /\ opener \in [Session -> Client \cup {NoClient}]
    /\ ends \in [Session -> SUBSET {"client", "broker"}]
    /\ toBroker \in [Session -> Seq(ToBrokerMsg)]
    /\ toClient \in [Session -> Seq(ToClientMsg)]
    /\ peer \in [Client -> Session \cup {NoSession}]
    /\ retry \in [Client -> BOOLEAN]
    /\ handles \in [Worker -> BOOLEAN]
    /\ toggles \in Nat
    /\ call \in [Call -> {"idle", "pending"} \cup Outcome]
    /\ jobs \subseteq [by : Worker, peer : Session \cup {NoSession}, via : Session,
                 id : Nat, call : Call]
    /\ workers \in Seq(Session)
    /\ inflight \in [Session -> Nat]
    /\ pending \subseteq [id : Nat, from : Session, call : Call, owner : Session]
    /\ nextCallId \in Nat
    /\ restarts \in Nat

Init ==
    /\ opener = [s \in Session |-> NoClient]
    /\ ends = [s \in Session |-> {}]
    /\ toBroker = [s \in Session |-> <<>>]
    /\ toClient = [s \in Session |-> <<>>]
    /\ peer = [c \in Client |-> NoSession]
    /\ retry = [c \in Client |-> FALSE]
    /\ handles \in [Worker -> BOOLEAN]
    /\ toggles = 0
    /\ call = [k \in Call |-> "idle"]
    /\ jobs = {}
    /\ workers = <<>>
    /\ inflight = [s \in Session |-> 0]
    /\ pending = {}
    /\ nextCallId = 1
    /\ restarts = 0

-----------------------------------------------------------------------------
(* Sessions *)

ToBroker(s, m) ==
    toBroker' = [toBroker EXCEPT ![s] = IF "broker" \in ends[s] THEN Append(@, m) ELSE @]

\* The client opens a session; registrations are replayed on it (_replay).
\* connect() runs with no link; a reconnect timer fires whatever the link is.
Connect(c) ==
    \E s \in Session :
        /\ opener[s] = NoClient /\ \A r \in 1 .. (s - 1) : opener[r] # NoClient
        /\ \/ /\ peer[c] = NoSession
              /\ Overlap \/ ~retry[c]
              /\ UNCHANGED retry
           \/ /\ retry[c]
              /\ retry' = [retry EXCEPT ![c] = FALSE]
        /\ opener' = [opener EXCEPT ![s] = c]
        /\ ends' = [ends EXCEPT ![s] = {"client", "broker"}]
        /\ peer' = [peer EXCEPT ![c] = s]
        /\ toBroker' = [toBroker EXCEPT ![s] =
             IF c \in Worker /\ handles[c] THEN <<[t |-> "register"]>> ELSE <<>>]
        /\ UNCHANGED <<toClient, clientVars, brokerVars>>

\* The client's end closes: the broker closed its own, or the link broke.
\* If it was the current one, _onClose rejects what was pending.
ClientCloses(s) ==
    LET c == opener[s]
    IN  /\ "client" \in ends[s]
        /\ ends' = [ends EXCEPT ![s] = @ \ {"client"}]
        /\ toClient' = [toClient EXCEPT ![s] = <<>>]
        /\ IF peer[c] = s
           THEN /\ peer' = [peer EXCEPT ![c] = NoSession]
                /\ retry' = [retry EXCEPT ![c] = TRUE]
                /\ call' = [k \in Call |->
                     IF CallerOf(k) = c /\ call[k] = "pending" THEN "lost" ELSE call[k]]
           ELSE UNCHANGED <<peer, retry, call>>
        /\ UNCHANGED <<opener, toBroker, handles, toggles, jobs, brokerVars>>

-----------------------------------------------------------------------------
(* The broker *)

\* _decInflight, n times over.
Less(w, n) == IF inflight[w] < n THEN 0 ELSE inflight[w] - n

\* _ok or _err for pending call p, if its caller is still connected.
Reply(p, ok, of) ==
    LET s == p.from
    IN  toClient' = [toClient EXCEPT ![s] =
            IF ends[s] = {"client", "broker"}
            THEN Append(@, [t |-> "answer", call |-> p.call, of |-> of, ok |-> ok])
            ELSE @]

\* _register
AddWorker(s) ==
    /\ workers' = IF s \in ToSet(workers) THEN workers ELSE Append(workers, s)
    /\ UNCHANGED <<toClient, inflight, pending, nextCallId>>

Remaining(s) ==
    IF s \in ToSet(workers)
    THEN RemoveAt(workers, CHOOSE i \in DOMAIN workers : workers[i] = s)
    ELSE workers

\* _unregister
RemoveWorker(s) ==
    /\ workers' = Remaining(s)
    /\ inflight' = [inflight EXCEPT ![s] = 0]
    /\ UNCHANGED <<toClient, pending, nextCallId>>

\* _pickWorker: the first of those with the fewest calls in flight.
LeastBusy ==
    workers[Min({i \in DOMAIN workers :
        \A j \in DOMAIN workers : inflight[workers[i]] <= inflight[workers[j]]})]

\* _call with nobody registered.
Refuse(s, k) ==
    /\ workers = <<>>
    /\ Reply([from |-> s, call |-> k], FALSE, k)
    /\ UNCHANGED <<workers, inflight, pending, nextCallId>>

\* _call
Dispatch(s, k) ==
    LET w == LeastBusy
    IN  /\ workers # <<>>
        /\ nextCallId' = nextCallId + 1
        /\ pending' = pending \cup {[id |-> nextCallId, from |-> s, call |-> k, owner |-> w]}
        /\ inflight' = [inflight EXCEPT ![w] = @ + 1]
        /\ toClient' = [toClient EXCEPT ![w] =
             IF "client" \in ends[w]
             THEN Append(@, [t |-> "invoke", id |-> nextCallId, call |-> k])
             ELSE @]
        /\ UNCHANGED <<workers>>

\* _result: only the worker a call was dispatched to may settle it.
Settle(s, m) ==
    IF \E p \in pending : p.id = m.id /\ p.owner = s
    THEN \E p \in pending :
            /\ p.id = m.id /\ p.owner = s
            /\ pending' = pending \ {p}
            /\ inflight' = [inflight EXCEPT ![s] = Less(s, 1)]
            /\ Reply(p, m.ok, m.of)
            /\ UNCHANGED <<workers, nextCallId>>
    ELSE UNCHANGED <<toClient, workers, inflight, pending, nextCallId>>

BrokerReceives(s) ==
    /\ "broker" \in ends[s] /\ toBroker[s] # <<>>
    /\ toBroker' = [toBroker EXCEPT ![s] = Tail(@)]
    /\ LET m == Head(toBroker[s])
       IN  \/ m.t = "register" /\ AddWorker(s)
           \/ m.t = "unregister" /\ RemoveWorker(s)
           \/ m.t = "call" /\ (Refuse(s, m.call) \/ Dispatch(s, m.call))
           \/ m.t = "result" /\ Settle(s, m)
    /\ UNCHANGED <<linkVars, clientVars, restarts>>

\* Mutants of ExpireCall: the entry stays; the count stays.
ExpireCallKept(p) ==
    /\ p \in pending
    /\ inflight' = [inflight EXCEPT ![p.owner] = Less(p.owner, 1)]
    /\ Reply(p, FALSE, p.call)
    /\ UNCHANGED <<linkVars, toBroker, clientVars, workers, pending, nextCallId, restarts>>
ExpireCallCounted(p) ==
    /\ p \in pending
    /\ pending' = pending \ {p}
    /\ Reply(p, FALSE, p.call)
    /\ UNCHANGED <<linkVars, toBroker, clientVars, workers, inflight, nextCallId, restarts>>

\* The timer of a pending call: the caller's timeout and a grace period.
ExpireCall(p) ==
    /\ p \in pending
    /\ pending' = pending \ {p}
    /\ inflight' = [inflight EXCEPT ![p.owner] = Less(p.owner, 1)]
    /\ Reply(p, FALSE, p.call)
    /\ UNCHANGED <<linkVars, toBroker, clientVars, workers, nextCallId, restarts>>

\* Mutant of Failed: nobody is told.
FailedNone(s) == {}

\* The calls that end when session s closes: those it was working on, which
\* fail, and those it made, which are dropped.
Owned(s)  == {p \in pending : p.owner = s}
Failed(s) == {p \in Owned(s) : p.from # s}
Made(s)   == {p \in pending : p.from = s}

\* The i-th of the pending calls ps, in the order of the pending table.
Nth(ps, i) == CHOOSE p \in ps : Cardinality({q \in ps : q.id < p.id}) = i - 1

\* EHANDLERGONE for the calls of session r.
Gone(s, r) ==
    LET ps == {p \in Failed(s) : p.from = r}
        Err(k) == [t |-> "answer", call |-> k, of |-> k, ok |-> FALSE]
    IN  [i \in 1 .. Cardinality(ps) |-> Err(Nth(ps, i).call)]

\* The broker's end closes: the client closed its own, or was reaped (_onClose).
BrokerCloses(s) ==
    /\ "broker" \in ends[s]
    /\ ends' = [ends EXCEPT ![s] = @ \ {"broker"}]
    /\ toBroker' = [toBroker EXCEPT ![s] = <<>>]
    /\ workers' = Remaining(s)
    /\ inflight' = [w \in Session |->
         IF w = s THEN 0 ELSE Less(w, Cardinality({p \in Made(s) : p.owner = w}))]
    /\ pending' = pending \ (Owned(s) \cup Made(s))
    /\ toClient' = [r \in Session |->
         IF ends[r] = {"client", "broker"} THEN toClient[r] \o Gone(s, r) ELSE toClient[r]]
    /\ UNCHANGED <<opener, peer, retry, clientVars, nextCallId, restarts>>

\* The broker process ends and another takes its place: call ids start over.
Restart ==
    /\ restarts < MaxRestarts
    /\ restarts' = restarts + 1
    /\ ends' = [s \in Session |-> ends[s] \ {"broker"}]
    /\ toBroker' = [s \in Session |-> <<>>]
    /\ workers' = <<>>
    /\ inflight' = [s \in Session |-> 0]
    /\ pending' = {}
    /\ nextCallId' = 1
    /\ UNCHANGED <<opener, peer, retry, toClient, clientVars>>

-----------------------------------------------------------------------------
(* The clients *)

\* Send to the broker on the current link, if there is one.
Tell(c, m) == IF peer[c] = NoSession THEN UNCHANGED toBroker ELSE ToBroker(peer[c], m)

\* register(), unregister()
Toggle(c) ==
    /\ toggles < MaxToggles
    /\ toggles' = toggles + 1
    /\ handles' = [handles EXCEPT ![c] = ~@]
    /\ Tell(c, [t |-> IF handles[c] THEN "unregister" ELSE "register"])
    /\ UNCHANGED <<linkVars, toClient, call, jobs, brokerVars>>

\* call(): without a link it is rejected on the spot.
SendCall(k) ==
    LET c == CallerOf(k)
    IN  /\ call[k] = "idle" /\ peer[c] # NoSession
        /\ call' = [call EXCEPT ![k] = "pending"]
        /\ ToBroker(peer[c], [t |-> "call", call |-> k])
        /\ UNCHANGED <<linkVars, toClient, handles, toggles, jobs, brokerVars>>

\* The timer of the request.
CallTimeout(k) ==
    /\ call[k] = "pending"
    /\ call' = [call EXCEPT ![k] = "timeout"]
    /\ UNCHANGED <<linkVars, toBroker, toClient, handles, toggles, jobs, brokerVars>>

Result(id, k, ok, via) == [t |-> "result", id |-> id, of |-> k, ok |-> ok, via |-> via]

\* _onInvoke up to the call of the handler.  It takes the link that is current
\* for the link the call arrived on.
StartJob(s, m) ==
    LET c == opener[s]
    IN  IF handles[c]
        THEN /\ jobs' = jobs \cup {[by |-> c, peer |-> peer[c], via |-> s,
                                    id |-> m.id, call |-> m.call]}
             /\ UNCHANGED <<toBroker, call>>
        ELSE /\ Tell(c, Result(m.id, m.call, FALSE, s))
             /\ UNCHANGED <<jobs, call>>

\* _settle: an answer to what is no longer pending is ignored.
TakeAnswer(m) ==
    /\ call' = [call EXCEPT ![m.call] =
         IF @ # "pending" THEN @ ELSE IF m.ok THEN "answered" ELSE "refused"]
    /\ UNCHANGED <<toBroker, jobs>>

ClientReceives(s) ==
    /\ "client" \in ends[s] /\ toClient[s] # <<>>
    /\ toClient' = [toClient EXCEPT ![s] = Tail(@)]
    /\ LET m == Head(toClient[s])
       IN  \/ m.t = "invoke" /\ StartJob(s, m)
           \/ m.t = "answer" /\ TakeAnswer(m)
    /\ UNCHANGED <<linkVars, handles, toggles, brokerVars>>

\* Mutant of FinishJob: replies on whatever link is current.
FinishJobAnywhere(j) ==
    /\ j \in jobs
    /\ jobs' = jobs \ {j}
    /\ Tell(j.by, Result(j.id, j.call, TRUE, j.via))
    /\ UNCHANGED <<linkVars, toClient, handles, toggles, call, brokerVars>>

\* The handler is done: _onInvoke replies if its link is still the current one.
FinishJob(j) ==
    /\ j \in jobs
    /\ jobs' = jobs \ {j}
    /\ IF j.peer # NoSession /\ peer[j.by] = j.peer
       THEN ToBroker(j.peer, Result(j.id, j.call, TRUE, j.via))
       ELSE UNCHANGED toBroker
    /\ UNCHANGED <<linkVars, toClient, handles, toggles, call, brokerVars>>

Next ==
    \/ \E c \in Client : Connect(c)
    \/ \E c \in Worker : Toggle(c)
    \/ \E k \in Call : SendCall(k) \/ CallTimeout(k)
    \/ \E s \in Session :
        ClientCloses(s) \/ BrokerCloses(s) \/ BrokerReceives(s) \/ ClientReceives(s)
    \/ \E p \in pending : ExpireCall(p)
    \/ \E j \in jobs : FinishJob(j)
    \/ Restart

Spec == Init /\ [][Next]_vars

\* Messages are read and closes noticed, and the broker's timers fire.  Nothing
\* is asked of handlers, of the timers of clients, nor of any link to stay.
FairSpec ==
    /\ Spec
    /\ \A s \in Session :
        /\ WF_vars(BrokerReceives(s))
        /\ WF_vars(ClientReceives(s))
        /\ WF_vars("broker" \notin ends[s] /\ ClientCloses(s))
    /\ \A k \in Call : WF_vars(\E p \in pending : p.call = k /\ ExpireCall(p))

-----------------------------------------------------------------------------
(* Properties *)

Load(w) == Cardinality(Owned(w))

\* "can't ... pin its inflight count (which would permanently skew least-busy
\* dispatch)" (broker.js:885-886): a worker never counts more calls than are
\* pending on it, nor less than none, whichever of _result, _expireCall,
\* _unregister and _onClose settled the others; and only workers count any.
InflightNotPinned ==
    \A s \in Session :
        /\ inflight[s] \in 0 .. Load(s)
        /\ s \notin ToSet(workers) => inflight[s] = 0

\* "Pick the least-busy worker for a proc (fewest in-flight calls)"
\* (broker.js:852).  Not so once a worker has registered anew with calls
\* pending: no run checks it, see README.md.
DispatchToLeastBusy ==
    [][\A p \in pending' \ pending :
        \A w \in ToSet(workers) : Load(p.owner) <= Load(w)]_vars

\* An answer settles the call it is the answer of: neither a call id that is
\* used again by another broker nor a late result misroutes one.
AnswerIsOwn ==
    \A s \in Session : \A i \in DOMAIN toClient[s] :
        toClient[s][i].t = "answer" => toClient[s][i].of = toClient[s][i].call

\* Where the streams hold a message of type t about call k.
InStream(stream, t, k) ==
    {x \in UNION {{s} \X DOMAIN stream[s] : s \in Session} :
        stream[x[1]][x[2]].t = t /\ stream[x[1]][x[2]].call = k}

\* A call is settled once, whichever of result, timer and close comes first: it
\* is on its way to the broker, or pending there, or its answer is on its way
\* back, or the client has it.
AnsweredOnce ==
    \A k \in Call :
        Cardinality(InStream(toBroker, "call", k)) + Cardinality({p \in pending : p.call = k})
        + Cardinality(InStream(toClient, "answer", k))
        + (IF call[k] \in {"answered", "refused"} THEN 1 ELSE 0) <= 1

\* Every call settles though handlers hang and the caller's own timer is slow:
\* the broker answers for workers that left or never reply.
EveryCallSettles == \A k \in Call : call[k] = "pending" ~> call[k] # "pending"

\* "Reply on the link the call ARRIVED on" (client.js:450).  Not so with Overlap: no run
\* checks it, see README.md.
ReplyOnArrivalLink ==
    \A s \in Session : \A i \in DOMAIN toBroker[s] :
        toBroker[s][i].t = "result" => toBroker[s][i].via = s

-----------------------------------------------------------------------------
(* The inductive invariant *)

\* What is on its way ends with the end it goes to, and no end is open before
\* its session is.
StreamsAgree ==
    \A s \in Session :
        /\ opener[s] = NoClient => ends[s] = {}
        /\ "broker" \notin ends[s] => toBroker[s] = <<>>
        /\ "client" \notin ends[s] => toClient[s] = <<>>

\* The links of clients, and of their jobs, are sessions of theirs.
LinksAgree ==
    /\ \A c \in Client : peer[c] # NoSession => opener[peer[c]] = c
    /\ \A j \in jobs : j.peer # NoSession => opener[j.peer] = j.by

\* Only who may register does, and only who did is sent calls.
WorkersServe ==
    /\ \A i, j \in DOMAIN workers : workers[i] = workers[j] => i = j
    /\ \A w \in ToSet(workers) : opener[w] \in Worker
    /\ \A s \in Session : \A i \in DOMAIN toBroker[s] :
        toBroker[s][i].t = "register" => opener[s] \in Worker
    /\ \A s \in Session : \A i \in DOMAIN toClient[s] :
        toClient[s][i].t = "invoke" => opener[s] \in Worker

\* The ids in the pending table are keys, and used once.
IdsUnique ==
    /\ IsFiniteSet(pending)
    /\ \A p \in pending : p.id < nextCallId
    /\ \A p, q \in pending : p.id = q.id => p = q

Matches(m, t, k) == m.t = t /\ m.call = k

AtMostOne(stream, t, k) ==
    \A s, r \in Session : \A i \in DOMAIN stream[s], j \in DOMAIN stream[r] :
        Matches(stream[s][i], t, k) /\ Matches(stream[r][j], t, k) => s = r /\ i = j
Nowhere(stream, t, k) ==
    \A s \in Session : \A i \in DOMAIN stream[s] : ~Matches(stream[s][i], t, k)
NotPending(k) == \A p \in pending : p.call # k

\* Call k is in one place at a time, and nowhere before it is made.
InOnePlace(k) ==
    /\ AtMostOne(toBroker, "call", k)
    /\ AtMostOne(toClient, "answer", k)
    /\ \A p, q \in pending : p.call = k /\ q.call = k => p = q
    /\ Nowhere(toBroker, "call", k) \/ NotPending(k)
    /\ Nowhere(toBroker, "call", k) \/ Nowhere(toClient, "answer", k)
    /\ NotPending(k) \/ Nowhere(toClient, "answer", k)
    /\ call[k] \in {"idle", "answered", "refused"} =>
        Nowhere(toBroker, "call", k) /\ NotPending(k) /\ Nowhere(toClient, "answer", k)
OnePlace == \A k \in Call : InOnePlace(k)

IInv ==
    TypeOK /\ StreamsAgree /\ LinksAgree /\ WorkersServe /\ IdsUnique
    /\ InflightNotPinned /\ OnePlace

\* A client's open end is its current one, unless connect() may overtake a
\* scheduled reconnect.
CurrentIsOpen ==
    /\ \A s \in Session : "client" \in ends[s] => peer[opener[s]] = s
    /\ \A c \in Client : retry[c] => peer[c] = NoSession

\* Call id `id` is of call k in the table of the broker, now and later.
IdIsOf(id, k) == id < nextCallId /\ \A p \in pending : p.id = id => p.call = k

\* What a session of the running broker carries about a call id is of its call.
IdsAgree ==
    \A s \in Session : "broker" \in ends[s] =>
        /\ \A i \in DOMAIN toClient[s] :
            toClient[s][i].t = "invoke" => IdIsOf(toClient[s][i].id, toClient[s][i].call)
        /\ \A j \in jobs : j.peer = s => IdIsOf(j.id, j.call)
        /\ \A i \in DOMAIN toBroker[s] :
            toBroker[s][i].t = "result" => IdIsOf(toBroker[s][i].id, toBroker[s][i].of)

OwnInv == CurrentIsOpen /\ IdsAgree /\ AnswerIsOwn

\* A handler took the link its call arrived on for the current one, and rightly.
ArrivalInv == (\A j \in jobs : j.peer = j.via) /\ ReplyOnArrivalLink
=============================================================================
