------------------------------ MODULE Producer ------------------------------
(***************************************************************************)
(* The idempotent producer: a client that publishes to one channel with a  *)
(* sequence number per message and retries what is not answered            *)
(* (src/src/client.js, _publishWithRetry), and the broker that recognises  *)
(* the repeats in a sliding window (src/src/broker.js, _dedupSeen).        *)
(*                                                                         *)
(* Each link is a FIFO stream in both directions.  What is left of the     *)
(* stream to the broker when a link breaks is lost, or is read late, with  *)
(* the next link already in use.                                           *)
(***************************************************************************)
EXTENDS Integers, FiniteSets, Sequences, SequencesExt

CONSTANTS
    Window,        \* dedupWindow
    Retention,     \* pubRetentionMax, for the messages that survive a restart
    Retries,       \* pubsub.retries
    Spread,        \* the program awaits a publish before it makes the Spread-th after it
    EarlyPublish,  \* may the program publish while its first HELLO is not answered
    MaxSeq,        \* bound: messages
    MaxBreaks,     \* bound: links that break
    MaxRestarts    \* bound: restarts of the broker

ASSUME ProducerAssumption ==
    /\ Window \in Nat \ {0} /\ Retention \in Nat /\ Retries \in Nat \ {0}
    /\ Spread \in Nat \ {0} /\ EarlyPublish \in BOOLEAN
    /\ MaxSeq \in Nat /\ MaxBreaks \in Nat /\ MaxRestarts \in Nat

\* Producer ids the broker may mint; 0 for a client that has none yet.
MaxPid == MaxBreaks + MaxRestarts + 1
Pid    == 1 .. MaxPid
NoPid  == 0
Seqs   == 1 .. MaxSeq

VARIABLES
    \* the client
    link,      \* "down", "hello" (connected, HELLO not answered) or "up"
    pid,       \* client.pid
    seq,       \* client._seq of the channel
    status,    \* where _publishWithRetry is for each message, and how it ended
    attempt,   \* its attempt
    \* the streams
    toBroker,
    toClient,
    late,      \* streams of earlier links the broker still reads
    \* the broker
    minted,    \* producer ids minted
    hi,        \* of the dedup entry of each producer id
    seen,
    log,       \* the messages accepted, the recovered ones first
    \* bounds, and for the properties only
    breaks,
    restarts,
    accepted   \* messages accepted by this broker or one before it

clientVars == <<link, pid, seq, status, attempt>>
brokerVars == <<minted, hi, seen, log, accepted>>
bounds     == <<breaks, restarts>>
vars == <<clientVars, toBroker, toClient, late, brokerVars, bounds>>

Hello   == [t : {"hello"}, pid : Pid \cup {NoPid}]
Request == [t : {"publish"}, pid : Pid \cup {NoPid}, seq : Seqs, attempt : 0 .. Retries]
Reply   == [t : {"welcome"}, pid : Pid] \cup [t : {"ok"}, seq : Seqs, attempt : 0 .. Retries]

\* "idle": not called.  "waiting": for the answer to a request.  "backoff": for the delay.
\* "offline": for the link.  "done", "failed": the promise has settled.
TypeOK ==
    /\ link \in {"down", "hello", "up"} /\ pid \in Pid \cup {NoPid} /\ seq \in 0 .. MaxSeq
    /\ status \in [Seqs -> {"idle", "waiting", "backoff", "offline", "done", "failed"}]
    /\ attempt \in [Seqs -> 0 .. Retries]
    /\ toBroker \in Seq(Hello \cup Request) /\ toClient \in Seq(Reply)
    /\ \A s \in late : s \in Seq(Hello \cup Request)
    /\ minted \in 0 .. MaxPid
    /\ hi \in [Pid -> 0 .. MaxSeq] /\ seen \in [Pid -> SUBSET Seqs]
    /\ log \in Seq([pid : Pid \cup {NoPid}, seq : Seqs])
    /\ breaks \in 0 .. MaxBreaks /\ restarts \in 0 .. MaxRestarts
    /\ accepted \subseteq Seqs

Init ==
    /\ link = "down" /\ pid = NoPid /\ seq = 0
    /\ status = [s \in Seqs |-> "idle"] /\ attempt = [s \in Seqs |-> 0]
    /\ toBroker = <<>> /\ toClient = <<>> /\ late = {}
    /\ minted = 0 /\ hi = [p \in Pid |-> 0] /\ seen = [p \in Pid |-> {}] /\ log = <<>>
    /\ breaks = 0 /\ restarts = 0 /\ accepted = {}

-----------------------------------------------------------------------------
(* The client *)

InFlight(s) == status[s] \in {"waiting", "backoff", "offline"}

\* Attempt n of message s: the producer id is read when it is sent.  With the link down
\* the request is rejected, and _publishWithRetry waits for the link if it may try again.
Try(s, n) ==
    /\ attempt' = [attempt EXCEPT ![s] = n]
    /\ IF link # "down"
       THEN /\ status' = [status EXCEPT ![s] = "waiting"]
            /\ toBroker' = Append(toBroker, [t |-> "publish", pid |-> pid, seq |-> s,
                                             attempt |-> n])
       ELSE /\ status' = [status EXCEPT ![s] = IF n < Retries THEN "offline" ELSE "failed"]
            /\ UNCHANGED toBroker

\* publish, up to its first await.
Publish ==
    LET s == seq + 1 IN
    /\ s \in Seqs
    /\ \A r \in Seqs : InFlight(r) => s - r < Spread
    /\ EarlyPublish \/ link # "hello" \/ pid # NoPid
    /\ seq' = s
    /\ Try(s, 0)
    /\ UNCHANGED <<link, pid, toClient, late, brokerVars, bounds>>

\* The timer of a request runs out.
Timeout(s) ==
    /\ status[s] = "waiting" /\ attempt[s] < Retries
    /\ status' = [status EXCEPT ![s] = "backoff"]
    /\ UNCHANGED <<link, pid, seq, attempt, toBroker, toClient, late, brokerVars, bounds>>

\* The delay is over, or the link is back.
Retry(s) ==
    /\ status[s] = "backoff" \/ (status[s] = "offline" /\ link = "up")
    /\ Try(s, attempt[s] + 1)
    /\ UNCHANGED <<link, pid, seq, toClient, late, brokerVars, bounds>>

\* The deadline of the publish has come.
GiveUp(s) ==
    /\ InFlight(s)
    /\ status' = [status EXCEPT ![s] = "failed"]
    /\ UNCHANGED <<link, pid, seq, attempt, toBroker, toClient, late, brokerVars, bounds>>

\* _open: says HELLO with the producer id it has.
Connect ==
    /\ link = "down"
    /\ link' = "hello"
    /\ toBroker' = <<[t |-> "hello", pid |-> pid]>>
    /\ UNCHANGED <<pid, seq, status, attempt, toClient, late, brokerVars, bounds>>

\* An answer settles the request it belongs to; one that comes after its timer does nothing.
ClientReceive ==
    /\ toClient # <<>>
    /\ LET m == Head(toClient) IN
        IF m.t = "welcome"
        THEN link' = "up" /\ pid' = m.pid /\ UNCHANGED status
        ELSE /\ status' = IF status[m.seq] = "waiting" /\ attempt[m.seq] = m.attempt
                          THEN [status EXCEPT ![m.seq] = "done"] ELSE status
             /\ UNCHANGED <<link, pid>>
    /\ toClient' = Tail(toClient)
    /\ UNCHANGED <<seq, attempt, toBroker, late, brokerVars, bounds>>

\* The client sees its link close: requests are rejected, and retried on the next link.
Disconnected ==
    status' = [s \in Seqs |-> IF status[s] # "waiting" THEN status[s]
                              ELSE IF attempt[s] < Retries THEN "offline" ELSE "failed"]

Break ==
    /\ link # "down" /\ breaks < MaxBreaks
    /\ breaks' = breaks + 1
    /\ link' = "down" /\ toBroker' = <<>> /\ toClient' = <<>>
    /\ Disconnected
    /\ \E n \in 0 .. Len(toBroker) :
           late' = IF n = 0 THEN late ELSE late \cup {SubSeq(toBroker, 1, n)}
    /\ UNCHANGED <<pid, seq, attempt, brokerVars, restarts>>

-----------------------------------------------------------------------------
(* The broker *)

\* Mutant of Duplicate: everything up to the highest is a repeat.
DuplicateBelow(p, s) == s <= hi[p]

\* _dedupSeen: is message s of producer p one that was accepted before?
Duplicate(p, s) == s <= hi[p] /\ (s > hi[p] - Window => s \in seen[p])

\* What _dedupSeen remembers after it has accepted s.
Remembered(p, s) ==
    LET all == seen[p] \cup {s} IN
    IF s > hi[p] /\ Cardinality(all) > 2 * Window THEN {r \in all : r > s - Window} ELSE all

\* A message is accepted: retained, and sent to the subscribers.
Accept(p, s) ==
    /\ log' = Append(log, [pid |-> p, seq |-> s])
    /\ accepted' = accepted \cup {s}
    /\ IF p = NoPid THEN UNCHANGED <<hi, seen>>
       ELSE /\ hi' = [hi EXCEPT ![p] = IF s > @ THEN s ELSE @]
            /\ seen' = [seen EXCEPT ![p] = Remembered(p, s)]

\* Mutant of NextPid: a new id for every link.
NextPidAlways(p) == minted + 1

\* HELLO: the id the client presents, or a new one.
NextPid(p) == IF p = NoPid THEN minted + 1 ELSE p

\* What the broker does with message m of a stream, and its answer.
Handle(m) ==
    IF m.t = "hello"
    THEN /\ minted' = IF NextPid(m.pid) > minted THEN NextPid(m.pid) ELSE minted
         /\ UNCHANGED <<hi, seen, log, accepted>>
    ELSE /\ IF m.pid # NoPid /\ Duplicate(m.pid, m.seq)
            THEN UNCHANGED <<hi, seen, log, accepted>>
            ELSE Accept(m.pid, m.seq)
         /\ UNCHANGED minted

Answer(m) == IF m.t = "hello" THEN [t |-> "welcome", pid |-> NextPid(m.pid)]
             ELSE [t |-> "ok", seq |-> m.seq, attempt |-> m.attempt]

BrokerReceive ==
    /\ toBroker # <<>>
    /\ Handle(Head(toBroker))
    /\ toClient' = Append(toClient, Answer(Head(toBroker)))
    /\ toBroker' = Tail(toBroker)
    /\ UNCHANGED <<clientVars, late, bounds>>

\* From a link the client has given up; nobody hears the answer.
BrokerReceiveLate ==
    /\ \E s \in late :
        /\ Handle(Head(s))
        /\ late' = (late \ {s}) \cup (IF Len(s) = 1 THEN {} ELSE {Tail(s)})
    /\ UNCHANGED <<clientVars, toBroker, toClient, bounds>>

\* _recoverPub, one record after the other, with the mark of each.
Recover(msgs) ==
    /\ log' = msgs
    /\ hi' = [p \in Pid |->
                Max({0} \cup {msgs[i].seq : i \in {j \in DOMAIN msgs : msgs[j].pid = p}})]
    /\ seen' = [p \in Pid |->
                {msgs[i].seq : i \in {j \in DOMAIN msgs : msgs[j].pid = p}}]

\* The broker dies and comes back.  The log on disk starts no later than the oldest message
\* retained; its end may be missing.
Restart ==
    /\ restarts < MaxRestarts
    /\ restarts' = restarts + 1
    /\ \E from \in 1 .. (Max({0, Len(log) - Retention}) + 1), to \in 0 .. Len(log) :
           Recover(SubSeq(log, from, to))
    /\ link' = "down" /\ toBroker' = <<>> /\ toClient' = <<>> /\ late' = {}
    /\ Disconnected
    /\ UNCHANGED <<pid, seq, attempt, minted, breaks, accepted>>

-----------------------------------------------------------------------------

Next ==
    \/ Publish \/ Connect \/ ClientReceive \/ Break
    \/ \E s \in Seqs : Timeout(s) \/ Retry(s) \/ GiveUp(s)
    \/ BrokerReceive \/ BrokerReceiveLate \/ Restart

Spec == Init /\ [][Next]_vars

-----------------------------------------------------------------------------
(* Properties *)

\* However often a publish is retried, over whatever links and late streams, a broker
\* accepts it at most once, and not again when it has recovered it after a restart.
AcceptedOnce == \A i, j \in DOMAIN log : log[i].seq = log[j].seq => i = j

\* A publish() that resolves, be it because the broker took it for a repeat, was accepted.
ResolvedIsAccepted == \A s \in Seqs : status[s] = "done" => s \in accepted

-----------------------------------------------------------------------------
(* The inductive invariant behind them                                     *)

\* What is under way to the broker.
Sent == ToSet(toBroker) \cup UNION {ToSet(s) : s \in late}

\* Messages are numbered in turn, and one that is in flight has not fallen behind.
PublishesAgree ==
    /\ \A s \in Seqs : status[s] = "idle" <=> s > seq
    /\ \A s \in Seqs : InFlight(s) => seq - s < Spread
    /\ \A s \in Seqs : status[s] \in {"backoff", "offline"} => attempt[s] < Retries
    /\ \A m \in Sent : m.t = "publish" => m.seq <= seq

\* What the broker remembers, it has accepted.
MemoryAgrees ==
    /\ \A p \in Pid : hi[p] <= seq /\ seen[p] \subseteq accepted
    /\ \A i \in DOMAIN log : log[i].seq \in accepted
    /\ \A s \in accepted : s <= seq

\* A link starts with HELLO, to which WELCOME is the first answer.
HelloFirst ==
    /\ link = "down" => toBroker = <<>> /\ toClient = <<>>
    /\ \A i \in DOMAIN toBroker : toBroker[i].t = "hello" =>
        i = 1 /\ link = "hello" /\ toClient = <<>> /\ toBroker[i].pid = pid
    /\ \A i \in DOMAIN toClient : toClient[i].t = "welcome" =>
        i = 1 /\ link = "hello" /\ toClient[i].pid <= minted /\ pid \in {NoPid, toClient[i].pid}
    /\ \A s \in late : s # <<>> /\ \A i \in DOMAIN s : s[i].t = "hello" => i = 1
    /\ link = "up" => pid # NoPid
    /\ pid <= minted /\ \A m \in Sent : m.pid <= minted

\* A link asks for an id once at most, so there are ids for all.
LateHellos == {s \in late : s[1].t = "hello" /\ s[1].pid = NoPid}
Asking     == toBroker # <<>> /\ toBroker[1].t = "hello" /\ pid = NoPid
IdsSuffice ==
    /\ IsFiniteSet(late)
    /\ minted + Cardinality(LateHellos) + (IF Asking THEN 1 ELSE 0)
        <= breaks + restarts + (IF link = "down" THEN 0 ELSE 1)

IInv ==
    /\ TypeOK
    /\ PublishesAgree
    /\ MemoryAgrees
    /\ HelloFirst
    /\ IdsSuffice

\* What the broker answers "ok" it has accepted, or nobody waits for any more.
AnswersAgree ==
    \A m \in ToSet(toClient) : m.t = "ok" =>
        m.seq <= seq /\ (m.seq \in accepted \/ ~InFlight(m.seq))

ResolvedInv == AnswersAgree /\ ResolvedIsAccepted

\* All that a client publishes carries one id, unless it publishes before it has any, ...
OneId ==
    /\ \A s \in Seqs : status[s] \in {"waiting", "backoff"} => pid # NoPid
    /\ \A m \in Sent : m.t = "publish" => pid # NoPid /\ m.pid = pid
    /\ \A i \in DOMAIN log : pid # NoPid /\ log[i].pid = pid

\* ... and what the broker retains of it, the window covers.
WindowCovers ==
    \A i \in DOMAIN log :
        /\ log[i].seq <= hi[pid]
        /\ log[i].seq > hi[pid] - Window => log[i].seq \in seen[pid]

OnceInv == OneId /\ WindowCovers /\ AcceptedOnce
=============================================================================
