------------------------------- MODULE PubSub -------------------------------
(***************************************************************************)
(* Publish/subscribe with retention: channels of a broker that retains     *)
(* messages (src/src/broker.js), and a client whose subscriptions follow   *)
(* it over lost links and restarts (src/src/client.js).                    *)
(*                                                                         *)
(* Messages are numbered in the order of their publication.  The client    *)
(* and the broker talk over one FIFO stream in each direction; when the    *)
(* link breaks, both streams are lost.                                     *)
(***************************************************************************)
EXTENDS Integers, FiniteSets, Sequences, SequencesExt

CONSTANTS
    Channel,
    Sub,              \* subscription strings: channels and patterns
    Matches,          \* which channel each of them matches: pairs
    NoSub,
    Durables,         \* does the broker have a persist dir: a set of booleans
    Retention,        \* pubRetentionMax
    OffsetBlock,      \* OFFSET_BLOCK
    Interrupts,       \* may the program unsubscribe while _replay resubscribes
    MaxPublished,     \* bound: messages
    MaxBreaks,        \* bound: breaks of the link
    MaxRestarts,      \* bound: restarts of the broker
    MaxCalls          \* bound: subscribe() and unsubscribe() calls

ASSUME PubSubAssumption ==
    /\ IsFiniteSet(Channel) /\ IsFiniteSet(Sub)
    /\ Matches \subseteq Sub \X Channel
    /\ NoSub \notin Sub
    /\ Durables # {} /\ Durables \subseteq BOOLEAN /\ Interrupts \in BOOLEAN
    /\ Retention \in Nat /\ OffsetBlock \in Nat \ {0}
    /\ MaxPublished \in Nat /\ MaxBreaks \in Nat /\ MaxRestarts \in Nat /\ MaxCalls \in Nat

VARIABLES
    durable,
    \* the broker
    epoch,          \* its incarnation
    offsetBase,     \* broker.offsetBase
    nextOffset,     \* broker.nextOffset
    reserved,       \* persist.offsetReserved
    ring,           \* pubRetention
    trimmed,        \* records of the log that retention has evicted from ring
    subs,           \* conn.subs of the client's connection
    \* the streams
    toBroker,
    toClient,
    \* the client
    link,           \* "down", and connected: "hello", "welcome", "replaying" or "up"
    seenEpoch,      \* client._epoch
    subscriptions,  \* the keys of client.subscriptions in insertion order
    offsets,        \* client._offsets
    replayOpts,     \* the keys of client._replayOpts
    visited,        \* the subscriptions that _replay has come past
    awaited,        \* the one whose answer it waits for
    resumes,        \* SUBSCRIBE requests answered, whose await has not run on yet
    \* bounds, and for the properties only
    published,      \* messages so far
    breaks,
    restarts,
    calls,
    delivered,      \* what the handler of each subscription was given since subscribe()
    from,           \* each subscription is owed the messages after this one
    dropped,        \* messages dropped under back-pressure
    returned,       \* messages that retention had evicted and a restart brought back
    early           \* subscriptions given a message of an epoch before it was adopted

brokerVars == <<epoch, offsetBase, nextOffset, reserved, ring, trimmed>>
clientVars == <<link, seenEpoch, subscriptions, offsets, replayOpts, visited, awaited, resumes>>
bounds     == <<breaks, restarts, calls>>
ghosts     == <<delivered, from, dropped, returned, early>>
vars == <<durable, brokerVars, subs, toBroker, toClient, clientVars, bounds, published, ghosts>>

Unset == -1
Mark  == Nat \cup {Unset}

Message == [offset : Nat, id : Nat, safe : BOOLEAN]
Answer  == [t : {"ok"}, s : Sub, by : {"subscribe", "replay"}, offset : Nat, from : Nat]
ToBrokerMsg ==
    [t : {"subscribe"}, s : Sub, by : {"subscribe", "replay"}, since : Mark, replay : BOOLEAN]
    \cup [t : {"unsubscribe"}, s : Sub] \cup [t : {"hello"}, s : {NoSub}]
ToClientMsg ==
    [t : {"message"}, ch : Channel, offset : Nat, id : Nat]
    \cup Answer \cup [t : {"gone"}, s : Sub] \cup [t : {"welcome"}, s : {NoSub}]

TypeOK ==
    /\ durable \in Durables
    /\ epoch \in Nat /\ offsetBase \in Nat /\ nextOffset \in Nat /\ reserved \in Nat
    /\ ring \in [Channel -> Seq(Message)] /\ trimmed \in [Channel -> Seq(Message)]
    /\ subs \subseteq Sub
    /\ toBroker \in Seq(ToBrokerMsg) /\ toClient \in Seq(ToClientMsg)
    /\ link \in {"down", "hello", "welcome", "replaying", "up"} /\ seenEpoch \in Mark
    /\ subscriptions \in Seq(Sub) /\ offsets \in [Sub -> Mark]
    /\ replayOpts \subseteq Sub /\ visited \subseteq Sub
    /\ awaited \in Sub \cup {NoSub} /\ resumes \subseteq Answer
    /\ published \in Nat /\ breaks \in Nat /\ restarts \in Nat /\ calls \in Nat
    /\ delivered \in [Sub -> Seq(Nat)] /\ from \in [Sub -> Mark]
    /\ dropped \subseteq Nat /\ returned \subseteq Nat /\ early \subseteq Sub

Init ==
    /\ durable \in Durables
    /\ epoch = 0 /\ offsetBase = 0 /\ nextOffset = 0 /\ reserved = 0
    /\ ring = [ch \in Channel |-> <<>>] /\ trimmed = [ch \in Channel |-> <<>>] /\ subs = {}
    /\ toBroker = <<>> /\ toClient = <<>>
    /\ link = "down" /\ seenEpoch = Unset
    /\ subscriptions = <<>> /\ offsets = [s \in Sub |-> Unset]
    /\ replayOpts = {} /\ visited = {} /\ awaited = NoSub /\ resumes = {}
    /\ published = 0 /\ breaks = 0 /\ restarts = 0 /\ calls = 0
    /\ delivered = [s \in Sub |-> <<>>] /\ from = [s \in Sub |-> Unset]
    /\ dropped = {} /\ returned = {} /\ early = {}

-----------------------------------------------------------------------------
(* The broker *)

MatchedBy(s) == {ch \in Channel : <<s, ch>> \in Matches}

\* _retain
Retain(msgs) ==
    IF Len(msgs) <= Retention THEN msgs
    ELSE SubSeq(msgs, Len(msgs) - Retention + 1, Len(msgs))

\* noteOffset: the end of the block that offset n begins.
Ceiling(n) == ((n + OffsetBlock) \div OffsetBlock) * OffsetBlock

\* The MESSAGE frame of a message.
Frame(ch, m) == [t |-> "message", ch |-> ch, offset |-> m.offset, id |-> m.id]

\* What Retain leaves out; the log has it still.
Evicted(msgs) == SubSeq(msgs, 1, Len(msgs) - Len(Retain(msgs)))

\* PUBLISH, by any client: mint, retain, fan out.  With acks "all" (safe) the message
\* is synced when there is a persist dir, and is not dropped on its way to a
\* subscriber that is slow.
Publish(ch, safe) ==
    LET n == nextOffset + 1
        m == [offset |-> n, id |-> published + 1, safe |-> safe]
    IN  /\ published < MaxPublished
        /\ published' = m.id /\ nextOffset' = n
        /\ reserved' = IF n > reserved THEN Ceiling(n) ELSE reserved
        /\ ring' = [ring EXCEPT ![ch] = Retain(Append(@, m))]
        /\ trimmed' = IF durable
                      THEN [trimmed EXCEPT ![ch] = @ \o Evicted(Append(ring[ch], m))]
                      ELSE trimmed
        /\ IF \E s \in subs : ch \in MatchedBy(s)
           THEN \/ toClient' = Append(toClient, Frame(ch, m)) /\ UNCHANGED dropped
                \/ ~safe /\ dropped' = dropped \cup {m.id} /\ UNCHANGED toClient
           ELSE UNCHANGED <<toClient, dropped>>
        /\ UNCHANGED <<durable, epoch, offsetBase, subs, toBroker, clientVars, bounds,
                       delivered, from, returned, early>>

\* retentionMs has passed for the oldest message of a channel (_pruneRing), and for those
\* evicted before it, which a recovery would now leave out.
Prune(ch) ==
    /\ ring[ch] # <<>>
    /\ ring' = [ring EXCEPT ![ch] = Tail(@)] /\ trimmed' = [trimmed EXCEPT ![ch] = <<>>]
    /\ UNCHANGED <<durable, epoch, offsetBase, nextOffset, reserved, subs, toBroker, toClient,
                   clientVars, bounds, published, ghosts>>

\* A compaction: the snapshot has what is retained, and the log starts anew.
Compact ==
    /\ \E ch \in Channel : trimmed[ch] # <<>>
    /\ trimmed' = [ch \in Channel |-> <<>>]
    /\ UNCHANGED <<durable, epoch, offsetBase, nextOffset, reserved, ring, subs, toBroker,
                   toClient, clientVars, bounds, published, ghosts>>

\* What a SUBSCRIBE asks for of the messages retained.
Asked(m, req) == IF req.since # Unset THEN m.offset > req.since ELSE req.replay

\* Mutant of ByOffset: the newest first.
NewestFirst(S) ==
    [n \in 1 .. Cardinality(S) |->
        CHOOSE m \in S : Cardinality({l \in S : l.offset >= m.offset}) = n]

\* The members of S, no two with one offset, in the order of their offsets.
ByOffset(S) ==
    [n \in 1 .. Cardinality(S) |->
        CHOOSE m \in S : Cardinality({l \in S : l.offset <= m.offset}) = n]

\* _replayTo: the rings that match, merged by offset.
Backlog(req) ==
    ByOffset(UNION {{Frame(ch, m) : m \in {l \in ToSet(ring[ch]) : Asked(l, req)}} :
                        ch \in MatchedBy(req.s)})

\* SUBSCRIBE: register, replay and answer in one turn.
Subscribed(req) ==
    /\ subs' = subs \cup {req.s}
    /\ toClient' = toClient \o Backlog(req) \o
         <<[t |-> "ok", s |-> req.s, by |-> req.by, offset |-> nextOffset,
            from |-> published]>>

\* UNSUBSCRIBE
Unsubscribed(req) ==
    /\ subs' = subs \ {req.s}
    /\ toClient' = Append(toClient, [t |-> "gone", s |-> req.s])

\* HELLO: WELCOME has the epoch and the offsetBase of the broker.
Greeted ==
    /\ toClient' = Append(toClient, [t |-> "welcome", s |-> NoSub])
    /\ UNCHANGED subs

BrokerReceives ==
    /\ toBroker # <<>>
    /\ toBroker' = Tail(toBroker)
    /\ LET req == Head(toBroker)
       IN  \/ req.t = "hello" /\ Greeted
           \/ req.t = "subscribe" /\ Subscribed(req)
           \/ req.t = "unsubscribe" /\ Unsubscribed(req)
    /\ UNCHANGED <<durable, brokerVars, clientVars, bounds, published, ghosts>>

-----------------------------------------------------------------------------
(* Messages at the client *)

\* Mutant of Fresh: no backstop.
FreshAlways(s, m) == TRUE

\* The watermark of s does not cover m.
Fresh(s, m) == offsets[s] = Unset \/ m.offset > offsets[s]

\* _deliver: to every subscription that matches, if its watermark does not cover it.
Deliver(m) ==
    LET takers == {s \in ToSet(subscriptions) : m.ch \in MatchedBy(s) /\ Fresh(s, m)}
    IN  /\ delivered' = [s \in Sub |->
             IF s \in takers THEN Append(delivered[s], m.id) ELSE delivered[s]]
        /\ offsets' = [s \in Sub |->
             IF s \in takers /\ m.offset > offsets[s] THEN m.offset ELSE offsets[s]]
        /\ early' = IF seenEpoch \in {Unset, epoch} THEN early ELSE early \cup takers

\* WELCOME and the answers to SUBSCRIBE settle promises, whose awaits run on later.
ClientReceives ==
    /\ toClient # <<>>
    /\ toClient' = Tail(toClient)
    /\ LET m == Head(toClient)
       IN  \/ m.t = "message" /\ Deliver(m) /\ UNCHANGED <<link, resumes>>
           \/ /\ m.t = "welcome" /\ link' = "welcome"
              /\ UNCHANGED <<delivered, offsets, early, resumes>>
           \/ /\ m.t = "ok" /\ resumes' = resumes \cup {m}
              /\ UNCHANGED <<delivered, offsets, early, link>>
           \/ m.t = "gone" /\ UNCHANGED <<delivered, offsets, early, link, resumes>>
    /\ UNCHANGED <<durable, brokerVars, subs, toBroker, seenEpoch, subscriptions, replayOpts,
                   visited, awaited, bounds, published, from, dropped, returned>>

\* _recordBaseline
Baseline(r) == [offsets EXCEPT ![r.s] = IF @ = Unset THEN r.offset ELSE @]

\* The await of a SUBSCRIBE runs on, in subscribe() or in _replay, and after that of a HELLO
\* answered before it.  Frames that came in the same chunk as the answer may have been
\* delivered before.
Resume(r) ==
    /\ r \in resumes /\ resumes' = resumes \ {r}
    /\ link # "welcome"
    /\ replayOpts' = replayOpts \ {r.s}
    /\ offsets' = Baseline(r)
    /\ from' = [from EXCEPT ![r.s] =
         IF @ = Unset /\ r.s \in ToSet(subscriptions) THEN r.from ELSE @]
    /\ awaited' = IF r.by = "replay" THEN NoSub ELSE awaited
    /\ UNCHANGED <<durable, brokerVars, subs, toBroker, toClient, link, seenEpoch, subscriptions,
                   visited, bounds, published, delivered, dropped, returned, early>>

-----------------------------------------------------------------------------
(* Subscriptions *)

Send(req) == toBroker' = IF link = "down" THEN toBroker ELSE Append(toBroker, req)

\* Requests about s that have not been answered.
Unanswered(s) ==
    {m \in ToSet(toBroker) : m.s = s}
    \cup {m \in ToSet(toClient) : m.t # "message" /\ m.s = s}
    \cup {r \in resumes : r.s = s}

\* subscribe(), with { replay: true } or without.  It sends at once when the socket is open,
\* also in the middle of the handshake.
Subscribe(s, replay) ==
    /\ calls < MaxCalls /\ calls' = calls + 1
    /\ s \notin ToSet(subscriptions) /\ Unanswered(s) = {}
    /\ subscriptions' = Append(subscriptions, s)
    /\ replayOpts' = IF replay THEN replayOpts \cup {s} ELSE replayOpts
    /\ Send([t |-> "subscribe", s |-> s, by |-> "subscribe", since |-> Unset, replay |-> replay])
    /\ delivered' = [delivered EXCEPT ![s] = <<>>]
    /\ from' = [from EXCEPT ![s] = IF replay THEN 0 ELSE Unset]
    /\ early' = early \ {s}
    /\ UNCHANGED <<durable, brokerVars, subs, toClient, link, seenEpoch, offsets, visited, awaited,
                   resumes, breaks, restarts, published, dropped, returned>>

\* unsubscribe().  The program awaits its own calls, but cannot see those of _replay.
Unsubscribe(s) ==
    /\ calls < MaxCalls /\ calls' = calls + 1
    /\ \E i \in DOMAIN subscriptions :
         subscriptions[i] = s /\ subscriptions' = RemoveAt(subscriptions, i)
    /\ \A m \in Unanswered(s) : Interrupts /\ m.by = "replay"
    /\ offsets' = [offsets EXCEPT ![s] = Unset]
    /\ replayOpts' = replayOpts \ {s}
    /\ visited' = visited \ {s}
    /\ Send([t |-> "unsubscribe", s |-> s])
    /\ UNCHANGED <<durable, brokerVars, subs, toClient, link, seenEpoch, awaited, resumes, breaks,
                   restarts, published, ghosts>>

-----------------------------------------------------------------------------
(* Links and restarts *)

\* The socket opens: the client is connected and sends HELLO.
Open ==
    /\ link = "down"
    /\ link' = "hello" /\ toBroker' = Append(toBroker, [t |-> "hello", s |-> NoSub])
    /\ UNCHANGED <<durable, brokerVars, subs, toClient, seenEpoch, subscriptions, offsets,
                   replayOpts, visited, awaited, resumes, bounds, published, ghosts>>

\* Mutant of Adopted: watermarks of another offset space are kept.
NotRebased == [s \in Sub |-> offsets[s]]

\* _adoptEpoch: another incarnation, whose offsets start at or below a watermark.
Adopted ==
    [s \in Sub |-> IF seenEpoch \notin {Unset, epoch} /\ offsets[s] > offsetBase
                   THEN offsetBase ELSE offsets[s]]

\* The await of HELLO runs on: _adoptEpoch, and _replay begins.  Frames that came in the
\* same chunk as WELCOME have been delivered before.
Adopt ==
    /\ link = "welcome"
    /\ link' = "replaying" /\ visited' = {}
    /\ seenEpoch' = epoch /\ offsets' = Adopted
    /\ UNCHANGED <<durable, brokerVars, subs, toBroker, toClient, subscriptions, replayOpts,
                   awaited, resumes, bounds, published, ghosts>>

\* Mutant of Left: a subscription without a watermark has nothing to resume.
LeftResumable == {s \in ToSet(subscriptions) : s \notin visited /\ offsets[s] # Unset}

\* The subscriptions that the loop of _replay has still to come past.
Left == {s \in ToSet(subscriptions) : s \notin visited}

\* The loop of _replay: the first of them, one at a time, or its end.
Replay ==
    /\ link = "replaying" /\ awaited = NoSub
    /\ \/ Left = {} /\ link' = "up" /\ UNCHANGED <<toBroker, visited, awaited>>
       \/ \E i \in DOMAIN subscriptions :
            LET s == subscriptions[i]
            IN  /\ s \in Left /\ \A j \in 1 .. i - 1 : subscriptions[j] \notin Left
                /\ visited' = visited \cup {s} /\ awaited' = s
                /\ Send([t |-> "subscribe", s |-> s, by |-> "replay", since |-> offsets[s],
                         replay |-> offsets[s] = Unset /\ s \in replayOpts])
                /\ UNCHANGED link
    /\ UNCHANGED <<durable, brokerVars, subs, toClient, seenEpoch, subscriptions, offsets,
                   replayOpts, resumes, bounds, published, ghosts>>

\* What is under way is lost, and requests are rejected.  Awaits that can run on have done
\* so before the close event.
LinkDown ==
    /\ resumes = {} /\ link # "welcome"
    /\ link' = "down" /\ toBroker' = <<>> /\ toClient' = <<>>
    /\ subs' = {} /\ awaited' = NoSub
    /\ UNCHANGED <<seenEpoch, subscriptions, offsets, replayOpts, visited, resumes, durable, calls,
                   published, delivered, from, dropped, early>>

Break ==
    /\ link # "down" /\ breaks < MaxBreaks
    /\ breaks' = breaks + 1
    /\ LinkDown
    /\ UNCHANGED <<brokerVars, restarts, returned>>

\* The messages of ch on record: retained, or evicted since the last compaction.
Logged(ch) == ToSet(trimmed[ch]) \cup ToSet(ring[ch])

\* The broker's process ends and another takes its place.  With a persist dir it
\* recovers of the log the synced messages and any of the others, retains the newest of
\* them (_recoverPub) and compacts; offsets go on from the reservation.  Without one,
\* everything starts over.
Restart ==
    /\ restarts < MaxRestarts
    /\ restarts' = restarts + 1 /\ epoch' = epoch + 1
    /\ IF durable
       THEN /\ \E gone \in SUBSET {m \in UNION {Logged(ch) : ch \in Channel} : ~m.safe} :
                 ring' = [ch \in Channel |-> Retain(ByOffset(Logged(ch) \ gone))]
            /\ nextOffset' = reserved /\ UNCHANGED reserved
       ELSE /\ ring' = [ch \in Channel |-> <<>>]
            /\ nextOffset' = 0 /\ reserved' = 0
    /\ trimmed' = [ch \in Channel |-> <<>>]
    /\ returned' = returned \cup
         {m.id : m \in UNION {ToSet(ring'[ch]) \ ToSet(ring[ch]) : ch \in Channel}}
    /\ offsetBase' = nextOffset'
    /\ LinkDown
    /\ UNCHANGED breaks

Next ==
    \/ \E ch \in Channel : Prune(ch) \/ \E safe \in BOOLEAN : Publish(ch, safe)
    \/ \E s \in Sub : Unsubscribe(s) \/ \E replay \in BOOLEAN : Subscribe(s, replay)
    \/ \E r \in resumes : Resume(r)
    \/ BrokerReceives \/ ClientReceives \/ Compact
    \/ Open \/ Adopt \/ Replay \/ Break \/ Restart

Spec == Init /\ [][Next]_vars

-----------------------------------------------------------------------------
(* Properties *)

\* The link is up and nothing is under way.
Settled == link = "up" /\ toBroker = <<>> /\ toClient = <<>> /\ resumes = {}

Retained(s) == UNION {ToSet(ring[ch]) : ch \in MatchedBy(s)}

\* "messages published while it was disconnected are caught up" (src/README.md:167-168),
\* and "replay: true" gets "all retained" (src/README.md:162): once the client has settled, whatever
\* broke, restarted and was replayed before, each subscription has been given every
\* message that is still retained of those it is owed, but those dropped because the
\* client was slow, and those that come back after they were evicted, which it may be past.
CaughtUp ==
    Settled =>
        \A s \in ToSet(subscriptions) : \A m \in Retained(s) :
            from[s] # Unset /\ m.id > from[s] /\ m.id \notin dropped \cup returned
                => m.id \in ToSet(delivered[s])

\* "... (delivered exactly once)" (src/README.md:168): a handler gets messages in the order of their
\* publication and none twice, though replays repeat what the client has and offsets
\* start over with a broker that keeps nothing.  Not so after a message that came in one
\* chunk with the WELCOME of another incarnation: the watermark it set is lowered again.
InOrderOnce ==
    \A s \in Sub \ early : \A i, j \in DOMAIN delivered[s] :
        i < j => delivered[s][i] < delivered[s][j]

\* A client past its handshake has no watermark above what its broker has minted: it would
\* skip every message up to it, "silent loss" (client.js:244-249).
WatermarkIsMinted ==
    link \in {"replaying", "up"} => \A s \in Sub : offsets[s] <= nextOffset

\* Once settled, the broker sends the client what it subscribes to and nothing else.
SubscriptionsAgree == Settled => subs = ToSet(subscriptions)

-----------------------------------------------------------------------------
(* The inductive invariant, of which PubSubProofs shows that it holds *)

\* A link that is down has nothing under way, and one past its handshake is to the
\* incarnation whose offsets the client goes by.
LinkAgrees ==
    /\ link = "down" => toBroker = <<>> /\ toClient = <<>> /\ subs = {} /\ resumes = {}
    /\ link \in {"replaying", "up"} => seenEpoch = epoch
    /\ seenEpoch <= epoch
    /\ seenEpoch = Unset /\ link # "welcome" => \A s \in Sub : offsets[s] = Unset

\* Nothing comes before WELCOME.
HandshakeAgrees ==
    link = "hello" =>
        /\ resumes = {}
        /\ \/ toBroker # <<>> /\ Head(toBroker).t = "hello" /\ toClient = <<>> /\ subs = {}
           \/ toClient # <<>> /\ Head(toClient).t = "welcome"

\* The messages that may still reach the client: on record, or on their way to it.
Held    == UNION {{Frame(ch, m) : m \in Logged(ch)} : ch \in Channel}
Current == Held \cup {m \in ToSet(toClient) : m.t = "message"}

\* No two of the messages on record have one offset.
RingsAgree ==
    \A c, d \in Channel : \A l \in Logged(c), m \in Logged(d) :
        l.offset = m.offset => c = d /\ l = m

\* Offsets are those minted, in the order of publication, and no watermark is above
\* them: those of a client that has been away count from when it adopts the epoch.
OffsetsAgree ==
    /\ nextOffset <= reserved
    /\ RingsAgree
    /\ \A m \in Current : m.offset \in 1 .. nextOffset /\ m.id \in 1 .. published
    /\ \A l, m \in Current : l.offset < m.offset => l.id < m.id
    /\ \A m \in ToSet(toClient) \cup resumes : m.t = "ok" => m.offset <= nextOffset
    /\ \A s \in Sub : Adopted[s] <= nextOffset

\* What a subscription's watermark does not cover was published after all that its
\* handler was given.
WatermarksAgree ==
    \A s \in Sub \ early : \A i \in DOMAIN delivered[s] :
        /\ delivered[s][i] <= published
        /\ s \in ToSet(subscriptions) =>
               \A m \in Current : m.offset > Adopted[s] => delivered[s][i] < m.id

\* The broker will have s among the client's subscriptions once it has served the requests
\* that are on their way.
WillHave(s) ==
    \/ /\ s \in subs
       /\ \A j \in DOMAIN toBroker : toBroker[j].s = s => toBroker[j].t = "subscribe"
    \/ \E i \in DOMAIN toBroker :
         /\ toBroker[i].s = s /\ toBroker[i].t = "subscribe"
         /\ \A j \in i .. Len(toBroker) : toBroker[j].s = s => toBroker[j].t = "subscribe"

\* _replay sends the broker what it has come past of the subscriptions.
RequestsAgree ==
    /\ \A i, j \in DOMAIN subscriptions : subscriptions[i] = subscriptions[j] => i = j
    /\ \A s \in Sub : WillHave(s) => s \in ToSet(subscriptions)
    /\ \A s \in ToSet(subscriptions) :
         link = "up" \/ (link = "replaying" /\ s \in visited) => WillHave(s)

IInv ==
    /\ TypeOK
    /\ LinkAgrees
    /\ HandshakeAgrees
    /\ OffsetsAgree
    /\ WatermarksAgree
    /\ InOrderOnce
    /\ RequestsAgree

-----------------------------------------------------------------------------
(* What CaughtUp needs besides, where the program does not interrupt _replay and no two  *)
(* subscriptions match one channel                                                       *)

Apart == \A s, t \in Sub : MatchedBy(s) \cap MatchedBy(t) # {} => s = t

IsFor(s, f)    == f.t = "message" /\ f.ch \in MatchedBy(s)
Requests(s)    == {m \in ToSet(toBroker) : m.t = "subscribe" /\ m.s = s}
AnswersFor(s)  == {m \in ToSet(toClient) \cup resumes : m.t = "ok" /\ m.s = s}

\* What is retained that s has still to be given, or will have once subscribe() resolves.
Due(s) ==
    {m \in Retained(s) :
        /\ m.id \notin dropped \cup returned /\ m.id \notin ToSet(delivered[s])
        /\ IF from[s] # Unset THEN m.id > from[s] ELSE \E r \in AnswersFor(s) : m.id > r.from}

\* The client gets m before anything that lets the watermark of s cover it.
OnItsWay(s, m) ==
    /\ \E i \in DOMAIN toClient :
         /\ IsFor(s, toClient[i]) /\ toClient[i].offset = m.offset /\ toClient[i].id = m.id
         /\ \A j \in 1 .. i - 1 :
              IsFor(s, toClient[j]) \/ (toClient[j].t = "ok" /\ toClient[j].s = s)
                  => toClient[j].offset < m.offset
    /\ \A r \in resumes : r.s = s => r.offset < m.offset

\* The watermark of s is of this broker's offsets, adopted or not.
OwnMark(s) == durable \/ s \in subs \/ Requests(s) # {}

\* What is due is above the watermark: on its way if the broker has the subscription, and
\* otherwise asked for by the requests for it.
DueAgrees ==
    \A s \in ToSet(subscriptions) : \A m \in Due(s) :
        /\ m.offset > Adopted[s]
        /\ OwnMark(s) => m.offset > offsets[s]
        /\ link # "down" =>
               IF s \in subs THEN OnItsWay(s, m) ELSE \A q \in Requests(s) : Asked(m, q)

\* What is under way about s: of a subscription that it stays one, of another that it
\* does not become one, and nothing is answered before the broker has it.
CallsAgree ==
    \A s \in Sub :
        /\ s \in ToSet(subscriptions) =>
               /\ \A m \in ToSet(toBroker) : m.s = s => m.t = "subscribe"
               /\ \A m \in ToSet(toClient) : m.t = "gone" => m.s # s
               /\ s \notin subs => AnswersFor(s) = {}
        /\ s \notin ToSet(subscriptions) =>
               Requests(s) = {} /\ AnswersFor(s) = {} /\ offsets[s] = Unset

\* The broker sends nothing to a subscription once it has said that it is gone.
FramesEnd ==
    \A s \in Sub \ subs : \A i \in DOMAIN toClient : IsFor(s, toClient[i]) =>
        \E j \in i + 1 .. Len(toClient) : toClient[j].t = "gone" /\ toClient[j].s = s

\* A subscription without a watermark is owed nothing, or asks for all.
AsksAgree ==
    /\ \A s \in ToSet(subscriptions) : OwnMark(s) => offsets[s] <= nextOffset
    /\ \A s \in ToSet(subscriptions) :
         offsets[s] = Unset /\ s \notin replayOpts => from[s] = Unset
    /\ \A s \in ToSet(subscriptions) : \A q \in Requests(s) :
         /\ q.since <= nextOffset
         /\ s \notin subs /\ q.since = Unset /\ ~q.replay => from[s] = Unset

CaughtInv == DueAgrees /\ CallsAgree /\ FramesEnd /\ AsksAgree
=============================================================================
