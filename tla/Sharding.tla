------------------------------ MODULE Sharding ------------------------------
(***************************************************************************)
(* A sharded client (src/src/sharded-client.js): one plain client per      *)
(* shard broker, and above them what needs all of them at once.  That is   *)
(* connect(), the events that say whether the mesh is up, and subscribe()  *)
(* with a pattern, which goes to every shard, since a message may be       *)
(* published on any.  An operation on one key, channel or procedure goes   *)
(* to one shard, where the other modules describe it.                      *)
(*                                                                         *)
(* The client of a shard (src/src/client.js) is here as its connection in  *)
(* stages, its table of handlers and the two streams of its link, all of   *)
(* which a broken link ends at once.                                       *)
(***************************************************************************)
EXTENDS Naturals, Sequences, FiniteSets

CONSTANTS
    Shard,
    Handler,      \* handlers of one pattern, each given to one call of subscribe()
    MaxBreaks     \* bound: links lost, handshakes failed, requests that time out

ASSUME ShardingAssumption ==
    /\ IsFiniteSet(Shard) /\ Shard # {}
    /\ MaxBreaks \in Nat
    /\ Handler \cap {"hello", "replay", "off"} = {}

VARIABLES
    \* the client of each shard
    link,      \* its connection: see Stage
    trying,    \* who has it connect: nobody, connect(), or its reconnect timer
    table,     \* its handlers of the pattern, client.subscriptions
    toBroker,  \* requests on the way
    toClient,  \* ... and answers, by who asked
    \* the broker of each shard
    subs,      \* is its connection subscribed
    \* the sharded client
    calling,   \* is a connect() under way
    awaited,   \* the clients it waits for
    allUp,     \* _allUp
    closed,
    status,    \* what became of each subscribe()
    answer,    \* ... and of its part on each shard
    \* bounds, and for the properties only
    breaks,
    connects,  \* 'connect' events of the mesh
    outage     \* was there a client without a link since the last of them

shardVars == <<link, trying, toClient, subs>>
meshVars  == <<calling, awaited, allUp, closed, connects, outage>>
subVars   == <<table, toBroker, status, answer>>
vars == <<shardVars, meshVars, subVars, breaks>>

\* "hello", "replay": the socket is open, the handshake is not over; client.connected
\* is true from there on.
Stage == {"down", "hello", "replay", "up"}
Linked(s) == link[s] # "down"
Who == Handler \cup {"hello", "replay", "off"}

TypeOK ==
    /\ link \in [Shard -> Stage]
    /\ trying \in [Shard -> {"nobody", "call", "timer"}]
    /\ table \in [Shard -> SUBSET Handler] /\ subs \in [Shard -> BOOLEAN]
    /\ toBroker \in [Shard -> Seq(Who)] /\ toClient \in [Shard -> Seq(Who)]
    /\ calling \in BOOLEAN /\ awaited \subseteq Shard
    /\ allUp \in BOOLEAN /\ closed \in BOOLEAN
    /\ status \in [Handler -> {"idle", "asked", "held", "off", "failed"}]
    /\ answer \in [Handler -> [Shard -> {"none", "sent", "ok", "failed"}]]
    /\ breaks \in 0 .. MaxBreaks /\ connects \in Nat /\ outage \in BOOLEAN

Init ==
    /\ link = [s \in Shard |-> "down"] /\ trying = [s \in Shard |-> "nobody"]
    /\ table = [s \in Shard |-> {}] /\ subs = [s \in Shard |-> FALSE]
    /\ toBroker = [s \in Shard |-> <<>>] /\ toClient = [s \in Shard |-> <<>>]
    /\ calling = FALSE /\ awaited = {} /\ allUp = FALSE /\ closed = FALSE
    /\ status = [h \in Handler |-> "idle"]
    /\ answer = [h \in Handler |-> [s \in Shard |-> "none"]]
    /\ breaks = 0 /\ connects = 0 /\ outage = TRUE

\* What the bound counts; after close() only requests are left to time out.
Fault == breaks < MaxBreaks /\ breaks' = breaks + 1

-----------------------------------------------------------------------------
(* The calls of subscribe(), and what is sent for them                     *)

\* Mutant of Unwound: a call that failed leaves what it has.
UnwoundNot(h, ans) == {}

\* Where a call whose answers are ans is undone: on the shards that took it, if any refused.
Unwound(h, ans) ==
    IF \E s \in Shard : ans[h][s] = "failed" THEN {s \in Shard : ans[h][s] = "ok"} ELSE {}

\* Mutant of Lasts: unsubscribe() does not look whether other handlers are left.
LastsNot(old, new) == new = old

\* Is the pattern still wanted, of a table that goes from old to new.
Lasts(old, new) == new # {} \/ old = {}

\* The tables become new, and the brokers that are linked hear of it.
Unsubscribed(new, ends) ==
    /\ table' = new
    /\ toBroker' = [s \in Shard |-> IF link'[s] = "down" THEN <<>>
                                    ELSE IF Lasts(table[s], new[s]) THEN ends[s]
                                    ELSE Append(ends[s], "off")]

\* The answers become ans and the streams to the brokers ends.  Promise.allSettled: a call
\* that waits for no shard any more gives its handle, or is undone and throws.
Answers(ans, ends) ==
    LET done    == {h \in Handler : /\ status[h] = "asked"
                                    /\ \A s \in Shard : ans[h][s] # "sent"}
        refused == {h \in done : \E s \in Shard : ans[h][s] = "failed"}
    IN  /\ answer' = ans
        /\ status' = [h \in Handler |-> IF h \in refused THEN "failed"
                                        ELSE IF h \in done THEN "held" ELSE status[h]]
        /\ Unsubscribed([s \in Shard |-> table[s] \ {h \in refused : s \in Unwound(h, ans)}],
                        ends)

\* What is pending on the link of s is rejected.
Failing(s) ==
    [h \in Handler |-> [answer[h] EXCEPT ![s] = IF @ = "sent" THEN "failed" ELSE @]]

\* subscribe() of a pattern: on each shard its client asks the broker, unless it has a
\* handler of the pattern already or has no link yet.
Subscribe(h) ==
    LET asks == {s \in Shard : table[s] = {} /\ Linked(s)}
    IN  /\ status[h] = "idle"
        /\ status' = [status EXCEPT ![h] = IF asks = {} THEN "held" ELSE "asked"]
        /\ answer' = [answer EXCEPT ![h] = [s \in Shard |-> IF s \in asks THEN "sent" ELSE "ok"]]
        /\ table' = [s \in Shard |-> table[s] \cup {h}]
        /\ toBroker' = [s \in Shard |-> IF s \in asks THEN Append(toBroker[s], h)
                                        ELSE toBroker[s]]
        /\ UNCHANGED <<shardVars, meshVars, breaks>>

\* The function that subscribe() returned.
Off(h) ==
    /\ status[h] = "held"
    /\ status' = [status EXCEPT ![h] = "off"]
    /\ UNCHANGED <<shardVars, meshVars, answer, breaks>>
    /\ Unsubscribed([s \in Shard |-> table[s] \ {h}], toBroker)

\* A request times out; its answer may still come.
TimesOut(h, s) ==
    /\ answer[h][s] = "sent"
    /\ \/ closed /\ UNCHANGED breaks
       \/ Fault
    /\ UNCHANGED <<shardVars, meshVars>>
    /\ Answers([answer EXCEPT ![h][s] = "failed"], toBroker)

-----------------------------------------------------------------------------
(* The broker of a shard                                                   *)

Serve(s) ==
    /\ toBroker[s] # <<>>
    /\ LET who == Head(toBroker[s])
       IN  /\ subs' = [subs EXCEPT ![s] = IF who = "hello" THEN @ ELSE who # "off"]
           /\ toClient' = [toClient EXCEPT ![s] = IF who = "off" THEN @ ELSE Append(@, who)]
    /\ toBroker' = [toBroker EXCEPT ![s] = Tail(@)]
    /\ UNCHANGED <<link, trying, table, status, answer, meshVars, breaks>>

-----------------------------------------------------------------------------
(* Connections, and what the mesh makes of them                            *)

\* Mutant of Announces: 'connect' is not edge-triggered.
AnnouncesAgain(up) == up

\* Does the mesh emit 'connect', when all are up.
Announces(up) == up /\ ~allUp

\* connect(): of every client without a link, none of which has a reconnect scheduled.
\* With nobody to wait for it is over at once.
ConnectCall ==
    LET down == {s \in Shard : ~Linked(s)}
    IN  /\ ~calling /\ ~closed
        /\ \A s \in down : trying[s] # "timer"
        /\ awaited' = down /\ calling' = (down # {})
        /\ trying' = [s \in Shard |-> IF s \in down THEN "call" ELSE trying[s]]
        /\ allUp' = (allUp \/ down = {})
        /\ UNCHANGED <<link, toClient, subs, closed, connects, outage, subVars, breaks>>

\* The socket is open, and HELLO is sent.
Open(s) ==
    /\ trying[s] # "nobody" /\ ~Linked(s) /\ ~closed
    /\ link' = [link EXCEPT ![s] = "hello"]
    /\ toBroker' = [toBroker EXCEPT ![s] = <<"hello">>]
    /\ UNCHANGED <<trying, toClient, subs, meshVars, table, status, answer, breaks>>

\* connect() of a client rejects, and with it that of the mesh.
Rejected(s) ==
    IF s \in awaited THEN calling' = FALSE /\ awaited' = {} ELSE UNCHANGED <<calling, awaited>>

\* No link; a reconnect is tried again later.
OpenFails(s) ==
    /\ trying[s] = "call" /\ ~Linked(s)
    /\ trying' = [trying EXCEPT ![s] = "nobody"]
    /\ Rejected(s)
    /\ UNCHANGED <<link, toClient, subs, allUp, closed, connects, outage, subVars, breaks>>

\* The handshake is over.  'connect' of the client, and 'reconnect' if the timer had it
\* connect, run _onChildState; a connect() that waited for this client alone ends, and
\* sets _allUp.
Greeted(s) ==
    LET up   == \A t \in Shard \ {s} : Linked(t)
        last == calling /\ awaited = {s}
    IN  /\ link' = [link EXCEPT ![s] = "up"]
        /\ trying' = [trying EXCEPT ![s] = "nobody"]
        /\ connects' = IF Announces(up) THEN connects + 1 ELSE connects
        /\ outage' = (outage /\ ~Announces(up))
        /\ allUp' = (up \/ last)
        /\ awaited' = awaited \ {s} /\ calling' = (calling /\ ~last)

\* The client of s reads an answer: to HELLO, after which _replay subscribes again, ...
Welcome(s) ==
    /\ toClient[s] # <<>> /\ Head(toClient[s]) = "hello"
    /\ toClient' = [toClient EXCEPT ![s] = Tail(@)]
    /\ \/ /\ table[s] = {}
          /\ Greeted(s)
          /\ UNCHANGED toBroker
       \/ /\ table[s] # {}
          /\ link' = [link EXCEPT ![s] = "replay"]
          /\ toBroker' = [toBroker EXCEPT ![s] = Append(@, "replay")]
          /\ UNCHANGED <<trying, calling, awaited, allUp, connects, outage>>
    /\ UNCHANGED <<subs, table, status, answer, closed, breaks>>

\* ... to that, ...
Replayed(s) ==
    /\ toClient[s] # <<>> /\ Head(toClient[s]) = "replay"
    /\ toClient' = [toClient EXCEPT ![s] = Tail(@)]
    /\ Greeted(s)
    /\ UNCHANGED <<subs, subVars, closed, breaks>>

\* ... or to a subscribe(), which may have given up by then.
Answered(h, s) ==
    /\ toClient[s] # <<>> /\ Head(toClient[s]) = h
    /\ toClient' = [toClient EXCEPT ![s] = Tail(@)]
    /\ UNCHANGED <<link, trying, subs, meshVars, breaks>>
    /\ Answers([answer EXCEPT ![h][s] = IF @ = "sent" THEN "ok" ELSE @], toBroker)

\* The link of s is gone, whichever end gave it up, and what was pending on it fails.
Unlinked(s) ==
    /\ link' = [link EXCEPT ![s] = "down"]
    /\ toClient' = [toClient EXCEPT ![s] = <<>>]
    /\ subs' = [subs EXCEPT ![s] = FALSE]
    /\ outage' = TRUE
    /\ Answers(Failing(s), toBroker)

\* A step of the handshake times out or is refused.  The client emits nothing.
HandshakeFails(s) ==
    /\ link[s] \in {"hello", "replay"}
    /\ Fault
    /\ trying' = [trying EXCEPT ![s] = IF @ = "call" THEN "nobody" ELSE @]
    /\ Unlinked(s)
    /\ Rejected(s)
    /\ UNCHANGED <<allUp, closed, connects>>

\* 'disconnect' of the client, which sets its reconnect timer.
LinkLost(s) ==
    /\ Linked(s)
    /\ Fault
    /\ trying' = [trying EXCEPT ![s] = "timer"]
    /\ Unlinked(s)
    /\ Rejected(s)
    /\ allUp' = FALSE
    /\ UNCHANGED <<closed, connects>>

\* close(), of every client.  Requests are left to their timers.
Close ==
    /\ ~closed
    /\ closed' = TRUE /\ outage' = TRUE
    /\ link' = [s \in Shard |-> "down"]
    /\ trying' = [s \in Shard |-> IF trying[s] = "timer" THEN "nobody" ELSE trying[s]]
    /\ toBroker' = [s \in Shard |-> <<>>] /\ toClient' = [s \in Shard |-> <<>>]
    /\ subs' = [s \in Shard |-> FALSE]
    /\ UNCHANGED <<calling, awaited, allUp, connects, table, status, answer, breaks>>

Next ==
    \/ ConnectCall \/ Close
    \/ \E s \in Shard :
        \/ Open(s) \/ OpenFails(s) \/ Serve(s) \/ Welcome(s) \/ Replayed(s)
        \/ HandshakeFails(s) \/ LinkLost(s)
    \/ \E h \in Handler :
        \/ Subscribe(h) \/ Off(h)
        \/ \E s \in Shard : Answered(h, s) \/ TimesOut(h, s)

Spec == Init /\ [][Next]_vars

-----------------------------------------------------------------------------
(* Properties                                                              *)

\* The client of s and its broker have nothing more to tell each other.
Quiet(s) == link[s] = "up" /\ toBroker[s] = <<>>

\* "wildcard subscriptions register everywhere so they catch a publish on any shard"
\* (src/README.md:271): while the program has the handle of a subscription, every shard
\* with a link has it too, also one that was down when subscribe() was called, or was
\* lost since, and whatever other handlers of the pattern come and go.
HeldEverywhere ==
    \A h \in Handler, s \in Shard :
        status[h] = "held" => h \in table[s] /\ (Quiet(s) => subs[s])

\* A subscription that was given up is on no shard, and one that failed on none of those
\* that took it; no broker sends what no handler wants.
NothingLeftBehind ==
    /\ \A h \in Handler, s \in Shard :
        status[h] = "off" \/ (status[h] = "failed" /\ answer[h][s] = "ok") => h \notin table[s]
    /\ \A s \in Shard : Quiet(s) /\ table[s] = {} => ~subs[s]

\* "Edge-trigger the mesh-level 'connect'" (sharded-client.js:96): between two of them a
\* client was without a link.
ConnectFollowsOutage == [][connects' > connects => outage]_vars

\* "All-or-nothing: don't leave the pattern live on some shards with no handle to remove
\* it" (sharded-client.js:199).  The client that failed keeps the handler: no run checks
\* it, see README.md.
AllOrNothing == \A h \in Handler : status[h] = "failed" => \A s \in Shard : h \notin table[s]

\* "so 'connect' fires again once every shard is back" (sharded-client.js:91), and not
\* before (src/README.md:283): no run checks them, see README.md.
ConnectFires == (\A s \in Shard : link[s] = "up") => ~outage
ConnectIsTrue ==
    [][connects' > connects => \A s \in Shard : link'[s] = "up"]_vars

-----------------------------------------------------------------------------
(* The inductive invariant behind them                                     *)

\* Is the connection subscribed once the broker of s has read what is on its way.
Heard(s) ==
    LET last == toBroker[s][Len(toBroker[s])]
    IN  IF toBroker[s] = <<>> \/ last = "hello" THEN subs[s] ELSE last # "off"

\* A link starts with HELLO, and the replay comes after the answer to it.
StreamsAgree ==
    \A s \in Shard :
        /\ link[s] = "down" => toBroker[s] = <<>> /\ toClient[s] = <<>> /\ ~subs[s]
        /\ \A i \in DOMAIN toBroker[s] :
            /\ toBroker[s][i] = "hello" => i = 1
            /\ toBroker[s][i] = "replay" => link[s] # "hello"
        /\ \A i \in DOMAIN toClient[s] : toClient[s][i] = "replay" => link[s] # "hello"

\* A client whose replay is sent, or that needs none, has told its broker what it wants.
BrokerFollows ==
    \A s \in Shard :
        /\ link[s] \in {"replay", "up"} => (Heard(s) <=> table[s] # {})
        /\ link[s] = "hello" /\ table[s] = {} => ~Heard(s)

\* Where the handler of a call is, by what became of the call.
CallsAgree ==
    \A h \in Handler, s \in Shard :
        /\ status[h] \in {"asked", "held"} => h \in table[s]
        /\ status[h] = "off" \/ (status[h] = "failed" /\ answer[h][s] = "ok") => h \notin table[s]
        /\ answer[h][s] = "sent" => status[h] = "asked"

\* The mesh has emitted 'connect' and no link was lost since.
NoOutage == ~outage => allUp /\ \A s \in Shard : Linked(s)

IInv ==
    /\ TypeOK
    /\ StreamsAgree
    /\ BrokerFollows
    /\ CallsAgree
    /\ NoOutage
=============================================================================
