-------------------------------- MODULE Link --------------------------------
(***************************************************************************)
(* The connection of one client: connect(), the reconnects with their      *)
(* timer, the handshake, keepalive and close() (src/src/client.js), and at *)
(* the other end the broker it spawns, which shuts down when it is idle    *)
(* (src/src/broker.js).                                                    *)
(*                                                                         *)
(* A socket is open at the client from the moment it is connected until    *)
(* the client destroys it or sees it close, and at the broker, where it    *)
(* first waits to be accepted, until the broker closes it or sees it close. *)
(***************************************************************************)
EXTENDS Naturals, FiniteSets

CONSTANTS
    Sock,         \* sockets; one that is closed at both ends is used again
    NoSock,
    Request,      \* the requests the program makes
    MaxAttempts,  \* of one _doConnect: 1 without autoSpawn
    Bars,         \* may a broker reject the client's token: a set of booleans
    MaxFaults     \* bound: what happens to a client that wants its link

ASSUME LinkAssumption ==
    /\ IsFiniteSet(Sock) /\ NoSock \notin Sock
    /\ Request \cap {"hello", "replay", "ping"} = {}
    /\ MaxAttempts \in Nat \ {0}
    /\ Bars # {} /\ Bars \subseteq BOOLEAN
    /\ MaxFaults \in Nat

VARIABLES
    \* the client
    doing,     \* where its _doConnect is: see Stage
    via,       \* the socket of that attempt
    attempt,   \* its number
    spawned,   \* has this _doConnect spawned a broker
    retrying,  \* was it started by the reconnect timer
    peer,      \* client.peer; client.connected is peer # NoSock
    timer,     \* is _reconnectTimer set
    enabled,   \* reconnectEnabled
    closed,
    pending,   \* the request table, with the socket each was sent over
    made,      \* requests the program has made
    open,      \* sockets whose end at the client is open
    \* the broker
    spawning,  \* a broker process is starting
    serving,   \* a broker listens
    bars,      \* ... that rejects the client's token
    backlog,   \* sockets it has not accepted yet
    conns,     \* broker.conns
    idle,      \* is _idleTimer set
    faults

attemptVars == <<doing, via, attempt, spawned, retrying>>
clientVars  == <<attemptVars, peer, timer, enabled, closed, pending, made, open>>
brokerVars  == <<spawning, serving, bars, backlog, conns, idle>>
vars == <<clientVars, brokerVars, faults>>

\* "none", "dial" (at the top of the loop), "pause", "dialling", then the handshake:
\* "hello", "replay".
Stage == {"none", "dial", "pause", "dialling", "hello", "replay"}
Handshake == {"hello", "replay"}
Kind == Handshake \cup {"ping"} \cup Request
Up == peer # NoSock /\ doing = "none"

TypeOK ==
    /\ doing \in Stage /\ via \in Sock \cup {NoSock}
    /\ attempt \in 1 .. MaxAttempts /\ spawned \in BOOLEAN /\ retrying \in BOOLEAN
    /\ peer \in Sock \cup {NoSock}
    /\ timer \in BOOLEAN /\ enabled \in BOOLEAN /\ closed \in BOOLEAN
    /\ pending \subseteq Kind \X Sock /\ made \subseteq Request
    /\ open \subseteq Sock /\ backlog \subseteq Sock /\ conns \subseteq Sock
    /\ spawning \in BOOLEAN /\ serving \in BOOLEAN /\ bars \in BOOLEAN /\ idle \in BOOLEAN
    /\ faults \in 0 .. MaxFaults

Init ==
    /\ doing = "none" /\ via = NoSock /\ attempt = 1 /\ spawned = FALSE /\ retrying = FALSE
    /\ peer = NoSock /\ timer = FALSE /\ enabled = TRUE /\ closed = FALSE
    /\ pending = {} /\ made = {} /\ open = {}
    /\ spawning = FALSE /\ serving \in BOOLEAN /\ bars \in Bars
    /\ backlog = {} /\ conns = {} /\ idle = serving
    /\ faults = 0

\* What the bound counts: with the client closed, anything may go on for ever.
Fault ==
    IF closed THEN UNCHANGED faults ELSE faults < MaxFaults /\ faults' = faults + 1

-----------------------------------------------------------------------------
(* The client connects                                                     *)

Begin(byTimer) ==
    /\ doing' = "dial" /\ attempt' = 1 /\ spawned' = FALSE /\ retrying' = byTimer
    /\ UNCHANGED via

\* Mutant of Ended: who waits for connect() learns of it, nobody else.
EndedQuietly == doing' = "none" /\ via' = NoSock /\ UNCHANGED <<attempt, spawned, retrying, timer>>

\* _doConnect rejects; the reconnect timer is set again if it had started it.
Ended ==
    /\ doing' = "none" /\ via' = NoSock
    /\ timer' = (timer \/ (retrying /\ ~closed))
    /\ UNCHANGED <<attempt, spawned, retrying>>

\* connect(), by a program that leaves a reconnect that is under way alone.
ConnectCall ==
    /\ doing = "none" /\ ~timer /\ peer = NoSock /\ ~closed
    /\ Begin(FALSE)
    /\ UNCHANGED <<peer, timer, enabled, closed, pending, made, open, brokerVars, faults>>

TimerFires ==
    /\ timer
    /\ timer' = FALSE
    /\ Begin(TRUE)
    /\ UNCHANGED <<peer, enabled, closed, pending, made, open, brokerVars, faults>>

Free == Sock \ (open \cup backlog \cup conns \cup {p[2] : p \in pending})

\* The next turn of _doConnect's loop: _open.  The system call succeeds at once if a
\* broker listens; its event comes later.
Dial ==
    /\ doing \in {"dial", "pause"} /\ ~closed
    /\ \E s \in Free :
        /\ via' = s
        /\ open' = IF serving THEN open \cup {s} ELSE open
        /\ backlog' = IF serving THEN backlog \cup {s} ELSE backlog
    /\ doing' = "dialling"
    /\ UNCHANGED <<attempt, spawned, retrying, peer, timer, enabled, closed, pending, made,
                   spawning, serving, bars, conns, idle, faults>>

DialClosed ==
    /\ doing \in {"dial", "pause"} /\ closed
    /\ Ended
    /\ UNCHANGED <<peer, enabled, closed, pending, made, open, brokerVars, faults>>

\* Mutant of Established: without the check of closed.
EstablishedAnyway(s) ==
    /\ peer' = s /\ pending' = pending \cup {<<"hello", s>>}
    /\ doing' = "hello"
    /\ UNCHANGED <<via, attempt, spawned, retrying, timer, open>>

\* 'connect': the link is the client's, unless close() came first, and HELLO is sent.
Established(s) ==
    IF closed
    THEN Ended /\ open' = open \ {s} /\ UNCHANGED <<peer, pending>>
    ELSE /\ peer' = s /\ pending' = pending \cup {<<"hello", s>>}
         /\ doing' = "hello"
         /\ UNCHANGED <<via, attempt, spawned, retrying, timer, open>>

Connect ==
    /\ doing = "dialling" /\ via \in open
    /\ Established(via)
    /\ UNCHANGED <<enabled, closed, made, brokerVars, faults>>

\* ENOENT, ECONNREFUSED: spawn a broker, once, and pause, as often as autoSpawn says.
Refused ==
    /\ doing = "dialling" /\ via \notin open
    /\ IF attempt < MaxAttempts
       THEN /\ doing' = "pause" /\ via' = NoSock /\ attempt' = attempt + 1 /\ spawned' = TRUE
            /\ spawning' = (spawning \/ ~spawned)
            /\ UNCHANGED <<retrying, timer>>
       ELSE Ended /\ UNCHANGED spawning
    /\ UNCHANGED <<peer, enabled, closed, pending, made, open, serving, bars, backlog, conns,
                   idle, faults>>

-----------------------------------------------------------------------------
(* Requests, the handshake among them                                      *)

\* Mutant of FailPending: the request of the handshake only.
FailGreeting == pending' = {p \in pending : p[1] \notin Handshake}

\* _failPending: every request is rejected.
FailPending == pending' = {}

\* The handshake has failed, with what is pending besides its own request.  After close()
\* only the attempt itself is left to end.
HandshakeFails ==
    /\ Ended
    /\ open' = open \ {via}
    /\ IF peer = via THEN peer' = NoSock /\ FailPending
       ELSE UNCHANGED peer /\ pending' = {p \in pending : p[1] \notin Handshake}
    /\ UNCHANGED <<closed, made>>

\* The broker has read and answered a request: any of the program's, ...
Answered(p) ==
    /\ p[1] \in Request \cup {"ping"} /\ p[2] \in conns \cap open
    /\ pending' = pending \ {p}
    /\ UNCHANGED <<attemptVars, peer, timer, enabled, closed, made, open, brokerVars, faults>>

\* ... HELLO, after which _replay sends its requests, ...
Welcome ==
    /\ doing = "hello" /\ <<"hello", via>> \in pending /\ via \in conns \cap open /\ ~bars
    /\ doing' = "replay"
    /\ pending' = (pending \ {<<"hello", via>>}) \cup {<<"replay", via>>}
    /\ UNCHANGED <<via, attempt, spawned, retrying, peer, timer, enabled, closed, made, open,
                   brokerVars, faults>>

\* ... the last of these: 'connect' is emitted, ...
Replayed ==
    /\ doing = "replay" /\ <<"replay", via>> \in pending /\ via \in conns \cap open
    /\ pending' = pending \ {<<"replay", via>>}
    /\ doing' = "none" /\ via' = NoSock
    /\ UNCHANGED <<attempt, spawned, retrying, peer, timer, enabled, closed, made, open,
                   brokerVars, faults>>

\* ... and HELLO with a token that is not the broker's: EAUTH, and the broker hangs up.
Barred ==
    /\ doing = "hello" /\ <<"hello", via>> \in pending /\ via \in conns \cap open /\ bars
    /\ enabled' = FALSE
    /\ HandshakeFails
    /\ conns' = conns \ {via} /\ idle' = (conns' = {})
    /\ UNCHANGED <<spawning, serving, bars, backlog, faults>>

\* The program makes a request as soon as there is a peer, during the handshake too.
Ask(r) ==
    /\ r \notin made /\ peer # NoSock
    /\ made' = made \cup {r} /\ pending' = pending \cup {<<r, peer>>}
    /\ UNCHANGED <<attemptVars, peer, timer, enabled, closed, open, brokerVars, faults>>

\* The keepalive timer, which runs while the link is up.
Ping ==
    /\ Up /\ \A s \in Sock : <<"ping", s>> \notin pending
    /\ pending' = pending \cup {<<"ping", peer>>}
    /\ UNCHANGED <<attemptVars, peer, timer, enabled, closed, made, open, brokerVars, faults>>

\* _onClose.  A handshake that was under way is rejected with the rest.
OnClose ==
    /\ peer' = NoSock /\ open' = open \ {peer}
    /\ FailPending
    /\ timer' = (timer \/ (~closed /\ enabled) \/ (doing # "none" /\ retrying /\ ~closed))
    /\ doing' = "none" /\ via' = NoSock
    /\ UNCHANGED <<attempt, spawned, retrying, enabled, closed, made>>

\* The timer of a request.  A ping that is not answered takes the link down, whichever
\* is the client's by then; a step of the handshake fails it.
TimesOut(p) ==
    /\ p \in pending
    /\ Fault
    /\ \/ /\ p[1] \in Request \/ (p[1] = "ping" /\ peer = NoSock)
          /\ pending' = pending \ {p}
          /\ UNCHANGED <<attemptVars, peer, timer, enabled, closed, made, open>>
       \/ p[1] = "ping" /\ peer # NoSock /\ OnClose
       \/ p[1] \in Handshake /\ HandshakeFails /\ UNCHANGED enabled
    /\ UNCHANGED brokerVars

-----------------------------------------------------------------------------
(* Links end                                                               *)

\* The broker's end is gone, and the client sees it.
LinkLost ==
    /\ peer # NoSock /\ peer \notin backlog \cup conns
    /\ OnClose
    /\ UNCHANGED <<brokerVars, faults>>

\* close() of the client.  It does not fail what is pending, and an attempt that is under
\* way learns of it later.
Close ==
    /\ ~closed
    /\ closed' = TRUE /\ timer' = FALSE
    /\ peer' = NoSock /\ open' = open \ {peer}
    /\ UNCHANGED <<attemptVars, enabled, pending, made, brokerVars, faults>>

-----------------------------------------------------------------------------
(* The broker                                                              *)

\* Mutant of Listen: the idle timer is set when a connection closes, not before.
ListenForever ==
    /\ spawning /\ spawning' = FALSE
    /\ \/ serving /\ UNCHANGED <<serving, bars, idle>>
       \/ ~serving /\ serving' = TRUE /\ bars' \in Bars /\ idle' = FALSE
    /\ UNCHANGED <<clientVars, backlog, conns, faults>>

\* start(), of the process spawned or of another that was faster.
Listen ==
    /\ spawning /\ spawning' = FALSE
    /\ \/ serving /\ UNCHANGED <<serving, bars, idle>>
       \/ ~serving /\ serving' = TRUE /\ bars' \in Bars /\ idle' = TRUE
    /\ UNCHANGED <<clientVars, backlog, conns, faults>>

\* _onConnection
Accept(s) ==
    /\ s \in backlog
    /\ backlog' = backlog \ {s} /\ conns' = conns \cup {s} /\ idle' = FALSE
    /\ UNCHANGED <<clientVars, spawning, serving, bars, faults>>

\* _onClose, up to its last line, _scheduleIdle.
Dropped(s) == conns' = conns \ {s} /\ idle' = (conns' = {})

\* The client's end is gone, and the broker sees it.
Hangup(s) ==
    /\ s \in conns \ open
    /\ Dropped(s)
    /\ UNCHANGED <<clientVars, spawning, serving, bars, backlog, faults>>

\* The broker reaps a connection that looks silent, or one that is too slow.
Reap(s) ==
    /\ s \in conns \cap open
    /\ Fault
    /\ Dropped(s)
    /\ UNCHANGED <<clientVars, spawning, serving, bars, backlog>>

Gone == serving' = FALSE /\ backlog' = {} /\ conns' = {} /\ idle' = FALSE

\* The idle timer fires.  Sockets not accepted yet are closed with the server.
IdleFires ==
    /\ idle
    /\ Fault
    /\ Gone
    /\ UNCHANGED <<clientVars, spawning, bars>>

\* The broker is killed or told to shut down.
Stop ==
    /\ serving
    /\ Fault
    /\ Gone
    /\ UNCHANGED <<clientVars, spawning, bars>>

ClientStep ==
    \/ TimerFires \/ Dial \/ DialClosed \/ Connect \/ Refused \/ LinkLost
    \/ \E p \in pending : closed /\ TimesOut(p)
BrokerStep ==
    \/ Listen \/ Welcome \/ Replayed \/ Barred
    \/ \E s \in Sock : Accept(s) \/ Hangup(s)

Next ==
    \/ ClientStep \/ BrokerStep \/ ConnectCall \/ Ping \/ Close
    \/ \E r \in Request : Ask(r)
    \/ \E p \in pending : Answered(p) \/ TimesOut(p)
    \/ \E s \in Sock : Reap(s)
    \/ IdleFires \/ Stop

Spec == Init /\ [][Next]_vars

\* Both event loops go on, the reconnect timer and the timers of requests fire, and so
\* does that of a broker nobody can use any more.
FairSpec ==
    /\ Spec
    /\ WF_vars(TimerFires) /\ WF_vars(Dial) /\ WF_vars(DialClosed)
    /\ WF_vars(Connect) /\ WF_vars(Refused) /\ WF_vars(LinkLost)
    /\ WF_vars(\E p \in pending : closed /\ TimesOut(p))
    /\ WF_vars(Listen) /\ WF_vars(Welcome) /\ WF_vars(Replayed) /\ WF_vars(Barred)
    /\ \A s \in Sock : WF_vars(Accept(s)) /\ WF_vars(Hangup(s))
    /\ WF_vars(closed /\ IdleFires)

-----------------------------------------------------------------------------
(* Properties                                                              *)

\* A socket of the client is its link, or the one it is about to connect; a failed
\* handshake does not leave one beside the next, and close() none at all ("don't resurrect
\* a live link behind its back", client.js:143).
NoStraySocket ==
    /\ open \subseteq {peer} \cup (IF doing = "dialling" THEN {via} ELSE {})
    /\ closed => peer = NoSock

\* No request waits for a link that is gone, whichever way it went, but those close()
\* leaves to their timers; so no ping of one link takes down the next.
PendingIsOnLink == ~closed => \A p \in pending : p[2] = peer

\* A client that lost its link, or failed to get it back, comes back by itself unless it
\* is closed or meets a broker that rejects it.
ComesBack == timer ~> Up \/ closed \/ (serving /\ bars)

\* A broker that was spawned does not outlive its use, though its client may be closed at
\* any point of the start ("would otherwise live forever", broker.js:184).
NoOrphanBroker == closed ~> ~serving /\ ~spawning

\* "A rejected auth is fatal — don't loop reconnecting with a bad token" (client.js:175).
\* Not so for a reconnect: no run checks it, see README.md.
RejectedStops == [][~enabled => ~TimerFires]_vars

-----------------------------------------------------------------------------
(* The inductive invariant behind the state properties above. *)

\* The stage of _doConnect and the link agree: there is none before the handshake, and in
\* the handshake it is the attempt's own, unless close() came in between.
StageAgrees ==
    /\ doing \in {"dialling"} \cup Handshake => via # NoSock
    /\ doing \in {"dial", "pause", "dialling"} => peer = NoSock
    /\ doing \in Handshake => closed \/ peer = via

\* The reconnect timer runs only while there is no link and no attempt at one.
TimerIsAlone == timer => doing = "none" /\ peer = NoSock /\ ~closed

\* What the handshake waits for belongs to the attempt that is under way.
HandshakeIsPending ==
    \A p \in pending : p[1] \in Handshake => p[1] = doing /\ p[2] = via

IInv ==
    /\ TypeOK
    /\ StageAgrees
    /\ TimerIsAlone
    /\ HandshakeIsPending
    /\ NoStraySocket
    /\ PendingIsOnLink
=============================================================================
