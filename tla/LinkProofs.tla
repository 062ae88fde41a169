----------------------------- MODULE LinkProofs -----------------------------
(***************************************************************************)
(* Proofs of the state properties of Link for every value of its           *)
(* constants.                                                              *)
(***************************************************************************)
EXTENDS Link, TLAPS

\* The Boolean variables, which the provers take apart from the others.
Flags ==
    /\ spawned \in BOOLEAN /\ retrying \in BOOLEAN /\ timer \in BOOLEAN
    /\ enabled \in BOOLEAN /\ closed \in BOOLEAN
    /\ spawning \in BOOLEAN /\ serving \in BOOLEAN /\ bars \in BOOLEAN /\ idle \in BOOLEAN

LEMMA InitFlags == Init => Flags
  BY LinkAssumption, Zenon DEF Init, Flags

LEMMA FlagsStep == Flags /\ [Next]_vars => Flags'
  <1> SUFFICES ASSUME Flags, [Next]_vars PROVE Flags'
    OBVIOUS
  <1> USE LinkAssumption
      DEF Flags, clientVars, brokerVars, attemptVars, Begin, Ended
  <1>1. CASE ConnectCall
    BY <1>1, Zenon DEF ConnectCall
  <1>2. CASE TimerFires
    BY <1>2, Zenon DEF TimerFires
  <1>3. CASE Dial
    BY <1>3, Zenon DEF Dial
  <1>4. CASE DialClosed
    BY <1>4, Zenon DEF DialClosed
  <1>5. CASE Connect
    BY <1>5, Zenon DEF Connect, Established
  <1>6. CASE Refused
    BY <1>6, Zenon DEF Refused
  <1>7. CASE LinkLost
    BY <1>7, Zenon DEF LinkLost, OnClose
  <1>8. ASSUME NEW p \in pending, TimesOut(p) PROVE Flags'
    BY <1>8, Zenon DEF TimesOut, HandshakeFails, OnClose
  <1>9. CASE Listen
    BY <1>9, Zenon DEF Listen
  <1>10. CASE Welcome \/ Replayed \/ Ping
    BY <1>10, Zenon DEF Welcome, Replayed, Ping
  <1>11. CASE Barred
    <2>1. /\ enabled' = FALSE /\ timer' = (timer \/ (retrying /\ ~closed))
          /\ idle' = (conns' = {})
          /\ UNCHANGED <<spawned, retrying, closed>> /\ UNCHANGED <<spawning, serving, bars>>
      BY <1>11 DEF Barred, HandshakeFails
    <2> QED
      BY <2>1, Zenon
  <1>12. ASSUME NEW s \in Sock, Accept(s) \/ Hangup(s) \/ Reap(s) PROVE Flags'
    BY <1>12, Zenon DEF Accept, Hangup, Reap, Dropped
  <1>13. CASE Close
    BY <1>13, Zenon DEF Close
  <1>14. ASSUME NEW r \in Request, Ask(r) PROVE Flags'
    BY <1>14, Zenon DEF Ask
  <1>15. ASSUME NEW p \in pending, Answered(p) PROVE Flags'
    BY <1>15, Zenon DEF Answered
  <1>16. CASE IdleFires \/ Stop
    BY <1>16, Zenon DEF IdleFires, Stop, Gone
  <1>17. CASE UNCHANGED vars
    BY <1>17, Zenon DEF vars
  <1>18. QED
    BY <1>1, <1>2, <1>3, <1>4, <1>5, <1>6, <1>7, <1>8, <1>9, <1>10, <1>11, <1>12, <1>13,
       <1>14, <1>15, <1>16, <1>17 DEF Next, ClientStep, BrokerStep
\* The client has no link at first, and its broker no connections.
LEMMA InitIInv == Init => IInv
  BY InitFlags, LinkAssumption
     DEF Init, Flags, IInv, TypeOK, Stage, StageAgrees, TimerIsAlone, HandshakeIsPending,
         NoStraySocket, PendingIsOnLink, Handshake

\* The steps of an attempt up to the handshake.
LEMMA AttemptStep ==
    ASSUME IInv, Flags',
           ConnectCall \/ TimerFires \/ Dial \/ DialClosed \/ Connect \/ Refused
    PROVE  IInv'
  <1> USE LinkAssumption
      DEF Flags, IInv, TypeOK, Stage, StageAgrees, TimerIsAlone, HandshakeIsPending,
          NoStraySocket, PendingIsOnLink, Handshake, Kind, brokerVars
  <1>1. CASE ConnectCall
    BY <1>1 DEF ConnectCall, Begin
  <1>2. CASE TimerFires
    BY <1>2 DEF TimerFires, Begin
  <1>3. CASE Dial
    BY <1>3 DEF Dial, Free
  <1>4. CASE DialClosed
    BY <1>4 DEF DialClosed, Ended
  <1>5. CASE Connect
    BY <1>5 DEF Connect, Established, Ended
  <1>6. CASE Refused
    BY <1>6 DEF Refused, Ended
  <1>7. QED
    BY <1>1, <1>2, <1>3, <1>4, <1>5, <1>6

\* Requests are made and answered, those of the handshake among them.
LEMMA RequestStep ==
    ASSUME IInv, Flags',
           \/ Welcome \/ Replayed \/ Ping
           \/ \E r \in Request : Ask(r)
           \/ \E p \in pending : Answered(p)
    PROVE  IInv'
  <1> USE LinkAssumption
      DEF Flags, IInv, TypeOK, Stage, StageAgrees, TimerIsAlone, HandshakeIsPending,
          NoStraySocket, PendingIsOnLink, Handshake, Kind, attemptVars, brokerVars
  <1>1. CASE Welcome
    BY <1>1 DEF Welcome
  <1>2. CASE Replayed
    BY <1>2 DEF Replayed
  <1>3. CASE Ping
    BY <1>3 DEF Ping, Up
  <1>4. ASSUME NEW r \in Request, Ask(r)
        PROVE  IInv'
    BY <1>4 DEF Ask
  <1>5. ASSUME NEW p \in pending, Answered(p)
        PROVE  IInv'
    BY <1>5 DEF Answered
  <1>6. QED
    BY <1>1, <1>2, <1>3, <1>4, <1>5

\* The link is lost, as the client sees it: what was pending is rejected with it.
LEMMA OnCloseStep ==
    ASSUME IInv, Flags', OnClose, peer # NoSock,
           UNCHANGED brokerVars, faults' \in 0 .. MaxFaults
    PROVE  IInv'
  BY DEF OnClose, FailPending, Flags, IInv, TypeOK, Stage, StageAgrees, TimerIsAlone,
         HandshakeIsPending, NoStraySocket, PendingIsOnLink, Handshake, Kind, brokerVars

\* The handshake fails: its link is closed, or was by close().
LEMMA HandshakeFailsStep ==
    ASSUME IInv, Flags', HandshakeFails, doing \in Handshake,
           UNCHANGED <<spawning, serving, bars, backlog>>, conns' \subseteq conns,
           faults' \in 0 .. MaxFaults
    PROVE  IInv'
  <1>1. peer' = NoSock /\ open' \subseteq {NoSock}
    BY DEF HandshakeFails, FailPending, Ended, IInv, TypeOK, StageAgrees, NoStraySocket,
           Handshake
  <1>2. pending' = {} \/ (closed' /\ pending' \subseteq pending)
    BY DEF HandshakeFails, FailPending, IInv, TypeOK, StageAgrees, Handshake
  <1>3. \A p \in pending' : p[1] \notin Handshake
    BY DEF HandshakeFails, FailPending, IInv, StageAgrees
  <1>4. QED
    BY <1>1, <1>2, <1>3
    DEF HandshakeFails, Ended, Flags, IInv, TypeOK, Stage, StageAgrees, TimerIsAlone,
        HandshakeIsPending, NoStraySocket, PendingIsOnLink, Handshake, Kind

\* A request times out, and the link goes down with a ping, the attempt with its own.
LEMMA TimesOutStep ==
    ASSUME IInv, Flags', NEW p \in pending, TimesOut(p)
    PROVE  IInv'
  <1>1. faults' \in 0 .. MaxFaults
    BY LinkAssumption DEF TimesOut, Fault, IInv, TypeOK
  <1>2. CASE /\ p[1] \in Request \/ (p[1] = "ping" /\ peer = NoSock)
             /\ pending' = pending \ {p}
             /\ UNCHANGED <<attemptVars, peer, timer, enabled, closed, made, open>>
    BY <1>1, <1>2
    DEF TimesOut, Flags, IInv, TypeOK, Stage, StageAgrees, TimerIsAlone, HandshakeIsPending,
        NoStraySocket, PendingIsOnLink, Handshake, Kind, attemptVars, brokerVars
  <1>3. CASE p[1] = "ping" /\ peer # NoSock /\ OnClose
    BY <1>1, <1>3, OnCloseStep DEF TimesOut
  <1>4. CASE p[1] \in Handshake /\ HandshakeFails /\ UNCHANGED enabled
    <2>1. doing \in Handshake
      BY <1>4 DEF IInv, HandshakeIsPending
    <2>2. UNCHANGED <<spawning, serving, bars, backlog, conns>>
      BY DEF TimesOut, brokerVars
    <2>3. QED
      BY <1>1, <1>4, <2>1, <2>2, HandshakeFailsStep
  <1>5. QED
    BY <1>2, <1>3, <1>4 DEF TimesOut

\* Links end at the client's end.
LEMMA EndStep ==
    ASSUME IInv, Flags', LinkLost \/ Barred \/ Close
    PROVE  IInv'
  <1>1. CASE LinkLost
    BY <1>1, OnCloseStep DEF LinkLost, IInv, TypeOK
  <1>2. CASE Barred
    <2>1. /\ doing \in Handshake /\ conns' \subseteq conns /\ faults' \in 0 .. MaxFaults
          /\ UNCHANGED <<spawning, serving, bars, backlog>>
      BY <1>2 DEF Barred, Handshake, IInv, TypeOK
    <2>2. QED
      BY <1>2, <2>1, HandshakeFailsStep DEF Barred
  <1>3. CASE Close
    BY <1>3
    DEF Close, Flags, IInv, TypeOK, Stage, StageAgrees, TimerIsAlone, HandshakeIsPending,
        NoStraySocket, PendingIsOnLink, Handshake, Kind, attemptVars, brokerVars
  <1>4. QED
    BY <1>1, <1>2, <1>3

\* What the broker does on its own changes nothing the client relies on.
LEMMA BrokerStepKeeps ==
    ASSUME IInv, Flags', UNCHANGED clientVars,
           backlog' \subseteq Sock, conns' \subseteq Sock, faults' \in 0 .. MaxFaults
    PROVE  IInv'
  BY DEF Flags, IInv, TypeOK, Stage, StageAgrees, TimerIsAlone, HandshakeIsPending,
         NoStraySocket, PendingIsOnLink, Handshake, Kind, clientVars, attemptVars

LEMMA NextStep == IInv /\ [Next]_vars => IInv'
  <1> SUFFICES ASSUME IInv, [Next]_vars PROVE IInv'
    OBVIOUS
  <1>1. Flags'
    BY FlagsStep DEF IInv, TypeOK, Flags
  <1>2. CASE ConnectCall \/ TimerFires \/ Dial \/ DialClosed \/ Connect \/ Refused
    BY <1>1, <1>2, AttemptStep
  <1>3. CASE \/ Welcome \/ Replayed \/ Ping
             \/ \E r \in Request : Ask(r)
             \/ \E p \in pending : Answered(p)
    BY <1>1, <1>3, RequestStep
  <1>4. CASE LinkLost \/ Barred \/ Close
    BY <1>1, <1>4, EndStep
  <1>5. ASSUME NEW p \in pending, TimesOut(p)
        PROVE  IInv'
    BY <1>1, <1>5, TimesOutStep
  <1>6. CASE \/ Listen \/ IdleFires \/ Stop
             \/ \E s \in Sock : Accept(s) \/ Hangup(s) \/ Reap(s)
    <2>1. /\ UNCHANGED clientVars /\ backlog' \subseteq Sock /\ conns' \subseteq Sock
          /\ faults' \in 0 .. MaxFaults
      BY <1>6, LinkAssumption
      DEF Listen, IdleFires, Stop, Gone, Accept, Hangup, Reap, Dropped, Fault, IInv, TypeOK
    <2>2. QED
      BY <1>1, <2>1, BrokerStepKeeps
  <1>7. CASE UNCHANGED vars
    BY <1>1, <1>7, BrokerStepKeeps DEF vars, brokerVars, IInv, TypeOK
  <1>8. QED
    BY <1>2, <1>3, <1>4, <1>5, <1>6, <1>7 DEF Next, ClientStep, BrokerStep

\* The inductive invariant holds in every state.
THEOREM Inductive == Spec => []IInv
  BY InitIInv, NextStep, PTL DEF Spec

\* The variables of the client and of its broker have their types.
THEOREM TypeCorrect == Spec => []TypeOK
  BY Inductive, PTL DEF IInv

\* The client never keeps a socket beside its link and the attempt at one, and none at all
\* after close(), whatever ended the links before.
THEOREM OneLink == Spec => []NoStraySocket
  BY Inductive, PTL DEF IInv

\* No request waits for a link that is gone, unless close() left it to its timer.
THEOREM NothingWaitsInVain == Spec => []PendingIsOnLink
  BY Inductive, PTL DEF IInv
=============================================================================
