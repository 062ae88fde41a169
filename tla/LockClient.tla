----------------------------- MODULE LockClient -----------------------------
(***************************************************************************)
(* lock() and release() of a client (src/src/client.js) composed with the  *)
(* broker's lock service.  What LockManager takes for granted is explicit  *)
(* here: LOCK and UNLOCK travel to the broker over a connection, in order; *)
(* the answer to a LOCK travels back and may find that lock() has given    *)
(* up; either end of the connection may be gone before the other notices;  *)
(* and a client that reconnects sends what it still has to release over    *)
(* its new connection.                                                     *)
(*                                                                         *)
(* A request is one call of lock(); the task that called it either gets a  *)
(* release function, which knows the grant's token, or learns nothing.     *)
(***************************************************************************)
EXTENDS LockManager, Sequences

CONSTANTS
    Client,     \* client objects, each with one connection at a time
    MaxLocks    \* bound: calls of lock()

\* A client numbers what it asks for, so here slots are numbers.
ASSUME ClientAssumption == Slot \subseteq Nat /\ MaxLocks \in Nat

VARIABLES
    dialler,   \* which client opened a connection
    link,      \* client.peer, NoConn while disconnected
    toBroker,  \* frames a client wrote that the broker has not read
    replies,   \* LOCK requests whose answer is on its way back
    task       \* what the caller of each lock() knows

clientVars == <<dialler, link, task>>
wireVars   == <<toBroker, replies>>
meshVars   == <<vars, clientVars, wireVars>>

\* "asked": an entry in client.pending.  "gaveUp": timed out, an entry in
\* client._late.  "has": release() was not called yet.
TaskState == {"idle", "asked", "gaveUp", "has", "done"}
SlotOf(r) == r[3]
Frame == {"LOCK", "UNLOCK"} \X Req
Dialled == {c \in Conn : conn[c] # "new"}

MeshTypeOK ==
    /\ TypeOK
    /\ dialler \in [Dialled -> Client]
    /\ link \in [Client -> Conn \cup {NoConn}]
    /\ toBroker \in [Conn -> Seq(Frame)]
    /\ replies \subseteq Req
    /\ task \in [Req -> TaskState]

MeshInit ==
    /\ Init
    /\ dialler = [c \in {} |-> NoConn]
    /\ link = [p \in Client |-> NoConn]
    /\ toBroker = [c \in Conn |-> <<>>]
    /\ replies = {}
    /\ task = [r \in Req |-> "idle"]

\* The connection a request was sent over is still its client's.
OnLink(r) == ConnOf(r) \in Dialled /\ link[dialler[ConnOf(r)]] = ConnOf(r)

-----------------------------------------------------------------------------
(* The client: lock, release, _request, _onMessage, _onClose.              *)

\* The client connects, or reconnects after it lost its connection.  Which of
\* the connections not used yet this one is called makes no difference.
Connect(p) ==
    LET c == CHOOSE d \in Conn : conn[d] = "new"
    IN  /\ link[p] = NoConn
        /\ Dialled # Conn
        /\ Open(c)
        /\ dialler' = [d \in Dialled \cup {c} |-> IF d = c THEN p ELSE dialler[d]]
        /\ link' = [link EXCEPT ![p] = c]
        /\ UNCHANGED <<task, wireVars>>

\* A client writes a frame; what it writes after the broker's end has closed
\* goes nowhere, and so does what it tries to write without a connection.
Write(c, frame) ==
    toBroker' = IF c # NoConn /\ conn[c] = "open"
                THEN [toBroker EXCEPT ![c] = Append(@, frame)]
                ELSE toBroker

\* lock() sends LOCK.  Calls over one connection for one key take its slots
\* in turn.
Lock(r) ==
    /\ OnLink(r)
    /\ task[r] = "idle"
    /\ \A q \in ReqBy(ConnOf(r)) :
        KeyOf(q) = KeyOf(r) /\ SlotOf(q) < SlotOf(r) => task[q] # "idle"
    /\ Cardinality({q \in Req : task[q] # "idle"}) < MaxLocks
    /\ task' = [task EXCEPT ![r] = "asked"]
    /\ Write(ConnOf(r), <<"LOCK", r>>)
    /\ UNCHANGED <<vars, dialler, link, replies>>

\* No answer in time: lock() rejects, and a late answer is waited for.
GiveUp(r) ==
    /\ task[r] = "asked"
    /\ task' = [task EXCEPT ![r] = "gaveUp"]
    /\ UNCHANGED <<vars, dialler, link, wireVars>>

\* The answer arrives in time.
Resolve(r) ==
    /\ r \in replies
    /\ OnLink(r)
    /\ task[r] = "asked"
    /\ replies' = replies \ {r}
    /\ task' = [task EXCEPT ![r] = IF granted[r] # NoToken THEN "has" ELSE "done"]
    /\ UNCHANGED <<vars, dialler, link, toBroker>>

\* UNLOCK with r's token, over whatever connection the client of r has now.
\* That it cannot be sent or is never answered, release() and onLate swallow.
SendUnlock(r) == Write(link[dialler[ConnOf(r)]], <<"UNLOCK", r>>)

\* Mutant of HandBack: a late grant settles nothing and is dropped.
HandBackNot(r) == UNCHANGED toBroker

\* onLate: nobody will ever call release(), so a late grant is given back.
HandBack(r) ==
    IF granted[r] # NoToken THEN SendUnlock(r) ELSE UNCHANGED toBroker

\* The answer arrives after lock() gave up.
ResolveLate(r) ==
    /\ r \in replies
    /\ OnLink(r)
    /\ task[r] = "gaveUp"
    /\ replies' = replies \ {r}
    /\ task' = [task EXCEPT ![r] = "done"]
    /\ HandBack(r)
    /\ UNCHANGED <<vars, dialler, link>>

\* The task calls its release function, at once or long after.
Release(r) ==
    /\ task[r] = "has"
    /\ task' = [task EXCEPT ![r] = "done"]
    /\ SendUnlock(r)
    /\ UNCHANGED <<vars, dialler, link, replies>>

\* The client's end of the connection closes: what is pending is rejected,
\* what was late is forgotten; a task that has a lock is not told.
LoseLink(p) ==
    LET c == link[p]
    IN  /\ c # NoConn
        /\ link' = [link EXCEPT ![p] = NoConn]
        /\ replies' = replies \ ReqBy(c)
        /\ task' = [r \in Req |-> IF r \in ReqBy(c) /\ task[r] \in {"asked", "gaveUp"}
                                  THEN "done" ELSE task[r]]
        /\ UNCHANGED <<vars, dialler, toBroker>>

-----------------------------------------------------------------------------
(* The broker.                                                             *)

\* Every request this step answers gets its reply sent; it is lost where the
\* client's end has gone.
Answer ==
    replies' = replies \cup {r \in Req : /\ OnLink(r)
                                         /\ status[r] \in {"idle", "waiting"}
                                         /\ status'[r] \in {"held", "denied"}}

\* UNLOCK as the handler sees it: one that names no current grant of the
\* connection it came over is answered with false.
HandleUnlock(c, r) ==
    LET k == KeyOf(r)
    IN  \/ Unlock(c, k, granted[r])
        \/ /\ owner[k] # c \/ token[k] # granted[r]
           /\ UNCHANGED vars

\* The broker reads the next frame of a connection.
Read(c) ==
    /\ conn[c] = "open"
    /\ toBroker[c] # <<>>
    /\ toBroker' = [toBroker EXCEPT ![c] = Tail(@)]
    /\ LET type == Head(toBroker[c])[1]
           r    == Head(toBroker[c])[2]
       IN  \/ type = "LOCK" /\ Acquire(r)
           \/ type = "UNLOCK" /\ HandleUnlock(c, r)
    /\ Answer
    /\ UNCHANGED clientVars

TimerFires ==
    /\ (\E k \in Key : Expire(k)) \/ (\E r \in Req : WaitTimeout(r))
    /\ Answer
    /\ UNCHANGED <<clientVars, toBroker>>

\* The broker's end of a connection closes, because the client's has or on
\* the broker's own account; frames not yet read are lost.
Hangup(c) ==
    /\ Close(c)
    /\ toBroker' = [toBroker EXCEPT ![c] = <<>>]
    /\ Answer
    /\ UNCHANGED clientVars

BrokerRestart ==
    /\ Restart
    /\ toBroker' = [c \in Conn |-> <<>>]
    /\ UNCHANGED <<clientVars, replies>>

MeshNext ==
    \/ \E p \in Client : Connect(p) \/ LoseLink(p)
    \/ \E r \in Req : Lock(r) \/ GiveUp(r) \/ Resolve(r) \/ ResolveLate(r) \/ Release(r)
    \/ \E c \in Conn : Read(c) \/ Hangup(c)
    \/ TimerFires
    \/ BrokerRestart

MeshSpec == MeshInit /\ [][MeshNext]_meshVars

\* The broker notices that the client's end of c has gone, and the client that
\* the broker's end has.
BrokerNotices(c) == c \in Dialled /\ link[dialler[c]] # c /\ Hangup(c)
ClientNotices(p) == link[p] # NoConn /\ conn[link[p]] = "closed" /\ LoseLink(p)

\* Frames and answers are delivered, and each end of a connection notices
\* that the other has gone.  No TTL timer ever has to fire, and no task has
\* to release what it has.
MeshFairSpec ==
    /\ MeshSpec
    /\ WF_meshVars(\E r \in Req : ResolveLate(r))
    /\ WF_meshVars(\E c \in Conn : Read(c))
    /\ WF_meshVars(\E c \in Conn : BrokerNotices(c))
    /\ WF_meshVars(\E p \in Client : ClientNotices(p))
-----------------------------------------------------------------------------
(* Properties *)

\* While both ends of a connection are up, every lock the broker granted over
\* it has somebody to release it: the task has it, or its answer will still
\* find lock() or the late handler waiting, or the UNLOCK is under way.
NoOrphanGrant ==
    \A r \in Req : status[r] = "held" /\ OnLink(r) =>
        \/ task[r] = "has"
        \/ r \in replies /\ task[r] \in {"asked", "gaveUp"}
        \/ <<"UNLOCK", r>> \in Range(toBroker[ConnOf(r)])

\* c reads an UNLOCK for the grant of q.
ReadsUnlock(c, q) ==
    toBroker[c] # <<>> /\ Head(toBroker[c]) = <<"UNLOCK", q>> /\ Read(c)

\* A release or a hand-back never takes the lock from another task, however
\* late it arrives and over whichever connection, unless the broker lost its
\* token counter in between (see ReleaseFreesOwnGrant).
HandBackIsHarmless ==
    [][\A c \in Conn, q \in Req : ReadsUnlock(c, q) /\ (Persistent \/ born[q] = incarnation) =>
        \A r \in Req \ {q} : status[r] = "held" => status'[r] = "held"]_meshVars

\* "A release() only frees its own grant" (src/README.md:207), without a
\* persist dir too.  Not so after a restart: no run checks it, see README.md.
ReleaseFreesOwnGrant ==
    [][\A c \in Conn, q \in Req : ReadsUnlock(c, q) =>
        \A r \in Req \ {q} : status[r] = "held" => status'[r] = "held"]_meshVars

\* A lock that no task has any more, because lock() gave up, the connection
\* was lost or it was released.
Abandoned == {r \in Req : status[r] = "held" /\ task[r] \in {"gaveUp", "done"}}

\* Abandoned locks are freed without their TTL, unless the broker runs out of
\* tokens.
AbandonedIsFreed == Abandoned # {} ~> Abandoned = {} \/ ~CanMint

-----------------------------------------------------------------------------
(* The inductive invariant behind NoOrphanGrant and HandBackIsHarmless, besides *)
(* that of LockManager.                                                     *)

\* A client's link is a connection it opened; a stream that holds frames is that of an
\* open connection, and the requests in it were made over that connection.
StreamsAgree ==
    /\ \A p \in Client : link[p] # NoConn => link[p] \in Dialled /\ dialler[link[p]] = p
    /\ \A c \in Conn : toBroker[c] # <<>> => conn[c] = "open"
    /\ \A c \in Conn : \A r \in Req : <<"LOCK", r>> \in Range(toBroker[c]) => ConnOf(r) = c

\* While the link is up, lock() or its late handler waits for what is not answered yet.
SomeoneWaits ==
    /\ \A r \in Req :
        /\ OnLink(r)
        /\ \/ status[r] = "waiting"
           \/ status[r] = "idle" /\ <<"LOCK", r>> \in Range(toBroker[ConnOf(r)])
        => task[r] \in {"asked", "gaveUp"}
    /\ \A r \in replies : status[r] \notin {"idle", "waiting"}

\* Only what was granted is released.
ReleasesAreOfGrants ==
    \A r \in Req :
        \/ task[r] = "has"
        \/ \E c \in Conn : <<"UNLOCK", r>> \in Range(toBroker[c])
        => status[r] \in {"held", "past"}

MeshInv ==
    /\ IInv
    /\ MeshTypeOK
    /\ StreamsAgree
    /\ SomeoneWaits
    /\ ReleasesAreOfGrants
    /\ NoOrphanGrant
=============================================================================
