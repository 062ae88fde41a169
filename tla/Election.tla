------------------------------ MODULE Election ------------------------------
(***************************************************************************)
(* Which process becomes the broker of an address: the start of a broker   *)
(* (src/src/broker.js, _bind), the PID files that guard the cleanup of a   *)
(* stale socket and the persist dir (src/src/transport.js, tryPidLock),    *)
(* and what a broker that closes or is killed leaves behind.               *)
(*                                                                         *)
(* Each process runs JavaScript up to the next await without being         *)
(* interrupted by itself, but other processes run beside it: such a        *)
(* stretch is one step per system call.                                    *)
(***************************************************************************)
EXTENDS Integers, FiniteSets

CONSTANTS
    Proc,         \* processes that run a broker one after the other
    NoProc,
    Persists,     \* do the brokers have a persist dir: a set of booleans
    SyncRaces,    \* do others run between the system calls of one stretch
    MaxCrashes,   \* bound: processes killed
    MaxCloses     \* bound: brokers closed

\* The PID files: broker.lock in the persist dir, and the address with ".lock".
File == {"dir", "cleanup"}

ASSUME ElectionAssumption ==
    /\ IsFiniteSet(Proc) /\ NoProc \notin Proc
    /\ Persists # {} /\ Persists \subseteq BOOLEAN
    /\ SyncRaces \in BOOLEAN
    /\ MaxCrashes \in Nat /\ MaxCloses \in Nat

VARIABLES
    persist,     \* is there a persist dir
    pc,          \* what each process does next
    wants,       \* the PID file it is after
    attempt,     \* its attempt at it
    sock,        \* who bound the socket file at the address
    listening,   \* processes whose socket listens, whatever is at the address
    holder,      \* who created each PID file
    blank,       \* PID files with no PID written into them yet
    crashes,
    closes

vars == <<persist, pc, wants, attempt, sock, listening, holder, blank, crashes, closes>>

\* In the middle of a stretch.
InStretch(p) ==
    \/ pc[p] \in {"write", "check", "reclaim", "listen", "probe", "rebind", "relisten", "unlink"}
    \/ pc[p] = "create" /\ attempt[p] = 2

\* Process p gets to run.
Turn(p) == SyncRaces \/ \A q \in Proc \ {p} : ~InStretch(q)

TypeOK ==
    /\ persist \in Persists
    /\ pc \in [Proc -> {"gone", "create", "write", "check", "reclaim", "bind", "listen", "probe",
                        "dead", "alive", "rebind", "relisten", "bound", "serving",
                        "closing", "unlink"}]
    /\ wants \in [Proc -> File] /\ attempt \in [Proc -> 1 .. 2]
    /\ sock \in Proc \cup {NoProc} /\ listening \subseteq Proc
    /\ holder \in [File -> Proc \cup {NoProc}] /\ blank \subseteq File
    /\ crashes \in 0 .. MaxCrashes /\ closes \in 0 .. MaxCloses

Init ==
    /\ persist \in Persists
    /\ pc = [p \in Proc |-> "gone"]
    /\ wants = [p \in Proc |-> "dir"] /\ attempt = [p \in Proc |-> 1]
    /\ sock = NoProc /\ listening = {}
    /\ holder = [f \in File |-> NoProc] /\ blank = {}
    /\ crashes = 0 /\ closes = 0

Goto(p, l) == pc' = [pc EXCEPT ![p] = l]

\* A call of tryPidLock begins.
Seek(p, f) == wants' = [wants EXCEPT ![p] = f] /\ attempt' = [attempt EXCEPT ![p] = 1]

\* Its variables go when it returns, or with the process.
Forget(p) == Seek(p, "dir")

\* The process ends, in broker-bin when start() failed.
Exit(p) == Goto(p, "gone") /\ Forget(p)

Unlinked(f) ==
    /\ holder' = [holder EXCEPT ![f] = NoProc]
    /\ blank' = blank \ {f}

-----------------------------------------------------------------------------
(* Starting *)

\* A client that cannot connect spawns a broker, or someone starts one by hand.  The PID
\* in a file is not given to another process.
Spawn(p) ==
    /\ Turn(p) /\ pc[p] = "gone"
    /\ \A f \in File : p # holder[f]
    /\ Goto(p, IF persist THEN "create" ELSE "bind")
    /\ Seek(p, "dir")
    /\ UNCHANGED <<persist, sock, listening, holder, blank, crashes, closes>>

\* tryPidLock, openSync(file, 'wx').
Create(p) ==
    LET f == wants[p] IN
    /\ Turn(p) /\ pc[p] = "create"
    /\ IF holder[f] = NoProc
       THEN /\ holder' = [holder EXCEPT ![f] = p] /\ blank' = blank \cup {f}
            /\ Goto(p, "write")
       ELSE Goto(p, "check") /\ UNCHANGED <<holder, blank>>
    /\ UNCHANGED <<persist, wants, attempt, sock, listening, crashes, closes>>

\* writeSync: into the file p created, which may no longer be the one at the path.
Write(p) ==
    LET f == wants[p] IN
    /\ Turn(p) /\ pc[p] = "write"
    /\ blank' = IF holder[f] = p THEN blank \ {f} ELSE blank
    /\ Goto(p, IF f = "dir" THEN "bind" ELSE "probe") /\ Forget(p)
    /\ UNCHANGED <<persist, sock, listening, holder, crashes, closes>>

\* Mutant of Stale: a file without a PID is a lock that is held.
StaleIfWritten(f) == holder[f] = NoProc \/ (f \notin blank /\ pc[holder[f]] = "gone")

\* Mutant of Stale: any file in the way is stale.
StaleAlways(f) == holder[f] \in Proc \cup {NoProc}

\* pidLockIsStale: no file, no PID in it, or none that runs.
Stale(f) == holder[f] = NoProc \/ f \in blank \/ pc[holder[f]] = "gone"

Check(p) ==
    /\ Turn(p) /\ pc[p] = "check"
    /\ IF Stale(wants[p]) THEN Goto(p, "reclaim") /\ UNCHANGED <<wants, attempt>> ELSE Exit(p)
    /\ UNCHANGED <<persist, sock, listening, holder, blank, crashes, closes>>

\* Gives up after the second attempt.
Reclaim(p) ==
    /\ Turn(p) /\ pc[p] = "reclaim"
    /\ Unlinked(wants[p])
    /\ IF attempt[p] = 1
       THEN Goto(p, "create") /\ attempt' = [attempt EXCEPT ![p] = 2] /\ UNCHANGED wants
       ELSE Exit(p)
    /\ UNCHANGED <<persist, sock, listening, crashes, closes>>

\* _tryListen: bind; if the address is in use, then after the cleanup lock.
Bind(p) ==
    /\ Turn(p) /\ pc[p] = "bind"
    /\ IF sock = NoProc
       THEN sock' = p /\ Goto(p, "listen") /\ UNCHANGED <<wants, attempt>>
       ELSE Goto(p, "create") /\ Seek(p, "cleanup") /\ UNCHANGED sock
    /\ UNCHANGED <<persist, listening, holder, blank, crashes, closes>>

\* listen, after either bind.
Listen(p) ==
    /\ Turn(p) /\ pc[p] \in {"listen", "relisten"}
    /\ listening' = listening \cup {p}
    /\ Goto(p, IF pc[p] = "listen" THEN "serving" ELSE "bound")
    /\ UNCHANGED <<persist, wants, attempt, sock, holder, blank, crashes, closes>>

\* A connection to the address is accepted.
Reachable == sock \in listening

\* _probe; what it found is acted on when its answer comes back.
Probe(p) ==
    /\ Turn(p) /\ pc[p] = "probe"
    /\ Goto(p, IF Reachable THEN "alive" ELSE "dead")
    /\ UNCHANGED <<persist, wants, attempt, sock, listening, holder, blank, crashes, closes>>

\* The socket is stale: unlink it, ...
Cleanup(p) ==
    /\ Turn(p) /\ pc[p] = "dead"
    /\ sock' = NoProc /\ Goto(p, "rebind")
    /\ UNCHANGED <<persist, wants, attempt, listening, holder, blank, crashes, closes>>

\* ... and bind again.
Rebind(p) ==
    /\ Turn(p) /\ pc[p] = "rebind"
    /\ IF sock = NoProc THEN sock' = p /\ Goto(p, "relisten")
                        ELSE Goto(p, "alive") /\ UNCHANGED sock
    /\ UNCHANGED <<persist, wants, attempt, listening, holder, blank, crashes, closes>>

\* The finally of _bind, whoever's file is there by now.  A process that found the
\* address in use exits; its persist dir stays locked by a PID that is gone.
Release(p) ==
    /\ Turn(p) /\ pc[p] \in {"bound", "alive"}
    /\ Unlinked("cleanup")
    /\ IF pc[p] = "bound" THEN Goto(p, "serving") /\ UNCHANGED <<wants, attempt>> ELSE Exit(p)
    /\ UNCHANGED <<persist, sock, listening, crashes, closes>>

-----------------------------------------------------------------------------
(* Ending *)

\* _close, on SHUTDOWN, a signal or the idle timer.  Closing the server unlinks the
\* address at once; its connections may take their time.
Close(p) ==
    /\ Turn(p) /\ pc[p] = "serving" /\ closes < MaxCloses
    /\ sock' = NoProc /\ listening' = listening \ {p}
    /\ closes' = closes + 1 /\ Goto(p, "closing")
    /\ UNCHANGED <<persist, wants, attempt, holder, blank, crashes>>

\* flushAndClose: the last snapshot, and the persist dir is unlocked.
Flush(p) ==
    /\ Turn(p) /\ pc[p] = "closing"
    /\ IF persist THEN Unlinked("dir") ELSE UNCHANGED <<holder, blank>>
    /\ Goto(p, "unlink")
    /\ UNCHANGED <<persist, wants, attempt, sock, listening, crashes, closes>>

\* The end of _close: unlinks the address, whoever's socket is there by now.
Unlink(p) ==
    /\ Turn(p) /\ pc[p] = "unlink"
    /\ sock' = NoProc /\ Goto(p, "gone")
    /\ UNCHANGED <<persist, wants, attempt, listening, holder, blank, crashes, closes>>

\* kill -9, also between two system calls of a stretch.  Its files stay.
Crash(p) ==
    /\ Turn(p) /\ pc[p] # "gone" /\ crashes < MaxCrashes
    /\ crashes' = crashes + 1 /\ Exit(p)
    /\ listening' = listening \ {p}
    /\ UNCHANGED <<persist, sock, holder, blank, closes>>

\* _doConnect: a client that finds no broker spawns one.
Respawn(p) == ~Reachable /\ Spawn(p)

Run(p) ==
    \/ Create(p) \/ Write(p) \/ Check(p) \/ Reclaim(p)
    \/ Bind(p) \/ Listen(p) \/ Probe(p) \/ Cleanup(p) \/ Rebind(p) \/ Release(p)
    \/ Flush(p) \/ Unlink(p)

Next == \E p \in Proc : Spawn(p) \/ Run(p) \/ Close(p) \/ Crash(p)

Spec == Init /\ [][Next]_vars

\* A process that has its turn again and again goes on, and clients that find no broker
\* keep spawning one (autoSpawn, with reconnects).  Nothing has to crash or to close.
FairSpec ==
    Spec /\ \A p \in Proc : SF_vars(Run(p)) /\ WF_vars(Respawn(p))

-----------------------------------------------------------------------------
(* Properties *)

\* A persist dir belongs to one process at a time, from its recovery to its last snapshot,
\* whatever was left behind by those before it.
UsesDir(p) ==
    /\ persist /\ pc[p] \notin {"gone", "unlink"}
    /\ wants[p] = "dir" => pc[p] \notin {"create", "write", "check", "reclaim"}
OneWriter == \A p, q \in Proc : UsesDir(p) /\ UsesDir(q) => p = q

\* Not kept, and stated by no run (README.md): a broker that listens is the one clients
\* reach, for nobody unlinks a socket somebody listens on ("split brain", _bind).
LiveSocketStays == \A p \in listening : sock = p

\* A process that can be spawned.
Spare(p) == pc[p] = "gone" /\ \A f \in File : p # holder[f]

\* What crashes and closes leave behind, the socket and PID files at any stage, does not
\* keep clients from a broker for ever, unless the model's processes come to an end.
EventuallyServed == (<>[] \A p \in Proc : ~Spare(p)) \/ []<>Reachable
=============================================================================
