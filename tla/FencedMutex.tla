---------------------------- MODULE FencedMutex ----------------------------
(***************************************************************************)
(* What one lock promises (README.md, "Locks" and "Fencing tokens"): at    *)
(* most one request holds it, every grant carries a larger token than all  *)
(* grants before it, and a write that names the lock is accepted only with *)
(* the token of the newest grant.                                          *)
(***************************************************************************)
EXTENDS Naturals

CONSTANT Task          \* the requests for the lock

VARIABLES
    holders,           \* the tasks that hold the lock
    granted,           \* the token each task was granted, 0 before
    value              \* the token of the last accepted write, 0 for none

vars == <<holders, granted, value>>

Init ==
    /\ holders = {}
    /\ granted = [r \in Task |-> 0]
    /\ value = 0

\* r gets the lock, which is free or taken from its holder in the same step.
Grant(r) ==
    /\ granted[r] = 0
    /\ holders' = {r}
    /\ granted'[r] \in Nat
    /\ \A s \in Task : granted[s] < granted'[r]
    /\ granted' = [granted EXCEPT ![r] = granted'[r]]
    /\ UNCHANGED value

Free ==
    /\ holders # {}
    /\ holders' = {}
    /\ UNCHANGED <<granted, value>>

Write(r) ==
    /\ granted[r] # 0
    /\ \A s \in Task : granted[s] <= granted[r]
    /\ value' = granted[r]
    /\ UNCHANGED <<holders, granted>>

\* The service fails: nobody holds the lock any more, what it guarded may be
\* lost, tokens are never forgotten.
Crash ==
    /\ holders' = {}
    /\ value' \in {0, value}
    /\ UNCHANGED granted

Next ==
    \/ \E r \in Task : Grant(r) \/ Write(r)
    \/ Free
    \/ Crash

Spec == Init /\ [][Next]_vars
=============================================================================
