------------------------------ MODULE TtlStore ------------------------------
(***************************************************************************)
(* What the key-value store promises its clients (README.md, "Cache" and   *)
(* "Atomics"): every command acts at one instant between its start and its *)
(* end, on the values that have not expired by then; a value expires at    *)
(* the time it was stored with, and is gone from that moment on.           *)
(***************************************************************************)
EXTENDS Naturals, Functions

CONSTANT Nothing     \* no value: null, undefined

VARIABLES
    contents,        \* the values that have not expired, each with its expiry
    clock

vars == <<contents, clock>>

Never == 0
Item(v, exp) == [v |-> v, exp |-> exp]
With(f, k, x) == [j \in DOMAIN f \cup {k} |-> IF j = k THEN x ELSE f[j]]

Init == DOMAIN contents = {} /\ clock = 0

AliveAt(f, t) == Restrict(f, {k \in DOMAIN f : f[k].exp = Never \/ f[k].exp > t})

\* A command that turns the values f at time t into Effect(f, t).
Command(Effect(_, _)) ==
    /\ clock' >= clock
    /\ \E t \in clock .. clock' :
        contents' = AliveAt(Effect(AliveAt(contents, t), t), clock')

\* Nothing but the passing of time.
Pass == Command(LAMBDA f, t : f)

Set(k, v, ttl) ==
    Command(LAMBDA f, t : With(f, k, Item(v, IF ttl = 0 THEN Never ELSE t + ttl)))

MSet(items) ==
    Command(LAMBDA f, t :
        [k \in DOMAIN items \cup DOMAIN f |->
            IF k \in DOMAIN items THEN Item(items[k], Never) ELSE f[k]])

\* A counter keeps the expiry it has.
Incr(k) ==
    Command(LAMBDA f, t :
        With(f, k, IF k \in DOMAIN f THEN Item(f[k].v + 1, f[k].exp) ELSE Item(1, Never)))

Del(k) == Command(LAMBDA f, t : Restrict(f, DOMAIN f \ {k}))

Clear == Command(LAMBDA f, t : Restrict(f, {}))

ValueOf(f, k) == IF k \in DOMAIN f THEN f[k].v ELSE Nothing

Cas(k, prev, next) ==
    Command(LAMBDA f, t :
        IF ValueOf(f, k) # prev THEN f
        ELSE IF next = Nothing THEN Restrict(f, DOMAIN f \ {k})
        ELSE With(f, k, Item(next, IF k \in DOMAIN f THEN f[k].exp ELSE Never)))
=============================================================================
