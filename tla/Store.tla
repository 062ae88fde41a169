-------------------------------- MODULE Store --------------------------------
(***************************************************************************)
(* The key-value store of a broker: class Store (src/src/store.js) on its  *)
(* unbounded backend UnboundedTtlMap, the commands of src/src/broker.js    *)
(* that use it, and the records they log.  What a recovery would rebuild   *)
(* from those records is kept in logged; the log itself, its files and its *)
(* recovery are in Persistence.                                            *)
(*                                                                         *)
(* A command is one step of the event loop, but it reads the clock several *)
(* times, and a millisecond may end between two of its reads.              *)
(***************************************************************************)
EXTENDS Integers, FiniteSets, Functions

CONSTANTS
    Key,
    Value,      \* the numbers a key may be given
    Ttl,        \* the ttl a SET may ask for, 0 for none
    Nothing,    \* null, undefined
    Batch,      \* sweepBatch
    MaxValue,   \* bound: what a counter may reach
    MaxTime     \* bound: the clock

ASSUME StoreAssumption ==
    /\ IsFiniteSet(Key)
    /\ Value \subseteq 0 .. MaxValue /\ Ttl \subseteq Nat /\ Nothing \notin Nat
    /\ Batch \in Nat \ {0} /\ MaxValue \in Nat /\ MaxTime \in Nat

VARIABLES
    cache,      \* the UnboundedTtlMap
    logged,     \* per key, the last record logged for it
    now,        \* Date.now()
    crossed     \* history: keys that expired during the last command on them

storeVars == <<cache, logged, now, crossed>>

Never == 0
Item(v, exp) == [v |-> v, exp |-> exp]
Expired(e, t) == e.exp # Never /\ e.exp <= t

\* f, with x for k.
With(f, k, x) == [j \in DOMAIN f \cup {k} |-> IF j = k THEN x ELSE f[j]]

Empty == [entry     |-> [k \in {} |-> Nothing],  \* the Map's entries
          before    |-> {},                      \* ... and their order: <<j, k>>, j first
          ttlCount  |-> 0,
          timer     |-> FALSE,                   \* is _sweepTimer set
          iterating |-> FALSE,                   \* is _sweepIter set
          unseen    |-> {}]                      \* what it has yet to visit

StoreInit ==
    /\ cache = Empty
    /\ logged = [k \in {} |-> Nothing]
    /\ now = 0
    /\ crossed = {}

-----------------------------------------------------------------------------
(* UnboundedTtlMap.  m is the map before, m.entry[k] its entry for k.      *)

StopSweep(m) == [m EXCEPT !.timer = FALSE, !.iterating = FALSE, !.unseen = {}]

TtlDelta(m, d) ==
    LET n == [m EXCEPT !.ttlCount = @ + d]
    IN  IF d = 0 THEN m
        ELSE IF n.ttlCount > 0 THEN [n EXCEPT !.timer = TRUE]
        ELSE StopSweep(n)

\* The keys that can expire.
Mortal(m) == {k \in DOMAIN m.entry : m.entry[k].exp # Never}

Without(m, ks) ==
    [m EXCEPT !.entry  = Restrict(@, DOMAIN @ \ ks),
              !.before = {p \in @ : p[1] \notin ks /\ p[2] \notin ks},
              !.unseen = @ \ ks]

\* Mutant of Dropped: the count of entries with a TTL is not kept in step.
DroppedUncounted(m, ks) == Without(m, ks)

\* _remove, of several keys.
Dropped(m, ks) == TtlDelta(Without(m, ks), -Cardinality(ks \cap Mortal(m)))

\* _live, of several keys: an expired entry that is touched is purged.
Touched(m, ks, t) == Dropped(m, {k \in ks \cap DOMAIN m.entry : Expired(m.entry[k], t)})

\* What a Map's set() does.  A live iterator also visits a key that is new.
Put(m, k, item) ==
    IF k \in DOMAIN m.entry THEN [m EXCEPT !.entry = With(@, k, item)]
    ELSE [m EXCEPT !.entry = With(@, k, item),
                   !.before = @ \cup ((DOMAIN m.entry) \X {k}),
                   !.unseen = IF m.iterating THEN @ \cup {k} ELSE @]

HasTtl(m, k) == IF k \in Mortal(m) THEN 1 ELSE 0

\* The second half of set(): the entry is stored, and the TTLs are counted.
Stored(m, k, item) ==
    LET next == Put(m, k, item) IN TtlDelta(next, HasTtl(next, k) - HasTtl(m, k))

\* set(key, value, {ttl}), touching at t1, stamping at t2.
MapSet(m, k, v, ttl, t1, t2) ==
    Stored(Touched(m, {k}, t1), k, Item(v, IF ttl > 0 THEN t2 + ttl ELSE Never))

\* set(key, value, {noUpdateTTL: true})
KeepTtl(m, k, v, t) ==
    LET cur == Touched(m, {k}, t)
    IN  Stored(cur, k, Item(v, IF k \in DOMAIN cur.entry THEN cur.entry[k].exp ELSE Never))

MapGet(m, k) == IF k \in DOMAIN m.entry THEN m.entry[k].v ELSE Nothing

\* remainingTTL: 0 also stands for "no expiry".
Remaining(m, k, t) ==
    IF k \in DOMAIN m.entry /\ m.entry[k].exp > t THEN m.entry[k].exp - t ELSE 0

-----------------------------------------------------------------------------
(* The commands.                                                           *)

\* Bound: the clock moves at most once in a command, before its p-th reading
\* of it, or (p = 5) not at all.
Moves == IF now < MaxTime THEN 2 .. 5 ELSE {5}
At(p, i) == IF i < p THEN now ELSE now + 1

\* _logSet, with a ttl that counts from t.
LogSet(k, v, ttl, t) ==
    logged' = With(logged, k, Item(v, IF ttl > 0 THEN t + ttl ELSE Never))

LogDel(k) == logged' = Restrict(logged, DOMAIN logged \ {k})

\* Did k have a value that expired while a command ran?
Crossing(k, t) ==
    k \in DOMAIN cache.entry /\ ~Expired(cache.entry[k], now) /\ Expired(cache.entry[k], t)

Crossed(k) == crossed' = IF Crossing(k, now') THEN crossed \cup {k} ELSE crossed \ {k}

Set(k, v, ttl) ==
    \E p \in Moves :
        /\ cache' = MapSet(cache, k, v, ttl, At(p, 1), At(p, 2))
        /\ LogSet(k, v, ttl, At(p, 3))
        /\ now' = At(p, 4)
        /\ crossed' = crossed \ {k}

\* MSET, of two keys: no TTLs.  Bound: one MSET stores two.
MSet(j, v, k, w) ==
    \E p \in Moves :
        /\ cache' = MapSet(MapSet(cache, j, v, 0, At(p, 1), At(p, 1)),
                           k, w, 0, At(p, 2), At(p, 2))
        /\ logged' = With(With(logged, j, Item(v, Never)), k, Item(w, Never))
        /\ now' = At(p, 4)
        /\ crossed' = crossed \ {j, k}

\* Mutant of LogUpdate: the record does not carry the TTL.
LogUpdateNever(m, k, v, p) == LogSet(k, v, 0, At(p, 4))

\* _logSet(key, next, remainingTTL(key))
LogUpdate(m, k, v, p) == LogSet(k, v, Remaining(m, k, At(p, 3)), At(p, 4))

\* INCR and DECR.
Incr(k) ==
    \E p \in Moves :
        LET cur  == Touched(cache, {k}, At(p, 1))
            base == IF MapGet(cur, k) = Nothing THEN 0 ELSE MapGet(cur, k)
            next == KeepTtl(cur, k, base + 1, At(p, 2))
        IN  /\ base < MaxValue
            /\ cache' = next
            /\ LogUpdate(next, k, base + 1, p)
            /\ now' = At(p, 4)
            /\ Crossed(k)

\* Mutant of Matches: a comparison that treats absent as any value.
MatchesAbsent(m, k, prev) == MapGet(m, k) \in {prev, Nothing}

Matches(m, k, prev) == MapGet(m, k) = prev

\* CAS; next = Nothing deletes.
Cas(k, prev, next) ==
    \E p \in Moves :
        LET cur == Touched(cache, {k}, At(p, 1))
            put == KeepTtl(cur, k, next, At(p, 2))
        IN  /\ now' = At(p, 4)
            /\ \/ /\ ~Matches(cur, k, prev)
                  /\ cache' = cur
                  /\ UNCHANGED <<logged, crossed>>
               \/ /\ Matches(cur, k, prev) /\ next = Nothing
                  /\ cache' = Dropped(cur, {k})
                  /\ LogDel(k)
                  /\ crossed' = crossed \ {k}
               \/ /\ Matches(cur, k, prev) /\ next # Nothing
                  /\ cache' = put
                  /\ LogUpdate(put, k, next, p)
                  /\ Crossed(k)

Del(k) ==
    /\ cache' = Dropped(cache, {k})
    /\ LogDel(k)
    /\ crossed' = crossed \ {k}
    /\ UNCHANGED now

Clear ==
    /\ cache' = Empty
    /\ logged' = [k \in {} |-> Nothing]
    /\ crossed' = {}
    /\ UNCHANGED now

\* GET, HAS, MGET, KEYS and a snapshot touch the keys they name.
Touch(keys) ==
    /\ cache' = Touched(cache, keys, now)
    /\ UNCHANGED <<logged, now, crossed>>

\* The keys the sweep's iterator has before it; a new one starts over.
Ahead(m) == IF m.iterating THEN m.unseen ELSE DOMAIN m.entry

\* The first of them, as many as a batch.
Front(m) ==
    {k \in Ahead(m) : Cardinality({j \in Ahead(m) : <<j, k>> \in m.before}) < Batch}

\* Mutant of Goes: an iterator that is done is kept.
GoesOn(m) == TRUE

\* Is the iterator not done after a batch?
Goes(m) == Cardinality(Ahead(m)) >= Batch

\* The sweep timer fires: up to Batch entries are examined and the expired
\* ones purged.  With the last TTL the sweep stops.
Sweep ==
    LET begun == [cache EXCEPT !.iterating = Goes(cache),
                               !.unseen = IF Goes(cache) THEN Ahead(cache) \ Front(cache) ELSE {}]
    IN  /\ cache.timer
        /\ cache' = Touched(begun, Front(cache), now)
        /\ UNCHANGED <<logged, now, crossed>>

Tick == now < MaxTime /\ now' = now + 1 /\ UNCHANGED <<cache, logged, crossed>>

StoreNext ==
    \/ \E k \in Key, v \in Value, ttl \in Ttl : Set(k, v, ttl)
    \/ \E j \in Key : \E k \in Key \ {j}, v, w \in Value : MSet(j, v, k, w)
    \/ \E k \in Key : Incr(k) \/ Del(k)
    \/ \E k \in Key : \E prev, next \in Value \cup {Nothing} : Cas(k, prev, next)
    \/ \E keys \in SUBSET Key : Touch(keys)
    \/ Clear
    \/ Sweep
    \/ Tick

StoreSpec == StoreInit /\ [][StoreNext]_storeVars

\* setInterval calls sweep() again and again while its timer is set.
StoreFairSpec == StoreSpec /\ WF_storeVars(Sweep)
-----------------------------------------------------------------------------
(* Properties *)

Items == [v : 0 .. MaxValue, exp : Nat]

\* The Map has its entries in some order, and ...
Ordered(m) ==
    LET keys == DOMAIN m.entry
    IN  /\ m.before \subseteq keys \X keys
        /\ \A j, k \in keys : <<j, k>> \in m.before <=> j # k /\ <<k, j>> \notin m.before
        /\ \A i, j, k \in keys : {<<i, j>>, <<j, k>>} \subseteq m.before => <<i, k>> \in m.before

\* ... the sweep runs exactly while there are entries with a TTL, however they came and
\* went, and its iterator has some of them before it.
Swept(m) ==
    /\ m.ttlCount = Cardinality(Mortal(m))
    /\ m.timer <=> m.ttlCount > 0
    /\ m.iterating => m.timer
    /\ m.unseen \subseteq (IF m.iterating THEN DOMAIN m.entry ELSE {})

Typed(f) == DOMAIN f \subseteq Key /\ f \in [DOMAIN f -> Items]

MapOK(m) ==
    /\ m \in [entry : {m.entry}, before : {m.before}, ttlCount : Nat, timer : BOOLEAN,
              iterating : BOOLEAN, unseen : SUBSET Key]
    /\ Typed(m.entry)
    /\ Ordered(m) /\ Swept(m)

StoreTypeOK ==
    /\ MapOK(cache) /\ Typed(logged)
    /\ now \in 0 .. MaxTime
    /\ crossed \subseteq Key

\* What a client can see at time t.
Visible(f, t) == Restrict(f, {k \in DOMAIN f : ~Expired(f[k], t)})

Abstract == INSTANCE TtlStore WITH contents <- Visible(cache.entry, now), clock <- now

\* Some value expired in the middle of a command on its key.
Lapse == \E k \in Key : Crossing(k, now') /\ k \in DOMAIN Visible(cache'.entry, now')

\* Every command does what TtlStore says of it, and what else happens does
\* nothing a client can see.  Not covered: a value whose time is up between
\* two readings of the clock by a command that updates it.
ImplementsTtlStore ==
    /\ Abstract!Init
    /\ [][ \/ Lapse
           \/ /\ \A k \in Key, v \in Value, ttl \in Ttl :
                    Set(k, v, ttl) => Abstract!Set(k, v, ttl)
              /\ \A j \in Key : \A k \in Key \ {j}, v, w \in Value :
                    MSet(j, v, k, w) => Abstract!MSet([i \in {j, k} |-> IF i = j THEN v ELSE w])
              /\ \A k \in Key : (Incr(k) => Abstract!Incr(k)) /\ (Del(k) => Abstract!Del(k))
              /\ \A k \in Key : \A prev, next \in Value \cup {Nothing} :
                    Cas(k, prev, next) => Abstract!Cas(k, prev, next)
              /\ Clear => Abstract!Clear
              /\ (\E keys \in SUBSET Key : Touch(keys)) \/ Sweep \/ Tick => Abstract!Pass
         ]_storeVars

\* What is logged keeps up with what is stored: same keys, same values, same
\* expiry up to the time a command takes; so a counter that expires in memory
\* is not immortal in the log, nor the other way round.
LogAgrees ==
    \A k \in Key \ crossed :
        /\ k \in DOMAIN Visible(cache.entry, now) =>
            /\ k \in DOMAIN logged
            /\ logged[k].v = cache.entry[k].v
            /\ logged[k].exp = Never <=> cache.entry[k].exp = Never
            /\ logged[k].exp - cache.entry[k].exp \in 0 .. 1
        /\ k \in DOMAIN Visible(logged, now + 1) =>
            k \in DOMAIN Visible(cache.entry, now)

\* "a counter created with an expiry keeps counting down rather than becoming
\* immortal on the next incr" (store.js:322-323).  Not so if its time is up
\* between the two readings of the clock: no run checks it, see README.md.
CounterKeepsExpiry ==
    [][\A k \in Key : Incr(k) /\ k \in DOMAIN Visible(cache.entry, now) =>
        cache'.entry[k].exp = cache.entry[k].exp]_storeVars

\* "so a TTL'd key that is never read again can't leak" (store.js:77-78):
\* an expired entry leaves the Map though nobody touches it, as long as fewer
\* keys than a batch are new from one sweep to the next.
ExpiredIsPurged ==
    \A k \in Key :
        (k \in DOMAIN cache.entry /\ Expired(cache.entry[k], now))
            ~> ~(k \in DOMAIN cache.entry /\ Expired(cache.entry[k], now))
=============================================================================
