---------------------------- MODULE StoreProofs -----------------------------
(***************************************************************************)
(* Proofs about Store, for any keys, values and TTLs, any batch of the     *)
(* sweep, and any bounds of the clock and the counters: log and memory     *)
(* agree, and the commands do what TtlStore says.                          *)
(***************************************************************************)
EXTENDS Store, FiniteSetTheorems, TLAPS

-----------------------------------------------------------------------------
(* What the operations of the Map do to its entries, and that they keep    *)
(* count of the TTLs.                                                      *)

\* The keys with a TTL are finitely many.
LEMMA MortalFinite ==
    ASSUME NEW m, Typed(m.entry)
    PROVE  IsFiniteSet(Mortal(m)) /\ Mortal(m) \subseteq Key /\ Cardinality(Mortal(m)) \in Nat
  <1>1. Mortal(m) \in SUBSET Key
    BY DEF Mortal, Typed
  <1>2. QED
    BY <1>1, StoreAssumption, FS_Subset, FS_CardinalityType

\* A map whose count is off by d is put right by _ttlDelta(d), and its sweep with it.
LEMMA TtlDeltaSettles ==
    ASSUME NEW m, NEW d \in Int,
           m \in [entry : {m.entry}, before : {m.before}, ttlCount : Nat, timer : BOOLEAN,
                  iterating : BOOLEAN, unseen : SUBSET Key],
           Typed(m.entry), Ordered(m),
           m.ttlCount + d = Cardinality(Mortal(m)),
           m.timer <=> m.ttlCount > 0,
           m.iterating => m.timer,
           m.unseen \subseteq (IF m.iterating THEN DOMAIN m.entry ELSE {})
    PROVE  MapOK(TtlDelta(m, d)) /\ TtlDelta(m, d).entry = m.entry
  <1> DEFINE n == [m EXCEPT !.ttlCount = @ + d]
             r == TtlDelta(m, d)
  <1>1. m.ttlCount + d \in Nat
    BY MortalFinite
  <1>2. /\ r \in [entry : {m.entry}, before : {m.before}, ttlCount : Nat, timer : BOOLEAN,
                  iterating : BOOLEAN, unseen : SUBSET Key]
        /\ r.ttlCount = m.ttlCount + d
        /\ r.timer <=> r.ttlCount > 0
        /\ r.iterating => r.timer
        /\ r.unseen \subseteq (IF r.iterating THEN DOMAIN m.entry ELSE {})
    <2>1. CASE d = 0
      BY <2>1 DEF TtlDelta
    <2>2. CASE d # 0 /\ n.ttlCount > 0
      <3>1. r = [n EXCEPT !.timer = TRUE]
        BY <2>2 DEF TtlDelta
      <3>2. QED
        BY <1>1, <2>2, <3>1
    <2>3. CASE d # 0 /\ ~(n.ttlCount > 0)
      <3>1. r = [n EXCEPT !.timer = FALSE, !.iterating = FALSE, !.unseen = {}]
        BY <2>3 DEF TtlDelta, StopSweep
      <3>2. QED
        BY <1>1, <2>3, <3>1
    <2>4. QED
      BY <2>1, <2>2, <2>3
  <1>3. r.entry = m.entry /\ r.before = m.before
    BY <1>2
  <1>4. Mortal(r) = Mortal(m)
    BY <1>3 DEF Mortal
  <1>5. Ordered(r)
    BY <1>3 DEF Ordered
  <1> HIDE DEF n, r
  <1>6. MapOK(r)
    BY <1>2, <1>3, <1>4, <1>5 DEF MapOK, Swept
  <1>7. QED
    BY <1>3, <1>6 DEF r

\* What is left when keys go.
Kept(f, ks) == [k \in DOMAIN f \ ks |-> f[k]]

LEMMA DroppedFacts ==
    ASSUME NEW m, MapOK(m), NEW ks
    PROVE  MapOK(Dropped(m, ks)) /\ Dropped(m, ks).entry = Kept(m.entry, ks)
  <1> DEFINE w == Without(m, ks)
             d == -Cardinality(ks \cap Mortal(m))
  <1>1. /\ w \in [entry : {Kept(m.entry, ks)},
                  before : {{p \in m.before : p[1] \notin ks /\ p[2] \notin ks}},
                  ttlCount : {m.ttlCount}, timer : {m.timer},
                  iterating : {m.iterating}, unseen : {m.unseen \ ks}]
    BY DEF MapOK, Without, Restrict, Kept
  <1> HIDE DEF w
  <1>2. DOMAIN w.entry = DOMAIN m.entry \ ks /\ \A k \in DOMAIN w.entry : w.entry[k] = m.entry[k]
    BY <1>1 DEF Kept
  <1>3. Typed(w.entry)
    BY <1>1, <1>2 DEF MapOK, Typed, Kept
  <1>4. \A j, k \in DOMAIN w.entry : <<j, k>> \in w.before <=> <<j, k>> \in m.before
    BY <1>1, <1>2
  <1>5. Ordered(w)
    <2>1. w.before \subseteq (DOMAIN w.entry) \X (DOMAIN w.entry)
      <3> SUFFICES ASSUME NEW p \in w.before PROVE p \in (DOMAIN w.entry) \X (DOMAIN w.entry)
        OBVIOUS
      <3>1. p \in m.before /\ p[1] \notin ks /\ p[2] \notin ks
        BY <1>1
      <3>2. p \in (DOMAIN m.entry) \X (DOMAIN m.entry)
        BY <3>1 DEF MapOK, Ordered
      <3>3. QED
        BY <3>1, <3>2, <1>2
    <2>2. \A j, k \in DOMAIN w.entry : <<j, k>> \in w.before <=> j # k /\ <<k, j>> \notin w.before
      BY <1>2, <1>4 DEF MapOK, Ordered
    <2>3. \A i, j, k \in DOMAIN w.entry :
              <<i, j>> \in w.before /\ <<j, k>> \in w.before => <<i, k>> \in w.before
      <3>1. \A i, j, k \in DOMAIN m.entry :
                <<i, j>> \in m.before /\ <<j, k>> \in m.before => <<i, k>> \in m.before
        BY DEF MapOK, Ordered
      <3>2. QED
        BY <1>2, <1>4, <3>1
    <2>4. QED
      BY <2>1, <2>2, <2>3 DEF Ordered
  <1>6. Mortal(w) = Mortal(m) \ ks
    BY <1>2 DEF Mortal
  <1>7. IsFiniteSet(Mortal(m)) /\ Cardinality(Mortal(m)) \in Nat
    BY MortalFinite DEF MapOK
  <1>8. Mortal(m) \cap ks = ks \cap Mortal(m)
    OBVIOUS
  <1>9. d \in Int
    <2>1. IsFiniteSet(ks \cap Mortal(m))
      BY <1>7, FS_Intersection
    <2>2. QED
      BY <2>1, FS_CardinalityType
  <1>10. Cardinality(Mortal(m) \ ks) = Cardinality(Mortal(m)) - Cardinality(ks \cap Mortal(m))
    BY <1>7, <1>8, FS_Difference
  <1>11. m.ttlCount + d = Cardinality(Mortal(w))
    BY <1>6, <1>7, <1>9, <1>10 DEF MapOK, Swept
  <1>12. /\ w \in [entry : {w.entry}, before : {w.before}, ttlCount : Nat, timer : BOOLEAN,
                   iterating : BOOLEAN, unseen : SUBSET Key]
         /\ w.ttlCount = m.ttlCount
         /\ w.timer <=> w.ttlCount > 0
         /\ w.iterating => w.timer
         /\ w.unseen \subseteq (IF w.iterating THEN DOMAIN w.entry ELSE {})
    BY <1>1, <1>2 DEF MapOK, Swept
  <1> HIDE DEF d
  <1>13. MapOK(TtlDelta(w, d)) /\ TtlDelta(w, d).entry = w.entry
    BY <1>3, <1>5, <1>9, <1>11, <1>12, TtlDeltaSettles
  <1>14. QED
    BY <1>1, <1>13 DEF Dropped, w, d

LEMMA TouchedFacts ==
    ASSUME NEW m, MapOK(m), NEW ks, NEW t
    PROVE  /\ MapOK(Touched(m, ks, t))
           /\ DOMAIN Touched(m, ks, t).entry =
                {k \in DOMAIN m.entry : ~(k \in ks /\ Expired(m.entry[k], t))}
           /\ \A k \in DOMAIN Touched(m, ks, t).entry : Touched(m, ks, t).entry[k] = m.entry[k]
  <1> DEFINE gone == {k \in ks \cap DOMAIN m.entry : Expired(m.entry[k], t)}
  <1>1. MapOK(Dropped(m, gone)) /\ Dropped(m, gone).entry = Kept(m.entry, gone)
    BY DroppedFacts
  <1>2. Touched(m, ks, t) = Dropped(m, gone)
    BY DEF Touched
  <1>3. QED
    BY <1>1, <1>2 DEF Kept

\* An entry is put under a key that is new, or in the place of the key's own.
LEMMA PutFacts ==
    ASSUME NEW m, MapOK(m), NEW k \in Key, NEW item \in Items
    PROVE  /\ Put(m, k, item) \in
                [entry : {Put(m, k, item).entry}, before : {Put(m, k, item).before},
                 ttlCount : Nat, timer : BOOLEAN, iterating : BOOLEAN, unseen : SUBSET Key]
           /\ Typed(Put(m, k, item).entry) /\ Ordered(Put(m, k, item))
           /\ DOMAIN Put(m, k, item).entry = DOMAIN m.entry \cup {k}
           /\ \A j \in DOMAIN Put(m, k, item).entry :
                Put(m, k, item).entry[j] = IF j = k THEN item ELSE m.entry[j]
           /\ Put(m, k, item).ttlCount = m.ttlCount /\ Put(m, k, item).timer = m.timer
           /\ Put(m, k, item).iterating = m.iterating
           /\ Put(m, k, item).unseen \subseteq
                (IF m.iterating THEN DOMAIN Put(m, k, item).entry ELSE {})
  <1> DEFINE r == Put(m, k, item)
  <1>1. CASE k \in DOMAIN m.entry
    <2>1. r \in [entry : {With(m.entry, k, item)}, before : {m.before},
                 ttlCount : {m.ttlCount}, timer : {m.timer}, iterating : {m.iterating},
                 unseen : {m.unseen}]
      BY <1>1 DEF Put, MapOK
    <2> HIDE DEF r
    <2>2. /\ DOMAIN r.entry = DOMAIN m.entry \cup {k}
          /\ \A j \in DOMAIN r.entry : r.entry[j] = IF j = k THEN item ELSE m.entry[j]
          /\ r.before = m.before
      BY <1>1, <2>1 DEF MapOK, Typed, With
    <2>3. Typed(r.entry)
      BY <1>1, <2>1 DEF MapOK, Typed, With
    <2>4. DOMAIN r.entry = DOMAIN m.entry
      BY <1>1, <2>2
    <2>5. Ordered(r)
      BY <2>2, <2>4 DEF MapOK, Ordered
    <2>6. /\ r \in [entry : {r.entry}, before : {r.before}, ttlCount : Nat, timer : BOOLEAN,
                    iterating : BOOLEAN, unseen : SUBSET Key]
          /\ r.ttlCount = m.ttlCount /\ r.timer = m.timer /\ r.iterating = m.iterating
          /\ r.unseen \subseteq (IF m.iterating THEN DOMAIN r.entry ELSE {})
      BY <2>1, <2>4 DEF MapOK, Swept
    <2>7. QED
      BY <2>2, <2>3, <2>5, <2>6 DEF r
  <1>2. CASE k \notin DOMAIN m.entry
    <2>1. r \in [entry : {With(m.entry, k, item)},
                 before : {m.before \cup ((DOMAIN m.entry) \X {k})},
                 ttlCount : {m.ttlCount}, timer : {m.timer}, iterating : {m.iterating},
                 unseen : {IF m.iterating THEN m.unseen \cup {k} ELSE m.unseen}]
      BY <1>2 DEF Put, MapOK
    <2> HIDE DEF r
    <2>2. /\ DOMAIN r.entry = DOMAIN m.entry \cup {k}
          /\ \A j \in DOMAIN r.entry : r.entry[j] = IF j = k THEN item ELSE m.entry[j]
      BY <1>2, <2>1 DEF MapOK, Typed, With
    <2>3. Typed(r.entry)
      BY <1>2, <2>1 DEF MapOK, Typed, With
    <2>4. r.before \subseteq (DOMAIN r.entry) \X (DOMAIN r.entry)
      BY <2>1, <2>2 DEF MapOK, Ordered
    <2>5. \A i, j \in DOMAIN r.entry :
              <<i, j>> \in r.before <=> i # k /\ (j = k \/ <<i, j>> \in m.before)
      <3>1. \A i, j \in DOMAIN r.entry :
                <<i, j>> \in m.before => i \in DOMAIN m.entry /\ j \in DOMAIN m.entry
        BY DEF MapOK, Ordered
      <3>2. QED
        BY <1>2, <2>1, <2>2, <3>1
    <2>6. \A i, j \in DOMAIN r.entry : <<i, j>> \in r.before <=> i # j /\ <<j, i>> \notin r.before
      <3>1. \A i, j \in DOMAIN m.entry :
                <<i, j>> \in m.before <=> i # j /\ <<j, i>> \notin m.before
        BY DEF MapOK, Ordered
      <3>2. QED
        BY <1>2, <2>2, <2>5, <3>1
    <2>7. \A h, i, j \in DOMAIN r.entry :
              <<h, i>> \in r.before /\ <<i, j>> \in r.before => <<h, j>> \in r.before
      <3>1. \A h, i, j \in DOMAIN m.entry :
                <<h, i>> \in m.before /\ <<i, j>> \in m.before => <<h, j>> \in m.before
        BY DEF MapOK, Ordered
      <3>2. QED
        BY <1>2, <2>2, <2>5, <3>1
    <2>8. Ordered(r)
      BY <2>4, <2>6, <2>7 DEF Ordered
    <2>9. /\ r \in [entry : {r.entry}, before : {r.before}, ttlCount : Nat, timer : BOOLEAN,
                    iterating : BOOLEAN, unseen : SUBSET Key]
          /\ r.ttlCount = m.ttlCount /\ r.timer = m.timer /\ r.iterating = m.iterating
          /\ r.unseen \subseteq (IF m.iterating THEN DOMAIN r.entry ELSE {})
      BY <2>1, <2>2 DEF MapOK, Swept
    <2>10. QED
      BY <2>2, <2>3, <2>8, <2>9 DEF r
  <1>3. QED
    BY <1>1, <1>2

\* set(): the map stays in order, and only the key's entry is another.
LEMMA StoredFacts ==
    ASSUME NEW m, MapOK(m), NEW k \in Key, NEW item \in Items
    PROVE  /\ MapOK(Stored(m, k, item))
           /\ DOMAIN Stored(m, k, item).entry = DOMAIN m.entry \cup {k}
           /\ \A j \in DOMAIN Stored(m, k, item).entry :
                Stored(m, k, item).entry[j] = IF j = k THEN item ELSE m.entry[j]
  <1> DEFINE next == Put(m, k, item)
             d    == HasTtl(next, k) - HasTtl(m, k)
  <1>1. Stored(m, k, item) = TtlDelta(next, d)
    BY DEF Stored
  <1>2. /\ next \in [entry : {next.entry}, before : {next.before}, ttlCount : Nat,
                     timer : BOOLEAN, iterating : BOOLEAN, unseen : SUBSET Key]
        /\ Typed(next.entry) /\ Ordered(next)
        /\ DOMAIN next.entry = DOMAIN m.entry \cup {k}
        /\ \A j \in DOMAIN next.entry : next.entry[j] = IF j = k THEN item ELSE m.entry[j]
        /\ next.ttlCount = m.ttlCount /\ next.timer = m.timer
        /\ next.iterating = m.iterating
        /\ next.unseen \subseteq (IF m.iterating THEN DOMAIN next.entry ELSE {})
    BY PutFacts
  <1> HIDE DEF next
  <1>3. HasTtl(m, k) \in {0, 1} /\ HasTtl(next, k) \in {0, 1} /\ d \in Int
    BY DEF HasTtl
  <1>4. /\ IsFiniteSet(Mortal(m)) /\ Cardinality(Mortal(m)) \in Nat
        /\ IsFiniteSet(Mortal(next)) /\ Cardinality(Mortal(next)) \in Nat
    BY <1>2, MortalFinite DEF MapOK
  <1>5. Mortal(next) \ {k} = Mortal(m) \ {k}
    BY <1>2 DEF Mortal
  <1>6. Cardinality(Mortal(next)) = Cardinality(Mortal(m)) + d
    <2>1. \A x, S : IsFiniteSet(S) => Cardinality(S \ {x}) =
              IF x \in S THEN Cardinality(S) - 1 ELSE Cardinality(S)
      BY FS_RemoveElement
    <2>2. /\ Cardinality(Mortal(m) \ {k}) = Cardinality(Mortal(m)) - HasTtl(m, k)
          /\ Cardinality(Mortal(next) \ {k}) = Cardinality(Mortal(next)) - HasTtl(next, k)
      BY <1>4, <2>1 DEF HasTtl
    <2>3. Cardinality(Mortal(next) \ {k}) = Cardinality(Mortal(m) \ {k})
      BY <1>5
    <2>4. QED
      BY <1>3, <1>4, <2>2, <2>3
  <1>7. MapOK(TtlDelta(next, d)) /\ TtlDelta(next, d).entry = next.entry
    <2> HIDE DEF d
    <2>1. next.ttlCount + d = Cardinality(Mortal(next))
      BY <1>2, <1>6 DEF MapOK, Swept
    <2>2. /\ next.timer <=> next.ttlCount > 0
          /\ next.iterating => next.timer
          /\ next.unseen \subseteq (IF next.iterating THEN DOMAIN next.entry ELSE {})
      BY <1>2 DEF MapOK, Swept
    <2>3. QED
      BY <1>2, <1>3, <2>1, <2>2, TtlDeltaSettles
  <1>8. QED
    BY <1>1, <1>2, <1>7

LEMMA ItemType ==
    ASSUME NEW v \in 0 .. MaxValue, NEW e \in Nat
    PROVE  Item(v, e) \in Items /\ Item(v, e).v = v /\ Item(v, e).exp = e
  BY DEF Item, Items

LEMMA MapSetFacts ==
    ASSUME NEW m, MapOK(m), NEW k \in Key, NEW v \in 0 .. MaxValue, NEW ttl \in Nat,
           NEW t1, NEW t2 \in Nat
    PROVE  /\ MapOK(MapSet(m, k, v, ttl, t1, t2))
           /\ DOMAIN MapSet(m, k, v, ttl, t1, t2).entry = DOMAIN m.entry \cup {k}
           /\ \A j \in DOMAIN MapSet(m, k, v, ttl, t1, t2).entry :
                MapSet(m, k, v, ttl, t1, t2).entry[j] =
                    IF j = k THEN Item(v, IF ttl > 0 THEN t2 + ttl ELSE Never) ELSE m.entry[j]
  <1> DEFINE cur  == Touched(m, {k}, t1)
             item == Item(v, IF ttl > 0 THEN t2 + ttl ELSE Never)
  <1>1. /\ MapOK(cur)
        /\ DOMAIN cur.entry = {j \in DOMAIN m.entry : ~(j \in {k} /\ Expired(m.entry[j], t1))}
        /\ \A j \in DOMAIN cur.entry : cur.entry[j] = m.entry[j]
    BY TouchedFacts
  <1>2. item \in Items
    BY ItemType DEF Never
  <1>3. MapSet(m, k, v, ttl, t1, t2) = Stored(cur, k, item)
    BY DEF MapSet
  <1> HIDE DEF cur, item
  <1>4. QED
    BY <1>1, <1>2, <1>3, StoredFacts DEF item

LEMMA KeepTtlFacts ==
    ASSUME NEW m, MapOK(m), NEW k \in Key, NEW v \in 0 .. MaxValue, NEW t
    PROVE  /\ MapOK(KeepTtl(m, k, v, t))
           /\ DOMAIN KeepTtl(m, k, v, t).entry = DOMAIN m.entry \cup {k}
           /\ \A j \in DOMAIN KeepTtl(m, k, v, t).entry :
                KeepTtl(m, k, v, t).entry[j] =
                    IF j # k THEN m.entry[j]
                    ELSE Item(v, IF k \in DOMAIN m.entry /\ ~Expired(m.entry[k], t)
                                 THEN m.entry[k].exp ELSE Never)
  <1> DEFINE cur  == Touched(m, {k}, t)
             e    == IF k \in DOMAIN cur.entry THEN cur.entry[k].exp ELSE Never
  <1>1. /\ MapOK(cur)
        /\ DOMAIN cur.entry = {j \in DOMAIN m.entry : ~(j \in {k} /\ Expired(m.entry[j], t))}
        /\ \A j \in DOMAIN cur.entry : cur.entry[j] = m.entry[j]
    BY TouchedFacts
  <1>2. KeepTtl(m, k, v, t) = Stored(cur, k, Item(v, e))
    BY DEF KeepTtl
  <1> HIDE DEF cur
  <1>3. e \in Nat
    BY <1>1 DEF MapOK, Typed, Items, Never
  <1>4. e = IF k \in DOMAIN m.entry /\ ~Expired(m.entry[k], t) THEN m.entry[k].exp ELSE Never
    BY <1>1
  <1> HIDE DEF e
  <1>5. Item(v, e) \in Items
    BY <1>3, ItemType
  <1>6. QED
    BY <1>1, <1>2, <1>4, <1>5, StoredFacts

-----------------------------------------------------------------------------
(* The store and its log *)

\* A command reads the clock in order, and it moves at most once meanwhile.
LEMMA AtFacts ==
    ASSUME NEW p \in Moves, now \in 0 .. MaxTime
    PROVE  /\ \A i \in 1 .. 4 : At(p, i) \in 0 .. MaxTime /\ At(p, i) \in {now, now + 1}
           /\ At(p, 1) <= At(p, 2) /\ At(p, 2) <= At(p, 3) /\ At(p, 3) <= At(p, 4)
  BY StoreAssumption DEF At, Moves

LEMMA WithFacts ==
    ASSUME NEW f, NEW k, NEW x
    PROVE  /\ DOMAIN With(f, k, x) = DOMAIN f \cup {k}
           /\ \A j \in DOMAIN With(f, k, x) : With(f, k, x)[j] = IF j = k THEN x ELSE f[j]
  BY DEF With

LEMMA WithTyped ==
    ASSUME NEW f, Typed(f), NEW k \in Key, NEW x \in Items
    PROVE  Typed(With(f, k, x))
  BY DEF With, Typed

LEMMA VisibleFacts ==
    ASSUME NEW f, NEW t
    PROVE  /\ DOMAIN Visible(f, t) = {k \in DOMAIN f : ~Expired(f[k], t)}
           /\ \A k \in DOMAIN Visible(f, t) : Visible(f, t)[k] = f[k]
  BY DEF Visible, Restrict

\* What LogAgrees says of a key, of entries f and records g at time t.
Agree(f, g, t, k) ==
    /\ k \in DOMAIN f /\ ~Expired(f[k], t) =>
        /\ k \in DOMAIN g
        /\ g[k].v = f[k].v
        /\ g[k].exp = Never <=> f[k].exp = Never
        /\ g[k].exp - f[k].exp \in 0 .. 1
    /\ k \in DOMAIN g /\ ~Expired(g[k], t + 1) => k \in DOMAIN f /\ ~Expired(f[k], t)

LEMMA LogAgreesIs == LogAgrees <=> \A k \in Key \ crossed : Agree(cache.entry, logged, now, k)
  <1>1. /\ DOMAIN Visible(cache.entry, now) =
                {k \in DOMAIN cache.entry : ~Expired(cache.entry[k], now)}
        /\ DOMAIN Visible(logged, now + 1) = {k \in DOMAIN logged : ~Expired(logged[k], now + 1)}
    BY VisibleFacts
  <1>2. QED
    BY <1>1 DEF LogAgrees, Agree

\* They go on agreeing on a key that is left alone, purged or not.
LEMMA AgreeLasts ==
    ASSUME NEW f, NEW g, Typed(f), Typed(g), NEW t \in Nat, NEW u \in {t, t + 1}, NEW k,
           Agree(f, g, t, k),
           NEW f2, NEW g2,
           k \in DOMAIN f2 => k \in DOMAIN f /\ f2[k] = f[k],
           k \in DOMAIN f /\ ~Expired(f[k], u) => k \in DOMAIN f2,
           k \in DOMAIN g2 <=> k \in DOMAIN g,
           k \in DOMAIN g => g2[k] = g[k]
    PROVE  Agree(f2, g2, u, k)
  <1>1. /\ k \in DOMAIN f => f[k].exp \in Nat
        /\ k \in DOMAIN g => g[k].exp \in Nat
    BY DEF Typed, Items
  <1>2. QED
    BY <1>1 DEF Agree, Expired, Never

\* A step that leaves all keys alone but those in ks, though it may purge others.
Spares(ks) ==
    /\ now' \in {now, now + 1}
    /\ \A j \in DOMAIN cache'.entry \ ks :
            j \in DOMAIN cache.entry /\ cache'.entry[j] = cache.entry[j]
    /\ \A j \in DOMAIN cache.entry \ ks :
            ~Expired(cache.entry[j], now') => j \in DOMAIN cache'.entry
    /\ \A j \in Key \ ks :
            /\ j \in DOMAIN logged' <=> j \in DOMAIN logged
            /\ j \in DOMAIN logged => logged'[j] = logged[j]
    /\ crossed \ ks \subseteq crossed'

LEMMA AgreeStep ==
    ASSUME StoreTypeOK, LogAgrees, NEW ks, Spares(ks),
           \A k \in (ks \cap Key) \ crossed' : Agree(cache'.entry, logged', now', k)
    PROVE  LogAgrees'
  <1>1. LogAgrees' <=> \A k \in Key \ crossed' : Agree(cache'.entry, logged', now', k)
    <2>1. /\ DOMAIN Visible(cache'.entry, now') =
                  {k \in DOMAIN cache'.entry : ~Expired(cache'.entry[k], now')}
          /\ DOMAIN Visible(logged', now' + 1) =
                  {k \in DOMAIN logged' : ~Expired(logged'[k], now' + 1)}
      BY VisibleFacts
    <2>2. QED
      BY <2>1 DEF LogAgrees, Agree
  <1> SUFFICES ASSUME NEW k \in Key \ crossed', k \notin ks
               PROVE  Agree(cache'.entry, logged', now', k)
    BY <1>1
  <1>2. Agree(cache.entry, logged, now, k)
    BY LogAgreesIs DEF Spares
  <1>3. Typed(cache.entry) /\ Typed(logged) /\ now \in Nat
    BY DEF StoreTypeOK, MapOK
  <1>4. /\ k \in DOMAIN cache'.entry => k \in DOMAIN cache.entry /\ cache'.entry[k] = cache.entry[k]
        /\ k \in DOMAIN cache.entry /\ ~Expired(cache.entry[k], now') => k \in DOMAIN cache'.entry
        /\ k \in DOMAIN logged' <=> k \in DOMAIN logged
        /\ k \in DOMAIN logged => logged'[k] = logged[k]
        /\ now' \in {now, now + 1} /\ k \notin crossed
    BY DEF Spares
  <1>5. QED
    BY <1>2, <1>3, <1>4, AgreeLasts

\* The inductive invariant: what is logged agrees with the entries, and those are in order.
StoreInv == StoreTypeOK /\ LogAgrees

\* A SET stores and logs the one key it names.
LEMMA SetStep ==
    ASSUME StoreInv, NEW k \in Key, NEW v \in Value, NEW ttl \in Ttl, Set(k, v, ttl)
    PROVE  StoreInv'
  <1>1. PICK p \in Moves :
            /\ cache' = MapSet(cache, k, v, ttl, At(p, 1), At(p, 2))
            /\ LogSet(k, v, ttl, At(p, 3))
            /\ now' = At(p, 4)
            /\ crossed' = crossed \ {k}
    BY DEF Set
  <1> DEFINE t1 == At(p, 1)
             t2 == At(p, 2)
             t3 == At(p, 3)
             t4 == At(p, 4)
  <1>2. /\ t1 \in Nat /\ t2 \in Nat /\ t3 \in Nat /\ t4 \in 0 .. MaxTime
        /\ now' \in {now, now + 1}
        /\ t2 <= t3 /\ t3 <= t4 /\ t3 - t2 \in 0 .. 1 /\ t4 - t2 \in 0 .. 1
    BY <1>1, AtFacts, StoreAssumption DEF StoreInv, StoreTypeOK
  <1>3. v \in 0 .. MaxValue /\ ttl \in Nat
    BY StoreAssumption
  <1> HIDE DEF t1, t2, t3, t4
  <1>4. /\ MapOK(cache')
        /\ DOMAIN cache'.entry = DOMAIN cache.entry \cup {k}
        /\ \A j \in DOMAIN cache'.entry :
              cache'.entry[j] = IF j = k THEN Item(v, IF ttl > 0 THEN t2 + ttl ELSE Never)
                                ELSE cache.entry[j]
    <2>1. cache' = MapSet(cache, k, v, ttl, t1, t2)
      BY <1>1 DEF t1, t2
    <2>2. MapOK(cache)
      BY DEF StoreInv, StoreTypeOK
    <2>3. QED
      BY <1>2, <1>3, <2>1, <2>2, MapSetFacts
  <1> DEFINE e == IF ttl > 0 THEN t2 + ttl ELSE Never
             g == IF ttl > 0 THEN t3 + ttl ELSE Never
  <1>6. e \in Nat /\ g \in Nat /\ (e = Never <=> ttl = 0) /\ (g = Never <=> ttl = 0)
    BY <1>2, <1>3 DEF Never
  <1>7. logged' = With(logged, k, Item(v, g))
    BY <1>1 DEF LogSet, t3
  <1>8. Typed(logged')
    BY <1>3, <1>6, <1>7, ItemType, WithTyped DEF StoreInv, StoreTypeOK
  <1>9. StoreTypeOK'
    BY <1>1, <1>2, <1>4, <1>8 DEF StoreInv, StoreTypeOK, t4
  <1>10. Agree(cache'.entry, logged', now', k)
    <2>1. cache'.entry[k] = Item(v, e) /\ k \in DOMAIN cache'.entry
      BY <1>4
    <2>2. logged'[k] = Item(v, g) /\ k \in DOMAIN logged'
      BY <1>7 DEF With
    <2>3. /\ cache'.entry[k].v = v /\ cache'.entry[k].exp = e
          /\ logged'[k].v = v /\ logged'[k].exp = g
      BY <1>3, <1>6, <2>1, <2>2, ItemType
    <2>4. g - e \in 0 .. 1 /\ (g > t4 + 1 => e > t4)
      BY <1>2, <1>3 DEF Never
    <2> HIDE DEF e, g
    <2>5. now' = t4
      BY <1>1 DEF t4
    <2>6. QED
      BY <1>2, <1>6, <2>1, <2>2, <2>3, <2>4, <2>5 DEF Agree, Expired
  <1>11. LogAgrees'
    <2>1. Spares({k})
      BY <1>1, <1>2, <1>4, <1>7 DEF Spares, With
    <2>2. \A j \in ({k} \cap Key) \ crossed' : Agree(cache'.entry, logged', now', j)
      BY <1>10
    <2>3. QED
      BY <2>1, <2>2, AgreeStep DEF StoreInv
  <1>12. QED
    BY <1>9, <1>11 DEF StoreInv

\* An MSET stores and logs its two.
LEMMA MSetStep ==
    ASSUME StoreInv, NEW j \in Key, NEW k \in Key \ {j}, NEW v \in Value, NEW w \in Value,
           MSet(j, v, k, w)
    PROVE  StoreInv'
  <1>1. PICK p \in Moves :
            /\ cache' = MapSet(MapSet(cache, j, v, 0, At(p, 1), At(p, 1)),
                               k, w, 0, At(p, 2), At(p, 2))
            /\ logged' = With(With(logged, j, Item(v, Never)), k, Item(w, Never))
            /\ now' = At(p, 4)
            /\ crossed' = crossed \ {j, k}
    BY DEF MSet
  <1> DEFINE t1 == At(p, 1)
             t2 == At(p, 2)
             first == MapSet(cache, j, v, 0, t1, t1)
  <1>2. t1 \in Nat /\ t2 \in Nat /\ now' \in 0 .. MaxTime /\ now' \in {now, now + 1}
    BY <1>1, AtFacts, StoreAssumption DEF StoreInv, StoreTypeOK
  <1>3. v \in 0 .. MaxValue /\ w \in 0 .. MaxValue /\ 0 \in Nat
    BY StoreAssumption
  <1>4. cache' = MapSet(first, k, w, 0, t2, t2)
    BY <1>1
  <1> HIDE DEF t1, t2
  <1>5. /\ MapOK(first)
        /\ DOMAIN first.entry = DOMAIN cache.entry \cup {j}
        /\ \A i \in DOMAIN first.entry :
              first.entry[i] = IF i = j THEN Item(v, Never) ELSE cache.entry[i]
    <2>1. MapOK(cache)
      BY DEF StoreInv, StoreTypeOK
    <2>2. QED
      BY <1>2, <1>3, <2>1, MapSetFacts
  <1> HIDE DEF first
  <1>6. /\ MapOK(cache')
        /\ DOMAIN cache'.entry = DOMAIN first.entry \cup {k}
        /\ \A i \in DOMAIN cache'.entry :
              cache'.entry[i] = IF i = k THEN Item(w, Never) ELSE first.entry[i]
    BY <1>2, <1>3, <1>4, <1>5, MapSetFacts
  <1>7. /\ Item(v, Never) \in Items /\ Item(v, Never).v = v /\ Item(v, Never).exp = Never
        /\ Item(w, Never) \in Items /\ Item(w, Never).v = w /\ Item(w, Never).exp = Never
    BY <1>3, ItemType DEF Never
  <1>8. Typed(logged')
    BY <1>1, <1>7, WithTyped DEF StoreInv, StoreTypeOK
  <1>9. StoreTypeOK'
    BY <1>1, <1>2, <1>6, <1>8 DEF StoreInv, StoreTypeOK
  <1>10. Spares({j, k})
    BY <1>1, <1>2, <1>5, <1>6 DEF Spares, With
  <1>11. \A i \in {j, k} : i \in DOMAIN cache'.entry /\ i \in DOMAIN logged'
                           /\ cache'.entry[i] = logged'[i] /\ cache'.entry[i].exp = Never
    BY <1>1, <1>5, <1>6, <1>7 DEF With
  <1>12. \A i \in ({j, k} \cap Key) \ crossed' : Agree(cache'.entry, logged', now', i)
    BY <1>11 DEF Agree, Expired, Never
  <1>13. QED
    BY <1>9, <1>10, <1>12, AgreeStep DEF StoreInv

\* INCR, and a CAS that stores: what was there may expire meanwhile.
LEMMA UpdateStep ==
    ASSUME StoreInv, NEW k \in Key, NEW v \in 0 .. MaxValue, NEW p \in Moves,
           NEW put, put = KeepTtl(Touched(cache, {k}, At(p, 1)), k, v, At(p, 2)),
           cache' = put, LogUpdate(put, k, v, p), now' = At(p, 4), Crossed(k)
    PROVE  StoreInv'
  <1> DEFINE t1 == At(p, 1)
             t2 == At(p, 2)
             t3 == At(p, 3)
             t4 == At(p, 4)
             cur == Touched(cache, {k}, t1)
             e == IF k \in DOMAIN cur.entry /\ ~Expired(cur.entry[k], t2)
                  THEN cur.entry[k].exp ELSE Never
             left == Remaining(put, k, t3)
             g == IF left > 0 THEN t4 + left ELSE Never
  <1>1. /\ t1 \in Nat /\ t2 \in Nat /\ t3 \in Nat /\ t4 \in 0 .. MaxTime /\ t4 \in Nat
        /\ now' = t4 /\ now' \in {now, now + 1} /\ now \in Nat
        /\ now <= t1 /\ t1 <= t2 /\ t2 <= t3 /\ t3 <= t4 /\ t4 - t3 \in 0 .. 1
    BY AtFacts, StoreAssumption DEF StoreInv, StoreTypeOK
  <1>2. MapOK(cache) /\ Typed(cache.entry)
    BY DEF StoreInv, StoreTypeOK, MapOK
  <1>3. /\ MapOK(cur)
        /\ DOMAIN cur.entry =
                {j \in DOMAIN cache.entry : ~(j \in {k} /\ Expired(cache.entry[j], t1))}
        /\ \A j \in DOMAIN cur.entry : cur.entry[j] = cache.entry[j]
    BY <1>2, TouchedFacts
  <1>4. put = KeepTtl(cur, k, v, t2)
    OBVIOUS
  <1>5. logged' = With(logged, k, Item(v, g))
    BY DEF LogUpdate, LogSet
  <1>6. \A j \in DOMAIN cache.entry : cache.entry[j].exp \in Nat
    BY <1>2 DEF Typed, Items
  <1> HIDE DEF t1, t2, t3, t4, cur, left
  <1>7. /\ MapOK(put)
        /\ DOMAIN put.entry = DOMAIN cur.entry \cup {k}
        /\ \A j \in DOMAIN put.entry :
              put.entry[j] = IF j # k THEN cur.entry[j] ELSE Item(v, e)
    <2> DEFINE r == KeepTtl(cur, k, v, t2)
    <2>1. /\ MapOK(r)
          /\ DOMAIN r.entry = DOMAIN cur.entry \cup {k}
          /\ \A j \in DOMAIN r.entry :
                r.entry[j] =
                    IF j # k THEN cur.entry[j]
                    ELSE Item(v, IF k \in DOMAIN cur.entry /\ ~Expired(cur.entry[k], t2)
                                 THEN cur.entry[k].exp ELSE Never)
      BY <1>3, KeepTtlFacts
    <2> HIDE DEF r
    <2>2. r = put
      BY <1>4 DEF r
    <2>3. QED
      BY <2>1, <2>2
  <1>8. e \in Nat
    BY <1>3, <1>6 DEF Never
  <1>9. put.entry[k] = Item(v, e) /\ put.entry[k].v = v /\ put.entry[k].exp = e
    <2>1. put.entry[k] = Item(v, e)
      BY <1>7
    <2>2. Item(v, e).v = v /\ Item(v, e).exp = e
      BY <1>8, ItemType
    <2>3. QED
      BY <2>1, <2>2
  <1>10. left = IF e > t3 THEN e - t3 ELSE 0
    BY <1>7, <1>9 DEF Remaining, left
  <1>11. \/ Crossing(k, now')
         \/ e = Never
         \/ e > t4
    <2>1. CASE k \in DOMAIN cache.entry /\ ~Expired(cache.entry[k], now)
      BY <1>1, <1>3, <1>6, <2>1 DEF Crossing, Expired
    <2>2. CASE ~(k \in DOMAIN cache.entry /\ ~Expired(cache.entry[k], now))
      BY <1>1, <1>3, <1>6, <2>2 DEF Expired
    <2>3. QED
      BY <2>1, <2>2
  <1> HIDE DEF e
  <1>12. g \in Nat
    BY <1>1, <1>8, <1>10 DEF Never
  <1>13. /\ Item(v, g) \in Items /\ Item(v, g).v = v /\ Item(v, g).exp = g
    BY <1>12, ItemType
  <1>14. Typed(logged')
    BY <1>5, <1>13, WithTyped DEF StoreInv, StoreTypeOK
  <1>15. StoreTypeOK'
    BY <1>1, <1>7, <1>14 DEF StoreInv, StoreTypeOK, Crossed
  <1>16. Spares({k})
    BY <1>1, <1>3, <1>5, <1>7 DEF Spares, With, Crossed, Expired
  <1>17. ASSUME k \notin crossed' PROVE Agree(cache'.entry, logged', now', k)
    <2>1. e = Never \/ e > t4
      BY <1>11, <1>17 DEF Crossed
    <2>2. /\ e = Never => g = Never
          /\ e > t4 => g - e \in 0 .. 1 /\ g > 0
      BY <1>1, <1>8, <1>10 DEF Never
    <2>3. logged'[k] = Item(v, g) /\ k \in DOMAIN logged'
      BY <1>5 DEF With
    <2>4. k \in DOMAIN cache'.entry
      BY <1>7
    <2> HIDE DEF g
    <2>5. QED
      BY <1>1, <1>8, <1>9, <1>12, <1>13, <2>1, <2>2, <2>3, <2>4 DEF Agree, Expired, Never
  <1>18. \A j \in ({k} \cap Key) \ crossed' : Agree(cache'.entry, logged', now', j)
    BY <1>17
  <1>19. QED
    BY <1>15, <1>16, <1>18, AgreeStep DEF StoreInv

\* Entries are purged, and nothing else happens.
LEMMA PurgeStep ==
    ASSUME StoreInv, NEW m, MapOK(m), m.entry = cache.entry, NEW ks, NEW u \in {now, now + 1},
           cache' = Touched(m, ks, u), u <= now', now' \in {now, now + 1}, now' <= MaxTime,
           UNCHANGED <<logged, crossed>>
    PROVE  StoreInv'
  <1>1. /\ MapOK(cache')
        /\ DOMAIN cache'.entry =
                {k \in DOMAIN cache.entry : ~(k \in ks /\ Expired(cache.entry[k], u))}
        /\ \A k \in DOMAIN cache'.entry : cache'.entry[k] = cache.entry[k]
    BY TouchedFacts
  <1>2. now \in Nat /\ now' \in 0 .. MaxTime
    BY StoreAssumption DEF StoreInv, StoreTypeOK
  <1>3. StoreTypeOK'
    BY <1>1, <1>2 DEF StoreInv, StoreTypeOK
  <1>4. \A k \in DOMAIN cache.entry : cache.entry[k].exp \in Nat
    BY DEF StoreInv, StoreTypeOK, MapOK, Typed, Items
  <1>5. Spares({})
    BY <1>1, <1>2, <1>4 DEF Spares, Expired
  <1>6. QED
    BY <1>3, <1>5, AgreeStep DEF StoreInv

\* INCR and DECR update their key.
LEMMA IncrStep ==
    ASSUME StoreInv, NEW k \in Key, Incr(k)
    PROVE  StoreInv'
  <1>1. PICK p \in Moves :
            LET cur  == Touched(cache, {k}, At(p, 1))
                base == IF MapGet(cur, k) = Nothing THEN 0 ELSE MapGet(cur, k)
                next == KeepTtl(cur, k, base + 1, At(p, 2))
            IN  /\ base < MaxValue
                /\ cache' = next
                /\ LogUpdate(next, k, base + 1, p)
                /\ now' = At(p, 4)
                /\ Crossed(k)
    BY DEF Incr
  <1> DEFINE cur  == Touched(cache, {k}, At(p, 1))
             base == IF MapGet(cur, k) = Nothing THEN 0 ELSE MapGet(cur, k)
  <1>2. MapOK(cur)
    BY TouchedFacts DEF StoreInv, StoreTypeOK
  <1>3. base \in Nat
    <2> HIDE DEF cur
    <2>1. k \in DOMAIN cur.entry => cur.entry[k].v \in Nat
      BY <1>2, StoreAssumption DEF MapOK, Typed, Items
    <2>2. QED
      BY <2>1 DEF MapGet
  <1>4. base + 1 \in 0 .. MaxValue
    BY <1>1, <1>3, StoreAssumption
  <1>5. /\ cache' = KeepTtl(cur, k, base + 1, At(p, 2))
        /\ LogUpdate(KeepTtl(cur, k, base + 1, At(p, 2)), k, base + 1, p)
        /\ now' = At(p, 4) /\ Crossed(k)
    BY <1>1
  <1> HIDE DEF base
  <1>6. QED
    BY <1>4, <1>5, UpdateStep

\* A key is deleted.
LEMMA RemoveStep ==
    ASSUME StoreInv, NEW k \in Key, NEW m, MapOK(m),
           \A j \in DOMAIN m.entry : j \in DOMAIN cache.entry /\ m.entry[j] = cache.entry[j],
           \A j \in DOMAIN cache.entry : j # k => j \in DOMAIN m.entry,
           cache' = Dropped(m, {k}), LogDel(k), crossed' = crossed \ {k},
           now' \in {now, now + 1}, now' \in 0 .. MaxTime
    PROVE  StoreInv'
  <1>1. MapOK(cache') /\ cache'.entry = Kept(m.entry, {k})
    BY DroppedFacts
  <1>2. /\ DOMAIN cache'.entry = DOMAIN m.entry \ {k}
        /\ \A j \in DOMAIN cache'.entry : cache'.entry[j] = m.entry[j]
    BY <1>1 DEF Kept
  <1>3. /\ DOMAIN logged' = DOMAIN logged \ {k}
        /\ \A j \in DOMAIN logged' : logged'[j] = logged[j]
        /\ Typed(logged')
    BY DEF LogDel, Restrict, StoreInv, StoreTypeOK, Typed
  <1>4. StoreTypeOK'
    BY <1>1, <1>3 DEF StoreInv, StoreTypeOK
  <1>5. Spares({k})
    BY <1>2, <1>3 DEF Spares
  <1>6. Agree(cache'.entry, logged', now', k)
    BY <1>2, <1>3 DEF Agree
  <1>7. \A j \in ({k} \cap Key) \ crossed' : Agree(cache'.entry, logged', now', j)
    BY <1>6
  <1>8. QED
    BY <1>4, <1>5, <1>7, AgreeStep DEF StoreInv

\* A CAS purges, deletes or updates.
LEMMA CasStep ==
    ASSUME StoreInv, NEW k \in Key, NEW prev \in Value \cup {Nothing},
           NEW next \in Value \cup {Nothing}, Cas(k, prev, next)
    PROVE  StoreInv'
  <1>1. PICK p \in Moves :
            LET cur == Touched(cache, {k}, At(p, 1))
                put == KeepTtl(cur, k, next, At(p, 2))
            IN  /\ now' = At(p, 4)
                /\ \/ /\ ~Matches(cur, k, prev)
                      /\ cache' = cur
                      /\ UNCHANGED <<logged, crossed>>
                   \/ /\ Matches(cur, k, prev) /\ next = Nothing
                      /\ cache' = Dropped(cur, {k})
                      /\ LogDel(k)
                      /\ crossed' = crossed \ {k}
                   \/ /\ Matches(cur, k, prev) /\ next # Nothing
                      /\ cache' = put
                      /\ LogUpdate(put, k, next, p)
                      /\ Crossed(k)
    BY DEF Cas
  <1> DEFINE t1  == At(p, 1)
             cur == Touched(cache, {k}, t1)
             put == KeepTtl(cur, k, next, At(p, 2))
  <1>2. /\ t1 \in {now, now + 1} /\ t1 <= now' /\ now' \in {now, now + 1}
        /\ now' \in 0 .. MaxTime /\ now' <= MaxTime
    BY <1>1, AtFacts, StoreAssumption DEF StoreInv, StoreTypeOK
  <1>3. MapOK(cache)
    BY DEF StoreInv, StoreTypeOK
  <1>4. CASE cache' = cur /\ UNCHANGED <<logged, crossed>>
    <2> HIDE DEF t1
    <2>1. QED
      BY <1>2, <1>3, <1>4, PurgeStep
  <1>5. CASE cache' = Dropped(cur, {k}) /\ LogDel(k) /\ crossed' = crossed \ {k}
    <2> HIDE DEF t1
    <2>1. /\ MapOK(cur)
          /\ DOMAIN cur.entry =
                {j \in DOMAIN cache.entry : ~(j \in {k} /\ Expired(cache.entry[j], t1))}
          /\ \A j \in DOMAIN cur.entry : cur.entry[j] = cache.entry[j]
      BY <1>3, TouchedFacts
    <2> HIDE DEF cur
    <2>2. /\ \A j \in DOMAIN cur.entry : j \in DOMAIN cache.entry /\ cur.entry[j] = cache.entry[j]
          /\ \A j \in DOMAIN cache.entry : j # k => j \in DOMAIN cur.entry
      BY <2>1
    <2>3. QED
      BY <1>2, <1>5, <2>1, <2>2, RemoveStep
  <1>6. CASE /\ next # Nothing /\ now' = At(p, 4)
             /\ cache' = put /\ LogUpdate(put, k, next, p) /\ Crossed(k)
    <2>1. next \in 0 .. MaxValue
      BY <1>6, StoreAssumption
    <2>2. put = KeepTtl(Touched(cache, {k}, At(p, 1)), k, next, At(p, 2))
      OBVIOUS
    <2> HIDE DEF put
    <2>3. QED
      BY <1>6, <2>1, <2>2, UpdateStep
  <1>7. QED
    BY <1>1, <1>4, <1>5, <1>6

LEMMA DelStep ==
    ASSUME StoreInv, NEW k \in Key, Del(k)
    PROVE  StoreInv'
  <1>1. now' \in {now, now + 1} /\ now' \in 0 .. MaxTime /\ MapOK(cache)
    BY DEF Del, StoreInv, StoreTypeOK
  <1>2. QED
    BY <1>1, RemoveStep DEF Del

\* A store with nothing in it.
LEMMA NoneOrdered ==
    ASSUME NEW m, DOMAIN m.entry = {}, m.before = {}
    PROVE  Ordered(m)
  BY DEF Ordered

LEMMA EmptyOK == MapOK(Empty) /\ DOMAIN Empty.entry = {}
  <1>1. Mortal(Empty) = {}
    BY DEF Mortal, Empty
  <1>2. Empty.entry = [k \in {} |-> Nothing] /\ Empty.before = {}
    BY DEF Empty
  <1>3. Typed(Empty.entry) /\ DOMAIN Empty.entry = {}
    BY <1>2 DEF Typed
  <1>4. Cardinality({}) = 0
    BY FS_EmptySet
  <1>5. Ordered(Empty)
    BY <1>2, <1>3, NoneOrdered
  <1>6. Swept(Empty)
    <2>1. /\ Empty.ttlCount = 0 /\ Empty.timer = FALSE /\ Empty.iterating = FALSE
          /\ Empty.unseen = {}
      BY DEF Empty
    <2>2. QED
      BY <1>1, <1>3, <1>4, <2>1 DEF Swept
  <1>7. Empty \in [entry : {Empty.entry}, before : {Empty.before}, ttlCount : Nat,
                   timer : BOOLEAN, iterating : BOOLEAN, unseen : SUBSET Key]
    BY DEF Empty
  <1>8. MapOK(Empty)
    BY <1>3, <1>5, <1>6, <1>7, Zenon DEF MapOK
  <1>9. QED
    BY <1>3, <1>8

LEMMA EmptyInv ==
    ASSUME cache = Empty, logged = [k \in {} |-> Nothing], now \in 0 .. MaxTime,
           crossed \subseteq Key
    PROVE  StoreInv
  <1>1. MapOK(cache) /\ DOMAIN cache.entry = {}
    BY EmptyOK
  <1>2. Typed(logged) /\ DOMAIN logged = {}
    BY DEF Typed
  <1>3. StoreTypeOK
    BY <1>1, <1>2 DEF StoreTypeOK
  <1>4. LogAgrees
    BY <1>1, <1>2, LogAgreesIs DEF Agree
  <1>5. QED
    BY <1>3, <1>4 DEF StoreInv

\* A sweep moves the iterator on, and touches what it passes.
LEMMA BegunOK ==
    ASSUME MapOK(cache), Sweep
    PROVE  \E m : MapOK(m) /\ m.entry = cache.entry /\ cache' = Touched(m, Front(cache), now)
  <1> DEFINE begun == [cache EXCEPT !.iterating = Goes(cache),
                                    !.unseen = IF Goes(cache) THEN Ahead(cache) \ Front(cache)
                                               ELSE {}]
  <1>1. MapOK(cache) /\ cache.timer
    BY DEF Sweep
  <1>2. Goes(cache) \in BOOLEAN /\ Ahead(cache) \subseteq DOMAIN cache.entry
    BY <1>1 DEF Goes, Ahead, MapOK, Swept
  <1>3. begun \in [entry : {cache.entry}, before : {cache.before}, ttlCount : {cache.ttlCount},
                   timer : {cache.timer}, iterating : {Goes(cache)},
                   unseen : {IF Goes(cache) THEN Ahead(cache) \ Front(cache) ELSE {}}]
    BY <1>1 DEF MapOK
  <1> HIDE DEF begun
  <1>4. begun.entry = cache.entry /\ begun.before = cache.before
    BY <1>3
  <1>5. Mortal(begun) = Mortal(cache) /\ Ordered(begun)
    BY <1>1, <1>4 DEF Mortal, MapOK, Ordered
  <1>6. MapOK(begun)
    BY <1>1, <1>2, <1>3, <1>4, <1>5 DEF MapOK, Swept, Typed
  <1>7. cache' = Touched(begun, Front(cache), now)
    BY DEF Sweep, begun
  <1>8. QED
    BY <1>4, <1>6, <1>7

\* A sweep takes only what has expired.
LEMMA SweepStep ==
    ASSUME StoreInv, Sweep
    PROVE  StoreInv'
  <1>1. PICK m : MapOK(m) /\ m.entry = cache.entry /\ cache' = Touched(m, Front(cache), now)
    BY BegunOK DEF StoreInv, StoreTypeOK
  <1>2. /\ UNCHANGED <<logged, crossed>>
        /\ now <= now' /\ now' \in {now, now + 1} /\ now' <= MaxTime
    BY StoreAssumption DEF Sweep, StoreInv, StoreTypeOK
  <1>3. QED
    BY <1>1, <1>2, PurgeStep

LEMMA StoreNextStep == StoreInv /\ [StoreNext]_storeVars => StoreInv'
  <1> SUFFICES ASSUME StoreInv, [StoreNext]_storeVars PROVE StoreInv'
    OBVIOUS
  <1>1. ASSUME NEW k \in Key, NEW v \in Value, NEW ttl \in Ttl, Set(k, v, ttl) PROVE StoreInv'
    BY <1>1, SetStep
  <1>2. ASSUME NEW j \in Key, NEW k \in Key \ {j}, NEW v \in Value, NEW w \in Value,
               MSet(j, v, k, w)
        PROVE  StoreInv'
    BY <1>2, MSetStep
  <1>3. ASSUME NEW k \in Key, Incr(k) PROVE StoreInv'
    BY <1>3, IncrStep
  <1>4. ASSUME NEW k \in Key, Del(k) PROVE StoreInv'
    BY <1>4, DelStep
  <1>5. ASSUME NEW k \in Key, NEW prev \in Value \cup {Nothing},
               NEW next \in Value \cup {Nothing}, Cas(k, prev, next)
        PROVE  StoreInv'
    BY <1>5, CasStep
  <1>6. ASSUME NEW keys \in SUBSET Key, Touch(keys) PROVE StoreInv'
    <2>1. /\ MapOK(cache) /\ cache' = Touched(cache, keys, now) /\ UNCHANGED <<logged, crossed>>
          /\ now <= now' /\ now' \in {now, now + 1} /\ now' <= MaxTime
      BY <1>6, StoreAssumption DEF Touch, StoreInv, StoreTypeOK
    <2>2. QED
      BY <2>1, PurgeStep
  <1>7. CASE Clear
    <2>1. /\ cache' = Empty /\ logged' = [k \in {} |-> Nothing] /\ now' \in 0 .. MaxTime
          /\ crossed' \subseteq Key
      BY <1>7 DEF Clear, StoreInv, StoreTypeOK
    <2>2. MapOK(cache') /\ DOMAIN cache'.entry = {} /\ Typed(logged') /\ DOMAIN logged' = {}
      BY <2>1, EmptyOK DEF Typed
    <2>3. StoreTypeOK'
      BY <2>1, <2>2 DEF StoreTypeOK
    <2>4. Spares(Key) /\ \A k \in (Key \cap Key) \ crossed' : Agree(cache'.entry, logged', now', k)
      BY <1>7, <2>2 DEF Spares, Agree, Clear, StoreInv, StoreTypeOK, MapOK, Typed
    <2>5. QED
      BY <2>3, <2>4, AgreeStep DEF StoreInv
  <1>8. CASE Sweep
    BY <1>8, SweepStep
  <1>9. CASE Tick
    <2>1. now \in Nat /\ now' \in 0 .. MaxTime /\ UNCHANGED <<cache, logged, crossed>>
      BY <1>9, StoreAssumption DEF Tick, StoreInv, StoreTypeOK
    <2>2. StoreTypeOK'
      BY <2>1 DEF StoreInv, StoreTypeOK
    <2>3. Spares({})
      BY <1>9, <2>1 DEF Spares, Tick
    <2>4. QED
      BY <2>2, <2>3, AgreeStep DEF StoreInv
  <1>10. CASE UNCHANGED storeVars
    BY <1>10 DEF storeVars, StoreInv, StoreTypeOK, LogAgrees, Visible
  <1>11. QED
    BY <1>1, <1>2, <1>3, <1>4, <1>5, <1>6, <1>7, <1>8, <1>9, <1>10 DEF StoreNext

\* The Map's bookkeeping and what recovery would rebuild from the log hold together: every
\* command of store.js keeps both, wherever the clock moves in it.
THEOREM StoreInductive == StoreSpec => []StoreInv
  <1>1. StoreInit => StoreInv
    BY EmptyInv, StoreAssumption DEF StoreInit
  <1>2. QED
    BY <1>1, StoreNextStep, PTL DEF StoreSpec

\* The entries with a TTL are counted right, and the sweep timer runs exactly while there are
\* any (_ttlDelta), with an iterator that has only keys of the Map before it.
THEOREM StoreTypeCorrect == StoreSpec => []StoreTypeOK
  BY StoreInductive, PTL DEF StoreInv

\* Whatever a client can see is logged, with the same value and the expiry it has up to a
\* millisecond, and nothing else that has not expired (_logSet after every command).
THEOREM LogAgreesHolds == StoreSpec => []LogAgrees
  BY StoreInductive, PTL DEF StoreInv

-----------------------------------------------------------------------------
(* The commands do what TtlStore says *)

\* What is visible at a time is what is alive then, of anything that has the same values.
LEMMA AliveIs ==
    ASSUME NEW f, Typed(f), NEW h, NEW u \in Nat,
           \A k \in DOMAIN f : ~Expired(f[k], u) => k \in DOMAIN h /\ h[k] = f[k],
           \A k \in DOMAIN h : h[k].exp \in Nat,
           \A k \in DOMAIN h : ~Expired(h[k], u) => k \in DOMAIN f /\ f[k] = h[k]
    PROVE  Visible(f, u) = Abstract!AliveAt(h, u)
  <1> DEFINE S == {k \in DOMAIN f : ~Expired(f[k], u)}
             T == {k \in DOMAIN h : h[k].exp = Abstract!Never \/ h[k].exp > u}
  <1>1. \A k \in DOMAIN f : f[k].exp \in Nat
    BY DEF Typed, Items
  <1>2. S = T
    BY <1>1 DEF Expired, Never, Abstract!Never
  <1>3. \A k \in S : f[k] = h[k]
    OBVIOUS
  <1>4. Visible(f, u) = [k \in S |-> f[k]] /\ Abstract!AliveAt(h, u) = [k \in T |-> h[k]]
    BY DEF Visible, Abstract!AliveAt, Restrict, Abstract!Restrict
  <1> HIDE DEF S, T
  <1>5. QED
    BY <1>2, <1>3, <1>4

\* What a command finds when it acts at time t.
Found(t) == Abstract!AliveAt(Visible(cache.entry, now), t)

LEMMA FoundIs ==
    ASSUME StoreTypeOK, NEW t \in Nat, now <= t
    PROVE  /\ DOMAIN Found(t) = {k \in DOMAIN cache.entry : ~Expired(cache.entry[k], t)}
           /\ \A k \in DOMAIN Found(t) :
                Found(t)[k] = cache.entry[k] /\ Found(t)[k].exp \in Nat
  <1> DEFINE V == Visible(cache.entry, now)
  <1>1. \A k \in DOMAIN cache.entry : cache.entry[k].exp \in Nat
    BY DEF StoreTypeOK, MapOK, Typed, Items
  <1>2. /\ DOMAIN V = {k \in DOMAIN cache.entry : ~Expired(cache.entry[k], now)}
        /\ \A k \in DOMAIN V : V[k] = cache.entry[k]
    BY VisibleFacts
  <1> HIDE DEF V
  <1>3. Found(t) = [k \in {j \in DOMAIN V : V[j].exp = 0 \/ V[j].exp > t} |-> V[k]]
    BY DEF Found, Abstract!AliveAt, Restrict, Abstract!Restrict, Abstract!Never, V
  <1>4. now \in Nat
    BY DEF StoreTypeOK
  <1>5. {j \in DOMAIN V : V[j].exp = 0 \/ V[j].exp > t}
            = {k \in DOMAIN cache.entry : ~Expired(cache.entry[k], t)}
    BY <1>1, <1>2, <1>4 DEF Expired, Never
  <1>6. QED
    BY <1>1, <1>2, <1>3, <1>5

\* What is visible when keys are gone, of the command that took them at time t.
LEMMA LeftIs ==
    ASSUME StoreTypeOK, NEW t \in Nat, now <= t, t <= now', now' \in Nat,
           Typed(cache'.entry), NEW gone,
           \A k \in DOMAIN cache'.entry :
                k \in DOMAIN cache.entry /\ k \notin gone /\ cache'.entry[k] = cache.entry[k],
           \A k \in DOMAIN cache.entry :
                k \notin gone /\ ~Expired(cache.entry[k], now') => k \in DOMAIN cache'.entry,
           NEW h, DOMAIN h = DOMAIN Found(t) \ gone,
           \A k \in DOMAIN h : h[k] = Found(t)[k]
    PROVE  Visible(cache'.entry, now') = Abstract!AliveAt(h, now')
  <1>1. /\ DOMAIN Found(t) = {k \in DOMAIN cache.entry : ~Expired(cache.entry[k], t)}
        /\ \A k \in DOMAIN Found(t) :
                Found(t)[k] = cache.entry[k] /\ Found(t)[k].exp \in Nat
    BY FoundIs
  <1>2. \A k \in DOMAIN cache.entry : cache.entry[k].exp \in Nat
    BY DEF StoreTypeOK, MapOK, Typed, Items
  <1>3. /\ \A k \in DOMAIN cache'.entry : ~Expired(cache'.entry[k], now') =>
                k \in DOMAIN h /\ h[k] = cache'.entry[k]
        /\ \A k \in DOMAIN h : ~Expired(h[k], now') =>
                k \in DOMAIN cache'.entry /\ cache'.entry[k] = h[k]
        /\ \A k \in DOMAIN h : h[k].exp \in Nat
    BY <1>1, <1>2 DEF Expired
  <1>4. QED
    BY <1>3, AliveIs

\* Passing time.
LEMMA PassStep ==
    ASSUME StoreTypeOK, now <= now', now' \in Nat, Typed(cache'.entry),
           \A k \in DOMAIN cache'.entry :
                k \in DOMAIN cache.entry /\ cache'.entry[k] = cache.entry[k],
           \A k \in DOMAIN cache.entry :
                ~Expired(cache.entry[k], now') => k \in DOMAIN cache'.entry
    PROVE  Abstract!Pass
  <1> DEFINE h == Found(now)
  <1>1. now \in now .. now' /\ now \in Nat /\ now' >= now /\ now <= now
    BY DEF StoreTypeOK
  <1>2. DOMAIN h = DOMAIN Found(now) \ {} /\ \A k \in DOMAIN h : h[k] = Found(now)[k]
    OBVIOUS
  <1> HIDE DEF h
  <1>3. Visible(cache'.entry, now') = Abstract!AliveAt(h, now')
    BY <1>1, <1>2, LeftIs
  <1>4. QED
    BY <1>1, <1>3 DEF Abstract!Pass, Abstract!Command, Found, h

\* A SET acts when it stamps the entry.
LEMMA SetImplements ==
    ASSUME StoreTypeOK, NEW k \in Key, NEW v \in Value, NEW ttl \in Ttl, Set(k, v, ttl)
    PROVE  Abstract!Set(k, v, ttl)
  <1>1. PICK p \in Moves :
            /\ cache' = MapSet(cache, k, v, ttl, At(p, 1), At(p, 2))
            /\ now' = At(p, 4)
    BY DEF Set
  <1> DEFINE t1 == At(p, 1)
             t  == At(p, 2)
             e  == IF ttl > 0 THEN t + ttl ELSE Never
             h  == With(Found(t), k, Item(v, e))
  <1>2. t1 \in Nat /\ t \in Nat /\ now' \in Nat /\ now \in Nat /\ now <= t /\ t <= now'
    BY <1>1, AtFacts DEF StoreTypeOK
  <1>3. v \in 0 .. MaxValue /\ ttl \in Nat
    BY StoreAssumption
  <1> HIDE DEF t1, t
  <1>4. /\ MapOK(cache')
        /\ DOMAIN cache'.entry = DOMAIN cache.entry \cup {k}
        /\ \A j \in DOMAIN cache'.entry :
              cache'.entry[j] = IF j = k THEN Item(v, IF ttl > 0 THEN t + ttl ELSE Never)
                                ELSE cache.entry[j]
    <2>1. cache' = MapSet(cache, k, v, ttl, t1, t)
      BY <1>1 DEF t1, t
    <2>2. MapOK(cache)
      BY DEF StoreTypeOK
    <2>3. QED
      BY <1>2, <1>3, <2>1, <2>2, MapSetFacts
  <1>5. /\ DOMAIN Found(t) = {j \in DOMAIN cache.entry : ~Expired(cache.entry[j], t)}
        /\ \A j \in DOMAIN Found(t) :
                Found(t)[j] = cache.entry[j] /\ Found(t)[j].exp \in Nat
    BY <1>2, FoundIs
  <1>6. e \in Nat /\ Item(v, e).exp = e
    BY <1>2, <1>3, ItemType DEF Never
  <1>7. \A j \in DOMAIN cache.entry : cache.entry[j].exp \in Nat
    BY DEF StoreTypeOK, MapOK, Typed, Items
  <1>8. /\ DOMAIN h = DOMAIN Found(t) \cup {k}
        /\ \A j \in DOMAIN h : h[j] = IF j = k THEN Item(v, e) ELSE Found(t)[j]
    BY DEF With
  <1> HIDE DEF h
  <1>9. /\ \A j \in DOMAIN cache'.entry : ~Expired(cache'.entry[j], now') =>
                j \in DOMAIN h /\ h[j] = cache'.entry[j]
        /\ \A j \in DOMAIN h : ~Expired(h[j], now') =>
                j \in DOMAIN cache'.entry /\ cache'.entry[j] = h[j]
        /\ \A j \in DOMAIN h : h[j].exp \in Nat
    BY <1>2, <1>4, <1>5, <1>6, <1>7, <1>8 DEF Expired
  <1>10. Visible(cache'.entry, now') = Abstract!AliveAt(h, now')
    BY <1>2, <1>4, <1>9, AliveIs DEF MapOK
  <1>11. h = Abstract!With(Found(t), k, Abstract!Item(v, IF ttl = 0 THEN Abstract!Never
                                                        ELSE t + ttl))
    BY <1>3 DEF h, With, Abstract!With, Item, Abstract!Item, Never, Abstract!Never
  <1>12. now' >= now /\ t \in now .. now'
    BY <1>2
  <1>13. QED
    BY <1>10, <1>11, <1>12 DEF Abstract!Set, Abstract!Command, Found

\* An MSET acts at its start: what it stores has no TTL.
LEMMA MSetImplements ==
    ASSUME StoreTypeOK, NEW j \in Key, NEW k \in Key \ {j}, NEW v \in Value, NEW w \in Value,
           MSet(j, v, k, w)
    PROVE  Abstract!MSet([i \in {j, k} |-> IF i = j THEN v ELSE w])
  <1>1. PICK p \in Moves :
            /\ cache' = MapSet(MapSet(cache, j, v, 0, At(p, 1), At(p, 1)),
                               k, w, 0, At(p, 2), At(p, 2))
            /\ now' = At(p, 4)
    BY DEF MSet
  <1> DEFINE t1 == At(p, 1)
             t2 == At(p, 2)
             first == MapSet(cache, j, v, 0, t1, t1)
             items == [i \in {j, k} |-> IF i = j THEN v ELSE w]
             h == [i \in DOMAIN items \cup DOMAIN Found(now) |->
                      IF i \in DOMAIN items THEN Item(items[i], Never) ELSE Found(now)[i]]
  <1>2. t1 \in Nat /\ t2 \in Nat /\ now' \in Nat /\ now \in Nat /\ now <= now' /\ now <= now
    BY <1>1, AtFacts DEF StoreTypeOK
  <1>3. v \in 0 .. MaxValue /\ w \in 0 .. MaxValue /\ 0 \in Nat
    BY StoreAssumption
  <1>4. cache' = MapSet(first, k, w, 0, t2, t2)
    BY <1>1
  <1> HIDE DEF t1, t2
  <1>5. /\ MapOK(first)
        /\ DOMAIN first.entry = DOMAIN cache.entry \cup {j}
        /\ \A i \in DOMAIN first.entry :
              first.entry[i] = IF i = j THEN Item(v, Never) ELSE cache.entry[i]
    <2>1. MapOK(cache)
      BY DEF StoreTypeOK
    <2>2. QED
      BY <1>2, <1>3, <2>1, MapSetFacts
  <1> HIDE DEF first
  <1>6. /\ MapOK(cache')
        /\ DOMAIN cache'.entry = DOMAIN first.entry \cup {k}
        /\ \A i \in DOMAIN cache'.entry :
              cache'.entry[i] = IF i = k THEN Item(w, Never) ELSE first.entry[i]
    BY <1>2, <1>3, <1>4, <1>5, MapSetFacts
  <1>7. /\ DOMAIN Found(now) = {i \in DOMAIN cache.entry : ~Expired(cache.entry[i], now)}
        /\ \A i \in DOMAIN Found(now) :
                Found(now)[i] = cache.entry[i] /\ Found(now)[i].exp \in Nat
    BY <1>2, FoundIs
  <1>8. Item(v, Never).exp = Never /\ Item(w, Never).exp = Never
    BY <1>3, ItemType DEF Never
  <1>9. /\ DOMAIN h = {j, k} \cup DOMAIN Found(now)
        /\ h[j] = Item(v, Never) /\ h[k] = Item(w, Never)
        /\ \A i \in DOMAIN h : i \notin {j, k} => h[i] = Found(now)[i]
    OBVIOUS
  <1>10. h = [i \in DOMAIN items \cup DOMAIN Found(now) |->
                 IF i \in DOMAIN items THEN Abstract!Item(items[i], Abstract!Never)
                 ELSE Found(now)[i]]
    BY DEF Item, Abstract!Item, Never, Abstract!Never
  <1> HIDE DEF h, items
  <1>11. \A i \in DOMAIN cache.entry : cache.entry[i].exp \in Nat
    BY DEF StoreTypeOK, MapOK, Typed, Items
  <1>12. /\ \A i \in DOMAIN cache'.entry : ~Expired(cache'.entry[i], now') =>
                i \in DOMAIN h /\ h[i] = cache'.entry[i]
         /\ \A i \in DOMAIN h : ~Expired(h[i], now') =>
                i \in DOMAIN cache'.entry /\ cache'.entry[i] = h[i]
         /\ \A i \in DOMAIN h : h[i].exp \in Nat
    BY <1>2, <1>5, <1>6, <1>7, <1>8, <1>9, <1>11 DEF Expired, Never
  <1>13. Visible(cache'.entry, now') = Abstract!AliveAt(h, now')
    BY <1>2, <1>6, <1>12, AliveIs DEF MapOK
  <1>14. now' >= now /\ now \in now .. now'
    BY <1>2
  <1>15. Abstract!MSet(items)
    BY <1>10, <1>13, <1>14 DEF Abstract!MSet, Abstract!Command, Found
  <1>16. QED
    BY <1>15 DEF items

\* An update in place, of what is there at the first reading of the clock.
LEMMA UpdateIs ==
    ASSUME StoreTypeOK, NEW k \in Key, NEW v \in 0 .. MaxValue, NEW p \in Moves,
           cache' = KeepTtl(Touched(cache, {k}, At(p, 1)), k, v, At(p, 2)), now' = At(p, 4),
           ~Lapse,
           NEW f, f = Found(At(p, 1)),
           NEW h, h = With(f, k, Item(v, IF k \in DOMAIN f THEN f[k].exp ELSE Never))
    PROVE  Visible(cache'.entry, now') = Abstract!AliveAt(h, now')
  <1> DEFINE t1 == At(p, 1)
             t2 == At(p, 2)
             cur == Touched(cache, {k}, t1)
             put == KeepTtl(cur, k, v, t2)
             e == IF k \in DOMAIN cur.entry /\ ~Expired(cur.entry[k], t2)
                  THEN cur.entry[k].exp ELSE Never
             x == IF k \in DOMAIN f THEN f[k].exp ELSE Never
  <1>1. /\ t1 \in Nat /\ t2 \in Nat /\ now \in Nat /\ now' \in Nat
        /\ now <= t1 /\ t1 <= t2 /\ t2 <= now'
    BY AtFacts DEF StoreTypeOK
  <1>2. /\ MapOK(cur)
        /\ DOMAIN cur.entry =
                {j \in DOMAIN cache.entry : ~(j \in {k} /\ Expired(cache.entry[j], t1))}
        /\ \A j \in DOMAIN cur.entry : cur.entry[j] = cache.entry[j]
    BY TouchedFacts DEF StoreTypeOK
  <1>3. \A j \in DOMAIN cache.entry : cache.entry[j].exp \in Nat
    BY DEF StoreTypeOK, MapOK, Typed, Items
  <1>4. f = Found(t1) /\ cache' = put
    OBVIOUS
  <1> HIDE DEF t1, t2, cur
  <1>5. /\ DOMAIN f = {j \in DOMAIN cache.entry : ~Expired(cache.entry[j], t1)}
        /\ \A j \in DOMAIN f : f[j] = cache.entry[j] /\ f[j].exp \in Nat
    BY <1>1, <1>4, FoundIs
  <1>6. /\ MapOK(put)
        /\ DOMAIN put.entry = DOMAIN cur.entry \cup {k}
        /\ \A j \in DOMAIN put.entry :
              put.entry[j] =
                  IF j # k THEN cur.entry[j]
                  ELSE Item(v, IF k \in DOMAIN cur.entry /\ ~Expired(cur.entry[k], t2)
                               THEN cur.entry[k].exp ELSE Never)
    BY <1>2, KeepTtlFacts
  <1> HIDE DEF put
  <1>7. put.entry[k] = Item(v, e) /\ k \in DOMAIN put.entry
    BY <1>6
  <1>8. e \in Nat /\ x \in Nat
    BY <1>2, <1>3, <1>5 DEF Never
  <1>9. Item(v, e).exp = e /\ Item(v, x).exp = x
    BY <1>8, ItemType
  <1>10. e = x
    <2>1. CASE k \notin DOMAIN f
      <3>1. k \notin DOMAIN cur.entry
        BY <1>2, <1>5, <2>1
      <3>2. QED
        BY <2>1, <3>1
    <2>2. CASE k \in DOMAIN f /\ ~Expired(f[k], t2)
      BY <1>2, <1>5, <2>2
    <2>3. CASE k \in DOMAIN f /\ Expired(f[k], t2)
      <3>1. k \in DOMAIN cache.entry /\ ~Expired(cache.entry[k], now)
            /\ Expired(cache.entry[k], now')
        BY <1>1, <1>3, <1>5, <2>3 DEF Expired
      <3>2. e = Never
        BY <1>2, <1>5, <2>3
      <3>3. DOMAIN Visible(cache'.entry, now')
                = {j \in DOMAIN cache'.entry : ~Expired(cache'.entry[j], now')}
        BY DEF Visible, Restrict
      <3>4. k \in DOMAIN cache'.entry /\ cache'.entry[k].exp = Never
        BY <1>4, <1>7, <1>9, <3>2
      <3>5. k \in DOMAIN Visible(cache'.entry, now')
        BY <3>3, <3>4 DEF Expired
      <3>6. QED
        BY <3>1, <3>5 DEF Lapse, Crossing
    <2>4. QED
      BY <2>1, <2>2, <2>3
  <1> HIDE DEF e
  <1>11. /\ DOMAIN h = DOMAIN f \cup {k} /\ h[k] = Item(v, x)
         /\ \A j \in DOMAIN h : j # k => h[j] = f[j]
    BY DEF With
  <1> HIDE DEF x
  <1>12. /\ \A j \in DOMAIN put.entry : ~Expired(put.entry[j], now') =>
                j \in DOMAIN h /\ h[j] = put.entry[j]
         /\ \A j \in DOMAIN h : ~Expired(h[j], now') =>
                j \in DOMAIN put.entry /\ put.entry[j] = h[j]
         /\ \A j \in DOMAIN h : h[j].exp \in Nat
    BY <1>1, <1>2, <1>3, <1>5, <1>6, <1>7, <1>8, <1>9, <1>10, <1>11 DEF Expired
  <1>13. QED
    BY <1>1, <1>4, <1>6, <1>12, AliveIs DEF MapOK

\* What a command finds of its key is what it compares, or counts from.
LEMMA ValueIs ==
    ASSUME StoreTypeOK, NEW k \in Key, NEW t \in Nat, now <= t
    PROVE  /\ MapGet(Touched(cache, {k}, t), k) = Abstract!ValueOf(Found(t), k)
           /\ k \in DOMAIN Found(t) =>
                Found(t)[k].v \in Nat /\ Abstract!ValueOf(Found(t), k) = Found(t)[k].v
           /\ k \notin DOMAIN Found(t) => Abstract!ValueOf(Found(t), k) = Nothing
  <1> DEFINE cur == Touched(cache, {k}, t)
  <1>1. /\ DOMAIN cur.entry =
                {j \in DOMAIN cache.entry : ~(j \in {k} /\ Expired(cache.entry[j], t))}
        /\ \A j \in DOMAIN cur.entry : cur.entry[j] = cache.entry[j]
    BY TouchedFacts DEF StoreTypeOK
  <1>2. /\ DOMAIN Found(t) = {j \in DOMAIN cache.entry : ~Expired(cache.entry[j], t)}
        /\ \A j \in DOMAIN Found(t) : Found(t)[j] = cache.entry[j] /\ Found(t)[j].exp \in Nat
    BY FoundIs
  <1>3. k \in DOMAIN cache.entry => cache.entry[k].v \in Nat
    BY StoreAssumption DEF StoreTypeOK, MapOK, Typed, Items
  <1> HIDE DEF cur
  <1>4. QED
    BY <1>1, <1>2, <1>3 DEF MapGet, Abstract!ValueOf, cur

\* INCR and CAS act when they touch their key.
LEMMA IncrImplements ==
    ASSUME StoreTypeOK, NEW k \in Key, Incr(k), ~Lapse
    PROVE  Abstract!Incr(k)
  <1>1. PICK p \in Moves :
            LET cur  == Touched(cache, {k}, At(p, 1))
                base == IF MapGet(cur, k) = Nothing THEN 0 ELSE MapGet(cur, k)
            IN  /\ base < MaxValue
                /\ cache' = KeepTtl(cur, k, base + 1, At(p, 2))
                /\ now' = At(p, 4)
    BY DEF Incr
  <1> DEFINE t == At(p, 1)
             cur  == Touched(cache, {k}, t)
             base == IF MapGet(cur, k) = Nothing THEN 0 ELSE MapGet(cur, k)
             f == Found(t)
             h == With(f, k, Item(base + 1, IF k \in DOMAIN f THEN f[k].exp ELSE Never))
  <1>2. t \in Nat /\ now \in Nat /\ now' \in Nat /\ now <= t /\ t <= now' /\ now' >= now
    BY <1>1, AtFacts DEF StoreTypeOK
  <1>3. /\ MapGet(cur, k) = Abstract!ValueOf(f, k)
        /\ k \in DOMAIN f => f[k].v \in Nat /\ Abstract!ValueOf(f, k) = f[k].v
        /\ k \notin DOMAIN f => Abstract!ValueOf(f, k) = Nothing
    <2> HIDE DEF t
    <2>1. QED
      BY <1>2, ValueIs
  <1>4. base = IF k \in DOMAIN f THEN f[k].v ELSE 0
    <2> HIDE DEF cur, f
    <2>1. QED
      BY <1>3, StoreAssumption
  <1>5. base \in Nat
    <2> HIDE DEF base, f
    <2>1. QED
      BY <1>3, <1>4
  <1>6. /\ base < MaxValue /\ now' = At(p, 4)
        /\ cache' = KeepTtl(Touched(cache, {k}, At(p, 1)), k, base + 1, At(p, 2))
    BY <1>1
  <1> HIDE DEF base
  <1>7. base + 1 \in 0 .. MaxValue
    BY <1>5, <1>6, StoreAssumption
  <1>8. Visible(cache'.entry, now') = Abstract!AliveAt(h, now')
    BY <1>6, <1>7, UpdateIs
  <1>9. h = Abstract!With(f, k, IF k \in DOMAIN f THEN Abstract!Item(f[k].v + 1, f[k].exp)
                                ELSE Abstract!Item(1, Abstract!Never))
    <2> HIDE DEF f
    <2>1. QED
      BY <1>4 DEF With, Abstract!With, Item, Abstract!Item, Never, Abstract!Never
  <1>10. t \in now .. now'
    BY <1>2
  <1> HIDE DEF h
  <1>11. QED
    BY <1>2, <1>8, <1>9, <1>10 DEF Abstract!Incr, Abstract!Command, Found

\* A key goes, of what is there at time t.
LEMMA RemoveIs ==
    ASSUME StoreTypeOK, NEW k \in Key, NEW t \in Nat, now <= t, t <= now', now' \in Nat,
           NEW m, MapOK(m),
           \A j \in DOMAIN m.entry : j \in DOMAIN cache.entry /\ m.entry[j] = cache.entry[j],
           \A j \in DOMAIN cache.entry : j # k => j \in DOMAIN m.entry,
           cache' = Dropped(m, {k})
    PROVE  Visible(cache'.entry, now')
              = Abstract!AliveAt(Abstract!Restrict(Found(t), DOMAIN Found(t) \ {k}), now')
  <1> DEFINE gone == {k}
             h == Abstract!Restrict(Found(t), DOMAIN Found(t) \ {k})
  <1>1. MapOK(cache') /\ cache'.entry = Kept(m.entry, {k})
    BY DroppedFacts
  <1>2. /\ DOMAIN cache'.entry = DOMAIN m.entry \ {k}
        /\ \A j \in DOMAIN cache'.entry : cache'.entry[j] = m.entry[j]
    BY <1>1 DEF Kept
  <1>3. DOMAIN h = DOMAIN Found(t) \ gone /\ \A j \in DOMAIN h : h[j] = Found(t)[j]
    BY DEF Abstract!Restrict
  <1>4. Typed(cache'.entry)
    BY <1>1 DEF MapOK
  <1>5. /\ \A j \in DOMAIN cache'.entry :
                j \in DOMAIN cache.entry /\ j \notin gone /\ cache'.entry[j] = cache.entry[j]
        /\ \A j \in DOMAIN cache.entry :
                j \notin gone /\ ~Expired(cache.entry[j], now') => j \in DOMAIN cache'.entry
    BY <1>2
  <1> HIDE DEF h, gone
  <1>6. Visible(cache'.entry, now') = Abstract!AliveAt(h, now')
    BY <1>3, <1>4, <1>5, LeftIs
  <1>7. QED
    BY <1>6 DEF h

LEMMA CasImplements ==
    ASSUME StoreTypeOK, NEW k \in Key, NEW prev \in Value \cup {Nothing},
           NEW next \in Value \cup {Nothing}, Cas(k, prev, next), ~Lapse
    PROVE  Abstract!Cas(k, prev, next)
  <1>1. PICK p \in Moves :
            LET cur == Touched(cache, {k}, At(p, 1))
            IN  /\ now' = At(p, 4)
                /\ \/ ~Matches(cur, k, prev) /\ cache' = cur
                   \/ /\ Matches(cur, k, prev) /\ next = Nothing
                      /\ cache' = Dropped(cur, {k})
                   \/ /\ Matches(cur, k, prev) /\ next # Nothing
                      /\ cache' = KeepTtl(cur, k, next, At(p, 2))
    BY DEF Cas
  <1> DEFINE t == At(p, 1)
             cur == Touched(cache, {k}, t)
             f == Found(t)
             x == IF k \in DOMAIN f THEN f[k].exp ELSE Never
             h == IF Abstract!ValueOf(f, k) # prev THEN f
                  ELSE IF next = Nothing THEN Abstract!Restrict(f, DOMAIN f \ {k})
                  ELSE Abstract!With(f, k, Abstract!Item(next, IF k \in DOMAIN f THEN f[k].exp
                                                              ELSE Abstract!Never))
  <1>2. t \in Nat /\ now \in Nat /\ now' \in Nat /\ now <= t /\ t <= now' /\ now' >= now
    BY <1>1, AtFacts DEF StoreTypeOK
  <1>3. MapGet(cur, k) = Abstract!ValueOf(f, k)
    <2> HIDE DEF t
    <2>1. QED
      BY <1>2, ValueIs
  <1>4. Matches(cur, k, prev) <=> Abstract!ValueOf(f, k) = prev
    BY <1>3 DEF Matches
  <1>5. /\ MapOK(cur)
        /\ DOMAIN cur.entry =
                {j \in DOMAIN cache.entry : ~(j \in {k} /\ Expired(cache.entry[j], t))}
        /\ \A j \in DOMAIN cur.entry : cur.entry[j] = cache.entry[j]
    BY TouchedFacts DEF StoreTypeOK
  <1>6. Visible(cache'.entry, now') = Abstract!AliveAt(h, now')
    <2>1. CASE ~Matches(cur, k, prev) /\ cache' = cur
      <3> DEFINE none == {}
      <3>1. h = f
        BY <1>4, <2>1
      <3>2. DOMAIN f = DOMAIN Found(t) \ none /\ \A j \in DOMAIN f : f[j] = Found(t)[j]
        OBVIOUS
      <3>3. /\ Typed(cache'.entry)
            /\ \A j \in DOMAIN cache'.entry : /\ j \in DOMAIN cache.entry /\ j \notin none
                                              /\ cache'.entry[j] = cache.entry[j]
        BY <1>5, <2>1 DEF MapOK
      <3>4. \A j \in DOMAIN cache.entry : cache.entry[j].exp \in Nat
        BY DEF StoreTypeOK, MapOK, Typed, Items
      <3> HIDE DEF t, cur, f, h, none
      <3>5. \A j \in DOMAIN cache.entry :
                j \notin none /\ ~Expired(cache.entry[j], now') => j \in DOMAIN cache'.entry
        BY <1>2, <1>5, <2>1, <3>4 DEF Expired
      <3>6. Visible(cache'.entry, now') = Abstract!AliveAt(f, now')
        BY <1>2, <3>2, <3>3, <3>5, LeftIs
      <3>7. QED
        BY <3>1, <3>6
    <2>2. CASE Matches(cur, k, prev) /\ next = Nothing /\ cache' = Dropped(cur, {k})
      <3>1. h = Abstract!Restrict(f, DOMAIN f \ {k})
        BY <1>4, <2>2
      <3>2. /\ \A j \in DOMAIN cur.entry : j \in DOMAIN cache.entry /\ cur.entry[j] = cache.entry[j]
            /\ \A j \in DOMAIN cache.entry : j # k => j \in DOMAIN cur.entry
        BY <1>5
      <3> HIDE DEF t, cur, h
      <3>3. Visible(cache'.entry, now')
                = Abstract!AliveAt(Abstract!Restrict(Found(t), DOMAIN Found(t) \ {k}), now')
        BY <1>2, <1>5, <2>2, <3>2, RemoveIs
      <3>4. QED
        BY <3>1, <3>3
    <2>3. CASE /\ Matches(cur, k, prev) /\ next # Nothing
               /\ cache' = KeepTtl(cur, k, next, At(p, 2))
      <3> DEFINE g == With(f, k, Item(next, x))
      <3>1. h = g
        BY <1>4, <2>3 DEF With, Abstract!With, Item, Abstract!Item, Never, Abstract!Never
      <3>2. next \in 0 .. MaxValue
        BY <2>3, StoreAssumption
      <3>3. /\ cache' = KeepTtl(Touched(cache, {k}, At(p, 1)), k, next, At(p, 2))
            /\ now' = At(p, 4)
        BY <1>1, <2>3
      <3>4. g = With(f, k, Item(next, IF k \in DOMAIN f THEN f[k].exp ELSE Never))
        OBVIOUS
      <3> HIDE DEF g, h
      <3>5. Visible(cache'.entry, now') = Abstract!AliveAt(g, now')
        BY <3>2, <3>3, <3>4, UpdateIs
      <3>6. QED
        BY <3>1, <3>5
    <2>4. QED
      BY <1>1, <2>1, <2>2, <2>3
  <1>7. t \in now .. now'
    BY <1>2
  <1> HIDE DEF t
  <1>8. QED
    BY <1>2, <1>6, <1>7 DEF Abstract!Cas, Abstract!Command, Found

LEMMA DelImplements ==
    ASSUME StoreTypeOK, NEW k \in Key, Del(k)
    PROVE  Abstract!Del(k)
  <1>1. /\ now \in Nat /\ now' = now /\ now' >= now /\ now \in now .. now' /\ now <= now
        /\ MapOK(cache)
    BY DEF Del, StoreTypeOK
  <1>2. Visible(cache'.entry, now')
            = Abstract!AliveAt(Abstract!Restrict(Found(now), DOMAIN Found(now) \ {k}), now')
    BY <1>1, RemoveIs DEF Del
  <1>3. QED
    BY <1>1, <1>2 DEF Abstract!Del, Abstract!Command, Found

LEMMA ClearImplements ==
    ASSUME StoreTypeOK, Clear
    PROVE  Abstract!Clear
  <1> DEFINE h == Abstract!Restrict(Found(now), {})
  <1>1. now \in Nat /\ now' = now /\ now' >= now /\ now \in now .. now'
    BY DEF Clear, StoreTypeOK
  <1>2. DOMAIN cache'.entry = {} /\ Typed(cache'.entry)
    BY EmptyOK DEF Clear, MapOK
  <1>3. DOMAIN h = {}
    BY DEF Abstract!Restrict
  <1> HIDE DEF h
  <1>4. Visible(cache'.entry, now') = Abstract!AliveAt(h, now')
    BY <1>1, <1>2, <1>3, AliveIs
  <1>5. QED
    BY <1>1, <1>4 DEF Abstract!Clear, Abstract!Command, Found, h

\* A read, a sweep and the clock do nothing a client can see.
LEMMA PassImplements ==
    ASSUME StoreTypeOK, (\E keys \in SUBSET Key : Touch(keys)) \/ Sweep \/ Tick
    PROVE  Abstract!Pass
  <1>1. now \in Nat /\ now' \in Nat /\ now <= now' /\ MapOK(cache)
    BY DEF Touch, Sweep, Tick, StoreTypeOK
  <1>2. \A k \in DOMAIN cache.entry : cache.entry[k].exp \in Nat
    BY DEF StoreTypeOK, MapOK, Typed, Items
  <1>3. ASSUME NEW m, NEW keys, MapOK(m), m.entry = cache.entry, now' = now,
               cache' = Touched(m, keys, now)
        PROVE  Abstract!Pass
    <2>1. /\ MapOK(cache')
          /\ DOMAIN cache'.entry =
                {k \in DOMAIN m.entry : ~(k \in keys /\ Expired(m.entry[k], now))}
          /\ \A k \in DOMAIN cache'.entry : cache'.entry[k] = m.entry[k]
      BY <1>3, TouchedFacts
    <2>2. /\ Typed(cache'.entry)
          /\ \A k \in DOMAIN cache'.entry :
                k \in DOMAIN cache.entry /\ cache'.entry[k] = cache.entry[k]
          /\ \A k \in DOMAIN cache.entry :
                ~Expired(cache.entry[k], now') => k \in DOMAIN cache'.entry
      BY <1>3, <2>1 DEF MapOK
    <2>3. QED
      BY <1>1, <2>2, PassStep
  <1>4. ASSUME NEW keys \in SUBSET Key, Touch(keys) PROVE Abstract!Pass
    BY <1>1, <1>3, <1>4 DEF Touch
  <1>5. CASE Sweep
    <2>1. PICK m : MapOK(m) /\ m.entry = cache.entry /\ cache' = Touched(m, Front(cache), now)
      BY <1>5, BegunOK DEF StoreTypeOK, Sweep
    <2>2. now' = now
      BY <1>5 DEF Sweep
    <2>3. QED
      BY <1>3, <2>1, <2>2
  <1>6. CASE Tick
    BY <1>1, <1>6, PassStep DEF Tick, MapOK
  <1>7. QED
    BY <1>4, <1>5, <1>6

\* What TtlStore allows of a step.
Does ==
    /\ \A k \in Key, v \in Value, ttl \in Ttl :
            Set(k, v, ttl) => Abstract!Set(k, v, ttl)
    /\ \A j \in Key : \A k \in Key \ {j}, v, w \in Value :
            MSet(j, v, k, w) => Abstract!MSet([i \in {j, k} |-> IF i = j THEN v ELSE w])
    /\ \A k \in Key : (Incr(k) => Abstract!Incr(k)) /\ (Del(k) => Abstract!Del(k))
    /\ \A k \in Key : \A prev, next \in Value \cup {Nothing} :
            Cas(k, prev, next) => Abstract!Cas(k, prev, next)
    /\ Clear => Abstract!Clear
    /\ (\E keys \in SUBSET Key : Touch(keys)) \/ Sweep \/ Tick => Abstract!Pass

\* The keys of a broker with nothing stored, at time 0.
LEMMA InitImplements == StoreInit => Abstract!Init
  <1> SUFFICES ASSUME StoreInit PROVE Abstract!Init
    OBVIOUS
  <1>1. DOMAIN cache.entry = {} /\ now = 0
    BY EmptyOK DEF StoreInit
  <1>2. DOMAIN Visible(cache.entry, now) = {}
    BY <1>1, VisibleFacts
  <1>3. QED
    BY <1>1, <1>2 DEF Abstract!Init

\* So every step is one that TtlStore allows.
LEMMA StoreDoes == StoreTypeOK /\ [StoreNext]_storeVars => [Lapse \/ Does]_storeVars
  <1> SUFFICES ASSUME StoreTypeOK, ~Lapse PROVE Does
    OBVIOUS
  <1>1. \A k \in Key, v \in Value, ttl \in Ttl : Set(k, v, ttl) => Abstract!Set(k, v, ttl)
    BY SetImplements
  <1>2. \A j \in Key : \A k \in Key \ {j}, v, w \in Value :
            MSet(j, v, k, w) => Abstract!MSet([i \in {j, k} |-> IF i = j THEN v ELSE w])
    BY MSetImplements
  <1>3. \A k \in Key : (Incr(k) => Abstract!Incr(k)) /\ (Del(k) => Abstract!Del(k))
    BY IncrImplements, DelImplements
  <1>4. \A k \in Key : \A prev, next \in Value \cup {Nothing} :
            Cas(k, prev, next) => Abstract!Cas(k, prev, next)
    BY CasImplements
  <1>5. Clear => Abstract!Clear
    BY ClearImplements
  <1>6. (\E keys \in SUBSET Key : Touch(keys)) \/ Sweep \/ Tick => Abstract!Pass
    BY PassImplements
  <1>7. QED
    BY <1>1, <1>2, <1>3, <1>4, <1>5, <1>6 DEF Does

\* The store does what TtlStore says: every command acts at one instant on the values alive
\* then, and reads, purges and sweeps are invisible.
THEOREM StoreImplements == StoreSpec => ImplementsTtlStore
  <1>1. StoreSpec => Abstract!Init
    BY InitImplements DEF StoreSpec
  <1>2. StoreSpec => [][Lapse \/ Does]_storeVars
    BY StoreTypeCorrect, StoreDoes, PTL DEF StoreSpec
  <1>3. QED
    BY <1>1, <1>2, PTL DEF ImplementsTtlStore, Does
=============================================================================
