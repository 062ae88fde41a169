---------------------------- MODULE Persistence ----------------------------
(***************************************************************************)
(* Persistence of a broker: a snapshot and an append-only log of the       *)
(* effects of mutations (src/src/persistence.js), the cache and the        *)
(* retained messages they restore (src/src/store.js, src/src/broker.js).   *)
(*                                                                         *)
(* Each value carries the number of the operation that wrote it.  A write  *)
(* to the log is one system call, made on the event loop, or on a thread   *)
(* of the pool while the loop goes on.                                     *)
(***************************************************************************)
EXTENDS Integers, FiniteSets, Sequences, SequencesExt

CONSTANTS
    Key,
    Modes,            \* fsync modes of the instance
    Timed,            \* may a set carry a TTL: a set of booleans
    Retention,        \* pubRetentionMax
    OffsetBlock,      \* OFFSET_BLOCK
    AofRewriteOps,    \* aofRewriteOps
    Faults,           \* which system calls may go wrong
    MaxOps,           \* bound: operations
    MaxCrashes,       \* bound: ends of the process that are not planned
    MaxFaults         \* bound: calls that go wrong

ASSUME PersistenceAssumption ==
    /\ IsFiniteSet(Key)
    /\ Modes # {} /\ Modes \subseteq {"no", "everysec", "always"}
    /\ Timed \subseteq BOOLEAN
    /\ Faults \subseteq {"write", "short", "snapshot"}
    /\ Retention \in Nat
    /\ OffsetBlock \in Nat \ {0} /\ AofRewriteOps \in Nat \ {0}
    /\ MaxOps \in Nat /\ MaxCrashes \in Nat /\ MaxFaults \in Nat

VARIABLES
    phase,        \* of the broker: "up", "closing" or "down"
    mode,         \* persist.mode
    value,        \* the cache: what each key holds
    ring,         \* pubRetention of one channel: the offsets retained
    nextOffset,   \* broker.nextOffset
    persist,      \* the memory of the Persistence object
    snapshot,     \* snapshot.bin
    log,          \* aof.bin: whole and torn frames
    synced,       \* how many of them were fsynced
    lapsed,       \* TTLs that have run out
    ops,          \* operations so far
    crashes,
    faults,
    \* for the properties only
    past,         \* the cache after each mutation of this incarnation
    landed,       \* the last of them that is in the file...
    durable,      \* ...and that is on the disk
    acked,        \* offsets of the messages synced before their ack
    minted,       \* the highest offset ever used
    planned,      \* the last end of the process was planned
    failed        \* a write has failed, or recovery met a torn frame inside the log

disk  == <<snapshot, log, synced>>
ghost == <<past, landed, durable, acked, minted, planned, failed>>
vars  == <<phase, mode, value, ring, nextOffset, persist, disk,
           lapsed, ops, crashes, faults, ghost>>

\* v is the operation that wrote the value, 0 for none; e is the operation that
\* set its TTL, 0 for none.
Absent == [v |-> 0, e |-> 0]
Entry  == [v : Nat, e : Nat]

\* "at" is the place of a mutation in past.
Record ==
    [op : {"set"}, k : Key, entry : Entry, at : Nat]
    \cup [op : {"del"}, k : Key, at : Nat]
    \cup [op : {"clear"}, at : Nat]
    \cup [op : {"offset", "pub"}, offset : Nat, at : {0}]
Frame == [rec : Record, part : {"whole", "head", "rest"}]

\* The Persistence object.
Memory(F) ==
    [queue : Seq(F), batch : Seq(F), writing : {"no", "issued", "done", "error"},
     opsSinceSnapshot : Nat, compactScheduled : BOOLEAN, compactAfterWrite : BOOLEAN,
     offsetReserved : Nat]

NoPersist(offset) ==
    [queue |-> <<>>, batch |-> <<>>, writing |-> "no", opsSinceSnapshot |-> 0,
     compactScheduled |-> FALSE, compactAfterWrite |-> FALSE, offsetReserved |-> offset]

TypeOK ==
    /\ phase \in {"up", "closing", "down"} /\ mode \in Modes
    /\ value \in [Key -> Entry] /\ ring \in Seq(Nat) /\ nextOffset \in Nat
    /\ persist \in Memory(Frame)
    /\ snapshot \in [entries : [Key -> Entry], pubs : Seq(Nat), offset : Nat]
    /\ log \in Seq(Frame) /\ synced \in 0 .. Len(log)
    /\ lapsed \subseteq 1 .. ops /\ ops \in Nat /\ crashes \in Nat /\ faults \in Nat
    /\ past \in Seq([Key -> Entry]) /\ landed \in DOMAIN past /\ durable \in 1 .. landed
    /\ acked \subseteq Nat /\ minted \in Nat /\ planned \in BOOLEAN /\ failed \in BOOLEAN

Init ==
    /\ phase = "up" /\ mode \in Modes
    /\ value = [k \in Key |-> Absent] /\ ring = <<>> /\ nextOffset = 0
    /\ persist = NoPersist(0)
    /\ snapshot = [entries |-> value, pubs |-> <<>>, offset |-> 0]
    /\ log = <<>> /\ synced = 0
    /\ lapsed = {} /\ ops = 0 /\ crashes = 0 /\ faults = 0
    /\ past = <<value>> /\ landed = 1 /\ durable = 1
    /\ acked = {} /\ minted = 0 /\ planned = FALSE /\ failed = FALSE

-----------------------------------------------------------------------------
(* The log *)

Live(entry) == entry.e \notin lapsed

\* What a client reads.
View(store) == [k \in Key |-> IF Live(store[k]) THEN store[k].v ELSE 0]

MaxOf(S) == CHOOSE n \in S : \A m \in S : m <= n

Fault(kind) ==
    /\ kind \in Faults /\ faults < MaxFaults
    /\ faults' = faults + 1

\* A write of frames that reaches the file.
Written(frames) ==
    /\ log' = log \o frames
    /\ landed' = MaxOf({landed} \cup {frames[i].rec.at : i \in DOMAIN frames})

Whole(recs) == [i \in DOMAIN recs |-> [rec |-> recs[i], part |-> "whole"]]

\* Appends of one record each, synced (writeSync, fsyncSync).  When one of them
\* fails, the broker reports it and goes on.
WriteSync(recs) ==
    /\ \/ /\ Written(Whole(recs))
          /\ UNCHANGED <<faults, failed>>
       \/ /\ Fault("write") /\ failed' = TRUE
          /\ \E i \in DOMAIN recs : Written(Whole(RemoveAt(recs, i)))
    /\ IF log' = log THEN UNCHANGED <<synced, durable>>
                     ELSE synced' = Len(log') /\ durable' = landed'

\* _drain: all that is queued goes in one asynchronous write, one at a time.
Drained(p) ==
    IF p.writing # "no" \/ p.queue = <<>> THEN p
    ELSE [p EXCEPT !.writing = "issued", !.batch = p.queue, !.queue = <<>>]

Queued(p, rec) == Drained([p EXCEPT !.queue = @ \o Whole(<<rec>>)])

\* opsSinceSnapshot and _maybeCompact.
Counted(p) ==
    [p EXCEPT !.opsSinceSnapshot = @ + 1,
              !.compactScheduled = @ \/ p.opsSinceSnapshot + 1 >= AofRewriteOps]

\* logMutation or, if "sync", logPublishSync, after a synchronous append of "block".
\* logPublishSync does not count a record it could not write.
Log(p, block, rec, sync) ==
    IF sync \/ mode = "always"
    THEN /\ WriteSync(Append(block, rec))
         /\ persist' = IF sync /\ (log' = log \/ Last(log').rec # rec) THEN p ELSE Counted(p)
    ELSE /\ WriteSync(block)
         /\ persist' = Counted(Queued(p, rec))

-----------------------------------------------------------------------------
(* The operations of the broker *)

Operation ==
    /\ phase = "up" /\ ops < MaxOps
    /\ ops' = ops + 1
    /\ UNCHANGED <<phase, mode, snapshot, lapsed, crashes, planned>>

\* A mutation makes the cache "store", and its record says so.
Mutate(store, rec) ==
    /\ Operation
    /\ value' = store
    /\ past' = Append(past, store)
    /\ Log(persist, <<>>, rec, FALSE)
    /\ UNCHANGED <<ring, nextOffset, acked, minted>>

Put(k, entry) ==
    Mutate([value EXCEPT ![k] = entry],
           [op |-> "set", k |-> k, entry |-> entry, at |-> Len(past) + 1])

\* SET, with or without a TTL.
Set(k) == \E timed \in Timed : Put(k, [v |-> ops + 1, e |-> IF timed THEN ops + 1 ELSE 0])

\* INCR and CAS write in place: a live entry keeps its TTL.
Update(k) == Put(k, [v |-> ops + 1, e |-> IF Live(value[k]) THEN value[k].e ELSE 0])

\* DEL
Delete(k) ==
    Mutate([value EXCEPT ![k] = Absent], [op |-> "del", k |-> k, at |-> Len(past) + 1])

\* CLEAR
Clear == Mutate([k \in Key |-> Absent], [op |-> "clear", at |-> Len(past) + 1])

\* _retain
Retain(offsets) ==
    IF Len(offsets) <= Retention THEN offsets
    ELSE SubSeq(offsets, Len(offsets) - Retention + 1, Len(offsets))

\* Mutant of Ceiling: rounded down.
CeilingBelow(n) == (n \div OffsetBlock) * OffsetBlock

\* noteOffset: the end of the block that offset n begins.
Ceiling(n) == ((n + OffsetBlock) \div OffsetBlock) * OffsetBlock

\* PUBLISH: mint an offset, retain the message, log it: synced for acks "all".
Publish(sync) ==
    LET n   == nextOffset + 1
        new == n > persist.offsetReserved
    IN  /\ Operation
        /\ nextOffset' = n /\ minted' = MaxOf({minted, n})
        /\ ring' = Retain(Append(ring, n))
        /\ Log(IF new THEN [persist EXCEPT !.offsetReserved = Ceiling(n)] ELSE persist,
               IF new THEN <<[op |-> "offset", offset |-> Ceiling(n), at |-> 0]>> ELSE <<>>,
               [op |-> "pub", offset |-> n, at |-> 0], sync)
        /\ acked' = IF sync THEN acked \cup {n} ELSE acked
        /\ UNCHANGED <<value, past>>

\* A TTL runs out.
Lapse ==
    /\ \E i \in DOMAIN past, k \in Key :
        /\ past[i][k].e \notin lapsed \cup {0}
        /\ lapsed' = lapsed \cup {past[i][k].e}
    /\ UNCHANGED <<phase, mode, value, ring, nextOffset, persist, disk, ops, crashes, faults,
                   ghost>>

-----------------------------------------------------------------------------
(* Compaction *)

\* The process ends without having planned to.
Dies ==
    /\ crashes < MaxCrashes
    /\ crashes' = crashes + 1
    /\ phase' = "down" /\ planned' = FALSE /\ persist' = NoPersist(0)

\* Mutant of Snapshot: the messages are left out.
SnapshotOfStore(store, offsets, reserved) ==
    [entries |-> [k \in Key |-> IF Live(store[k]) THEN store[k] ELSE Absent],
     pubs |-> <<>>, offset |-> reserved]

\* dump, and the messages retained
Snapshot(store, offsets, reserved) ==
    [entries |-> [k \in Key |-> IF Live(store[k]) THEN store[k] ELSE Absent],
     pubs |-> offsets, offset |-> reserved]

\* Truncation of the log, after a snapshot that holds all that was logged.
Truncated ==
    /\ log' = <<>> /\ synced' = 0
    /\ durable' = landed /\ UNCHANGED landed

\* Mutant of HalfCompacted: the log is truncated first.
HalfCompactedLog(new) == log' = <<>> /\ synced' = 0 /\ UNCHANGED snapshot

\* What a process leaves that dies in the middle of a compaction.
HalfCompacted(new) == snapshot' = new /\ UNCHANGED <<log, synced>>

\* _compact, with the Persistence object as p: the snapshot fails, or it takes the
\* place of the old one and the log is truncated, unless the process dies between.
Compact(p) ==
    LET new == Snapshot(value, ring, p.offsetReserved)
    IN  \/ /\ snapshot' = new /\ Truncated
           /\ persist' = [p EXCEPT !.opsSinceSnapshot = 0]
           /\ UNCHANGED <<phase, crashes, faults, planned>>
        \/ /\ Fault("snapshot")
           /\ persist' = p
           /\ UNCHANGED <<phase, crashes, planned, disk, landed, durable>>
        \/ /\ HalfCompacted(new)
           /\ Dies
           /\ UNCHANGED <<landed, durable, faults>>

unchangedByWrites == <<mode, value, ring, nextOffset, lapsed, ops, past, acked, minted>>

\* The turn of the loop after _maybeCompact (_runCompact): a write in flight has
\* to land first.
RunCompact ==
    /\ phase = "up" /\ persist.compactScheduled
    /\ LET p == [persist EXCEPT !.compactScheduled = FALSE]
       IN  IF p.writing # "no"
           THEN /\ persist' = [p EXCEPT !.compactAfterWrite = TRUE]
                /\ UNCHANGED <<phase, disk, crashes, faults, landed, durable, planned>>
           ELSE Compact(p)
    /\ UNCHANGED <<unchangedByWrites, failed>>

-----------------------------------------------------------------------------
(* Asynchronous writes *)

Tear(batch, i) ==
    [head |-> Append(SubSeq(batch, 1, i - 1), [batch[i] EXCEPT !.part = "head"]),
     rest |-> <<[batch[i] EXCEPT !.part = "rest"]>> \o SubSeq(batch, i + 1, Len(batch))]

\* The thread of the pool makes the system call, which may fail or end short.
\* batch is then what was not written.
WriteLands ==
    /\ persist.writing = "issued"
    /\ \/ /\ Written(persist.batch)
          /\ persist' = [persist EXCEPT !.writing = "done", !.batch = <<>>]
          /\ UNCHANGED <<faults, failed>>
       \/ \E i \in {j \in DOMAIN persist.batch : persist.batch[j].part = "whole"} :
            LET t == Tear(persist.batch, i)
            IN  /\ Fault("short")
                /\ log' = log \o t.head
                /\ persist' = [persist EXCEPT !.writing = "done", !.batch = t.rest]
                /\ UNCHANGED <<landed, failed>>
       \/ /\ Fault("write") /\ failed' = TRUE
          /\ persist' = [persist EXCEPT !.writing = "error", !.batch = <<>>]
          /\ UNCHANGED <<log, landed>>
    /\ UNCHANGED <<unchangedByWrites, phase, snapshot, synced, durable, crashes, planned>>

\* Mutant of Leftover: the log stays.
LeftoverAll(p) == {log}

\* The log after the final snapshot.  When a write of p is still in flight, the file
\* is closed under it: it goes lost, or lands in what is opened next with the same
\* descriptor, the truncated log.
Leftover(p) == {<<>>, p.batch}

\* The last step of flushAndClose, with the Persistence object as p: without a
\* snapshot, the queue is flushed to the log.
FinishClose(p) ==
    /\ phase' = "down" /\ persist' = NoPersist(0)
    /\ \/ /\ snapshot' = Snapshot(value, ring, p.offsetReserved)
          /\ log' \in Leftover(p)
          /\ planned' = TRUE
          /\ UNCHANGED <<faults, crashes>>
       \/ /\ Fault("snapshot")
          /\ log' \in {log \o p.queue, log \o p.queue \o p.batch}
          /\ UNCHANGED <<snapshot, planned, crashes>>
       \/ /\ snapshot' = Snapshot(value, ring, p.offsetReserved)
          /\ Dies
          /\ UNCHANGED <<log, faults>>
    /\ synced' = Len(log')
    /\ UNCHANGED <<landed, durable>>

\* The callback of the write: what was not written goes back to the queue, then
\* comes a compaction that has waited, then the next write.
WriteReturns ==
    /\ persist.writing \in {"done", "error"}
    /\ LET p == [persist EXCEPT !.writing = "no", !.batch = <<>>,
                                !.queue = persist.batch \o @, !.compactAfterWrite = FALSE]
           Resumed(q) == IF persist.writing = "done" THEN Drained(q) ELSE q
       IN  \/ /\ phase = "closing"
              /\ FinishClose(Resumed(p))
           \/ /\ phase = "up" /\ persist.compactAfterWrite
              /\ Compact(Resumed(p))
           \/ /\ phase = "up" /\ ~persist.compactAfterWrite
              /\ persist' = Resumed(p)
              /\ UNCHANGED <<phase, disk, crashes, faults, landed, durable, planned>>
    /\ UNCHANGED <<unchangedByWrites, failed>>

\* The timer of mode "everysec".
Fsync ==
    /\ phase = "up" /\ mode = "everysec" /\ synced < Len(log)
    /\ synced' = Len(log) /\ durable' = landed
    /\ UNCHANGED <<unchangedByWrites, phase, persist, snapshot, log, crashes, faults, landed,
                   planned, failed>>

\* flushAndClose: it waits for a write in flight.
Close ==
    /\ phase = "up"
    /\ IF persist.writing = "no"
       THEN FinishClose(persist)
       ELSE /\ phase' = "closing"
            /\ UNCHANGED <<persist, disk, crashes, faults, landed, durable, planned>>
    /\ UNCHANGED <<unchangedByWrites, failed>>

-----------------------------------------------------------------------------
(* Crash and recovery *)

\* The process is killed; a write in flight lands in part.  What it leaves torn at
\* the end of the log, recovery ignores, so it is not kept here.
Kill ==
    /\ phase # "down" /\ Dies
    /\ \E frames \in Prefixes(IF persist.writing = "issued" THEN persist.batch ELSE <<>>) :
        log' = log \o frames
    /\ UNCHANGED <<unchangedByWrites, snapshot, synced, faults, landed, durable, failed>>

\* The machine loses power: what was not synced is lost, from some point on.
PowerLoss ==
    /\ phase # "down" /\ Dies
    /\ \E n \in synced .. Len(log) : log' = SubSeq(log, 1, n)
    /\ landed' = durable
    /\ UNCHANGED <<unchangedByWrites, snapshot, synced, faults, durable, failed>>

\* Frame i of the log decodes: it is whole, or its halves are side by side.
Decodes(i) ==
    \/ log[i].part = "whole"
    \/ log[i].part = "head" /\ i < Len(log) /\ log[i + 1] = [log[i] EXCEPT !.part = "rest"]
    \/ log[i].part = "rest" /\ i > 1 /\ log[i - 1] = [log[i] EXCEPT !.part = "head"]

\* The frames recovery reads: it stops at the first that does not decode.
Readable ==
    LET n == MaxOf({m \in 0 .. Len(log) : \A i \in 1 .. m : Decodes(i)})
    IN  {i \in 1 .. n : log[i].part # "head"}

\* _apply: what a record does to key k.  A set whose TTL has run out is skipped.
Affects(rec, k) ==
    \/ rec.op = "clear"
    \/ rec.op = "del" /\ rec.k = k
    \/ rec.op = "set" /\ rec.k = k /\ Live(rec.entry)

RecoveredEntry(k) ==
    LET writes == {i \in Readable : Affects(log[i].rec, k)}
        last   == log[MaxOf(writes)].rec
    IN  IF writes = {}
        THEN IF Live(snapshot.entries[k]) THEN snapshot.entries[k] ELSE Absent
        ELSE IF last.op = "set" THEN last.entry ELSE Absent

\* Mutant of Repeats: every record is taken for a new message.
RepeatsNever(i) == FALSE

\* _recoverPub skips a message at or below the newest one retained.
Repeats(i) ==
    \/ \E j \in DOMAIN snapshot.pubs : log[i].rec.offset <= snapshot.pubs[j]
    \/ \E j \in Readable :
        j < i /\ log[j].rec.op = "pub" /\ log[i].rec.offset <= log[j].rec.offset

\* The n-th of the places ps, in order.
Nth(ps, n) == CHOOSE i \in ps : Cardinality({j \in ps : j <= i}) = n

\* The frames whose messages recovery retains.
Recovered == {i \in Readable : log[i].rec.op = "pub" /\ ~Repeats(i)}

RecoveredRing ==
    Retain(snapshot.pubs \o [n \in 1 .. Cardinality(Recovered) |->
                               log[Nth(Recovered, n)].rec.offset])

\* loadedOffset: the reservations, and the messages on record.
RecoveredOffset ==
    MaxOf({snapshot.offset} \cup
          {log[i].rec.offset : i \in {j \in Readable : log[j].rec.op \in {"offset", "pub"}}})

\* Every frame of the log decodes but a last one that was cut off.
LogIsWhole == \A i \in 1 .. Len(log) - 1 : Decodes(i)

\* load and start: recover, then compact.
Load ==
    /\ phase = "down"
    /\ LET store == [k \in Key |-> RecoveredEntry(k)]
       IN  /\ snapshot' = Snapshot(store, RecoveredRing, RecoveredOffset)
           /\ \/ /\ phase' = "up"
                 /\ value' = store /\ ring' = RecoveredRing /\ nextOffset' = RecoveredOffset
                 /\ persist' = NoPersist(RecoveredOffset)
                 /\ log' = <<>> /\ synced' = 0
                 /\ past' = <<store>> /\ landed' = 1 /\ durable' = 1
                 /\ planned' = FALSE
                 /\ UNCHANGED crashes
              \/ /\ Dies
                 /\ UNCHANGED <<value, ring, nextOffset, log, synced, past, landed, durable>>
    /\ failed' = (failed \/ ~LogIsWhole)
    /\ UNCHANGED <<mode, lapsed, ops, faults, acked, minted>>

Next ==
    \/ \E k \in Key : Set(k) \/ Update(k) \/ Delete(k)
    \/ Clear
    \/ \E sync \in BOOLEAN : Publish(sync)
    \/ RunCompact \/ WriteLands \/ WriteReturns \/ Fsync \/ Lapse
    \/ Close \/ Kill \/ PowerLoss \/ Load

Spec == Init /\ [][Next]_vars

-----------------------------------------------------------------------------
(* Properties *)

Untimed(k) == \A i \in DOMAIN past : past[i][k].e = 0

\* The broker has recovered.
Recovers == phase = "down" /\ phase' = "up"

\* A key without TTLs holds after recovery what it held at some moment since the
\* last of its mutations known to be in the file (after a power loss: on the disk).
\* With mode "always" that is every mutation.
RecoveryIsRecent ==
    [][Recovers /\ ~failed' =>
        \A k \in Key : Untimed(k) =>
            \E i \in landed .. Len(past) : value'[k] = past[i][k]]_vars

\* "final snapshot + fsync -> planned restart is lossless" (broker.js:1075), for what
\* clients read of the cache and for the retained messages.  A write that close()
\* strands in the new log (Leftover) does no harm but to keys with a TTL, where it may
\* bring back what an expired value had replaced.
PlannedRestartIsLossless ==
    [][Recovers /\ planned =>
        /\ \A k \in Key : log = <<>> \/ Untimed(k) => View(value')[k] = View(value)[k]
        /\ ring' = ring]_vars

\* Offsets stay increasing over restarts: a subscriber would take a message whose
\* offset is used again for one it has seen (persistence.js:196-198).
OffsetsStayNew == phase = "up" /\ ~failed => nextOffset >= minted

Increasing(s) == \A i, j \in DOMAIN s : i < j => s[i] < s[j]

\* No message is retained twice, "queued before a compaction, written after it"
\* (broker.js:737-739), and replay is in order.
RetainedOnce == Increasing(ring)

\* "a broker crash right after the producer's ack can't lose the message"
\* (persistence.js:218-219): it is there again unless retention dropped it.
AckedMessagesSurvive ==
    [][Recovers /\ ~failed' => ToSet(ring) \cap acked \subseteq ToSet(ring')]_vars

\* A message that is in the log is not lost in recovery, whatever jumped ahead of it
\* ("replay dedupes pubs by offset", persistence.js:222).
LoggedMessagesSurvive ==
    [][Recovers => \A i \in Readable :
        log[i].rec.op = "pub" /\ log[i].rec.offset \in ToSet(ring)
            => log[i].rec.offset \in ToSet(ring')]_vars

\* What a client reads after recovery is what it could have read since the last
\* record in the file: a value whose TTL ran out is gone, not an older one back.
ExpiredStaysExpired ==
    [][Recovers /\ ~failed' =>
        \A k \in Key : \E i \in landed .. Len(past) : View(value')[k] = View(past[i])[k]]_vars

-----------------------------------------------------------------------------
(* The inductive invariant of OffsetsStayNew and RetainedOnce *)

\* No TTL is one of an operation to come.
PastEntry == [v : Nat, e : 0 .. ops]
PastFrame == {f \in Frame : f.rec.op = "set" => f.rec.entry.e <= ops}
TtlsArePast ==
    /\ value \in [Key -> PastEntry] /\ snapshot.entries \in [Key -> PastEntry]
    /\ past \in Seq([Key -> PastEntry]) /\ log \in Seq(PastFrame)

\* What is still to be written was recorded by this incarnation.
RecentFrame == {f \in PastFrame : f.rec.at <= Len(past)}
QueueIsRecent == persist \in Memory(RecentFrame)

\* A broker that is down writes nothing.
WritesWhileUp == phase = "down" => persist.writing = "no"

\* Offsets are minted within the reservation, and a snapshot holds no message that is
\* beyond the reservation it holds.
OffsetsReserved ==
    /\ phase # "down" => nextOffset <= persist.offsetReserved
                        /\ \A i \in DOMAIN ring : ring[i] <= nextOffset
    /\ Increasing(snapshot.pubs)
    /\ \A i \in DOMAIN snapshot.pubs : snapshot.pubs[i] <= snapshot.offset

\* No end of the process loses a reservation of n.
Recorded(n) ==
    \/ n <= snapshot.offset
    \/ \E i \in 1 .. synced :
         log[i].part = "whole" /\ log[i].rec.op = "offset" /\ n <= log[i].rec.offset

\* What was minted is reserved, and what is reserved is on the disk.
ReservationRecorded ==
    ~failed => IF phase = "down" THEN Recorded(minted)
               ELSE minted <= nextOffset /\ Recorded(persist.offsetReserved)

IInv ==
    /\ TypeOK /\ TtlsArePast /\ QueueIsRecent /\ WritesWhileUp
    /\ RetainedOnce /\ OffsetsReserved /\ ReservationRecorded

-----------------------------------------------------------------------------
(* The inductive invariant of AckedMessagesSurvive *)

\* Offset n is retained, or older than all that are.
Retained(n) ==
    /\ n <= nextOffset
    /\ \A i \in DOMAIN ring : ring[i] <= n => n \in ToSet(ring)

\* So is every message on record, hence one that is retained is among the newest of them.
RetainedFrame == {f \in Frame : f.rec.op = "pub" => Retained(f.rec.offset)}
RecordsAreRetained ==
    /\ Len(ring) <= Retention
    /\ \A i \in DOMAIN snapshot.pubs : Retained(snapshot.pubs[i])
    /\ log \in Seq(RetainedFrame) /\ persist \in Memory(RetainedFrame)

\* Recovery will not take message m for a repeat.
Ahead(m) ==
    /\ \A i \in DOMAIN snapshot.pubs : snapshot.pubs[i] < m
    /\ \E i \in 1 .. synced :
        /\ log[i].part = "whole" /\ log[i].rec.op = "pub" /\ log[i].rec.offset = m
        /\ \A j \in 1 .. i - 1 : log[j].rec.op = "pub" => log[j].rec.offset < m

AckedOnDisk ==
    ~failed => \A m \in ToSet(ring) \cap acked : m \in ToSet(snapshot.pubs) \/ Ahead(m)

\* Nothing to come is acked, so what is published next is not taken for it.
AckedWereMinted == \A m \in acked : m <= minted

DurableInv == IInv /\ RecordsAreRetained /\ AckedOnDisk /\ AckedWereMinted
=============================================================================
