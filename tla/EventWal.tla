------------------------------- MODULE EventWal -------------------------------
(***************************************************************************)
(* The segmented durable write-ahead log of the gateway                    *)
(* (src/src/gateway/event_wal.rs).                                         *)
(*                                                                         *)
(* A segment file is a sequence of bytes, and an offset is an index into   *)
(* it.  A byte says which record it belongs to and whether it is the       *)
(* newline that ends the record; record e occupies Size[e] bytes, the      *)
(* newline included.  Everything the log decides depends on bytes through  *)
(* four questions only: how long is the file, where is the next newline,   *)
(* is a line a whole record, and does the record name the place it is at.  *)
(*                                                                         *)
(* The writer is behind a mutex, so each of its methods is one action,     *)
(* and a crash inside a method is an action of its own that leaves what    *)
(* the method had put on disk.                                             *)
(***************************************************************************)
EXTENDS Integers, Sequences, FiniteSets, FiniteSetsExt

CONSTANTS
    Event,                \* events that callers append
    Size,                 \* encoded bytes of each event, newline included
    SegmentBytes,         \* WalConfig.segment_bytes
    TotalBytes,           \* WalConfig.total_bytes
    MaxEventBytes,        \* MAX_DURABLE_EVENT_BYTES
    Request,              \* governed requests that may reserve capacity
    NoRequest,            \* the reservation of an unreserved append
    RequestBytes,         \* DURABLE_REQUEST_RESERVATION_BYTES
    MaxEventsPerRequest,  \* MAX_DURABLE_EVENTS_PER_REQUEST
    MaxAcks,              \* the largest acknowledged_count (u64 in the code)
    MaxRecords,           \* bound: appends that reach the disk
    MaxCrashes,           \* bound: crashes
    MaxTears              \* bound: partial records left behind

ASSUME SizeAssumption == Size \in [Event -> Nat \ {0, 1}]
ASSUME LimitAssumption ==
    /\ SegmentBytes \in Nat \ {0}
    /\ TotalBytes \in Nat \ {0}
    /\ SegmentBytes <= TotalBytes
    /\ MaxEventBytes \in Nat
    /\ RequestBytes \in Nat
    /\ MaxEventsPerRequest \in Nat
ASSUME RequestAssumption == IsFiniteSet(Request) /\ NoRequest \notin Request
ASSUME BoundAssumption ==
    /\ MaxAcks \in Nat
    /\ MaxRecords \in Nat
    /\ MaxCrashes \in Nat
    /\ MaxTears \in Nat

VARIABLES
    disk,      \* segment number -> bytes of the segment file
    ckpt,      \* checkpoint.json; its absence is the default checkpoint
    quar,      \* corrupt-segment-*-offset-*.json documents
    up,        \* a process has the log open
    cur,       \* current_segment and current_offset
    total,     \* total_bytes_written
    written,   \* records_written
    reserved,  \* reserved_bytes
    resv,      \* the reservation each request holds
    claims,    \* items next_pending handed to readers of this process
    overcounted, \* history: total counts files a failed compaction removed
    log,       \* history: every record that reached the disk whole
    torn,      \* history: segments in which a partial record was left
    tears,     \* history: partial records left, at most MaxTears
    crashes    \* history: crashes, at most MaxCrashes

diskVars == <<disk, ckpt, quar>>
memVars == <<up, cur, total, written, reserved, resv, claims, overcounted>>
histVars == <<log, torn, tears, crashes>>
walVars == <<diskVars, memVars, histVars>>

Byte == [id : Event, segment : Nat, offset : Nat, nl : BOOLEAN]
Position == [segment : Nat, offset : Nat]
Checkpoint == [segment : Nat, offset : Nat, count : Nat]
LogRecord == [id : Event, segment : Nat, pos : Nat]
Reservation == [held : BOOLEAN, remaining : Nat, events : Nat]
\* An item of next_pending: where it was read, the frontier after it, and
\* whether it is a record (or was quarantined as malformed).
Claim == [segment : Nat, offset : Nat, next : Nat, record : BOOLEAN]

NoReservation == [held |-> FALSE, remaining |-> 0, events |-> 0]
DefaultCheckpoint == [segment |-> 0, offset |-> 0, count |-> 0]

-----------------------------------------------------------------------------
(* Files.                                                                  *)

File(d, s) == IF s \in DOMAIN d THEN d[s] ELSE << >>
Put(d, s, f) == [t \in DOMAIN d \cup {s} |-> IF t = s THEN f ELSE d[t]]
RemoveFiles(d, S) == [s \in DOMAIN d \ S |-> d[s]]

\* The bytes of all segment files: recover_position and both recounts.
Bytes(d) == Cardinality(UNION {{s} \X (1 .. Len(d[s])) : s \in DOMAIN d})

\* count_physical_records: lines, an unterminated last one included.
PhysicalRecords(d) ==
    Cardinality(UNION {{s} \X {i \in 1 .. Len(d[s]) : d[s][i].nl \/ i = Len(d[s])}
                       : s \in DOMAIN d})

\* encode_record: a record names the segment and offset it is written for.
Encode(e, p) ==
    [i \in 1 .. Size[e] |->
        [id |-> e, segment |-> p.segment, offset |-> p.offset, nl |-> i = Size[e]]]

\* read_until(b'\n'): the end of the line that starts at offset o.
LineEnd(f, o) ==
    LET ends == {i \in o + 1 .. Len(f) : f[i].nl}
    IN  IF ends = {} THEN Len(f) ELSE Min(ends)

Line(f, o) == SubSeq(f, o + 1, LineEnd(f, o))

\* A line is a record that verifies when it is one whole encoding, made for
\* the place it is read from; anything else is truncated_record,
\* invalid_json or position_mismatch.
IsRecordAt(f, s, o) ==
    /\ o < Len(f)
    /\ f[o + 1].segment = s
    /\ f[o + 1].offset = o
    /\ Line(f, o) = Encode(f[o + 1].id, [segment |-> s, offset |-> o])

\* validate_record_boundary
IsBoundary(f, o) ==
    /\ o <= Len(f)
    /\ o \notin {0, Len(f)} => f[o].nl

\* validate_checkpoint_position; load_checkpoint, save_checkpoint,
\* next_pending and compact_segments all fail when it does.
CheckpointValid(d, c) ==
    c # DefaultCheckpoint =>
        /\ c.segment \in DOMAIN d
        /\ IsBoundary(d[c.segment], c.offset)

\* Mutation: the checkpoint's own segment counts as acknowledged.
Obsolete_Own(d, c) == {s \in DOMAIN d : s <= c.segment}

\* compact_segments keeps the checkpoint's segment and later ones.
Obsolete(d, c) == {s \in DOMAIN d : s < c.segment}
Compact(d, c) == RemoveFiles(d, Obsolete(d, c))

\* compact_segments that fails: segment_files is in ascending order, and the
\* error comes at some remove_file or at the directory's fsync.
PartlyCompacted(d, c) ==
    {RemoveFiles(d, {s \in Obsolete(d, c) : s < k}) : k \in 0 .. c.segment}

-----------------------------------------------------------------------------
(* Reading at the frontier.                                                *)

\* Mutation: the checkpoint's offset is applied to later segments too.
StartOffset_Kept(c, s) == c.offset

StartOffset(c, s) == IF s = c.segment THEN c.offset ELSE 0

PendingSegments(d, c) ==
    {s \in DOMAIN d : s >= c.segment /\ StartOffset(c, s) < Len(d[s])}

HasPending(d, c) == PendingSegments(d, c) # {}

\* next_pending: the item at the frontier.
Pending(d, c) ==
    LET s == Min(PendingSegments(d, c))
        o == StartOffset(c, s)
    IN  [segment |-> s, offset |-> o, next |-> LineEnd(d[s], o),
         record |-> IsRecordAt(d[s], s, o)]

\* quarantine_corrupt_record: a document that exists is left as it is.
QuarantineCorrupt(q, s, o, raw) ==
    IF \E doc \in q : doc.segment = s /\ doc.offset = o
    THEN q
    ELSE q \cup {[segment |-> s, offset |-> o, raw |-> raw]}

\* What a call of next_pending leaves in the quarantine directory.
QuarantineAfterRead ==
    LET item == Pending(disk, ckpt)
    IN  IF item.record
        THEN quar
        ELSE QuarantineCorrupt(quar, item.segment, item.offset,
                               Line(disk[item.segment], item.offset))

\* Frontier order: (segment, offset), lexicographically.
Precedes(s1, o1, s2, o2) == s1 < s2 \/ (s1 = s2 /\ o1 < o2)

-----------------------------------------------------------------------------
(* Appending.                                                              *)

Oversized(e) == Size[e] > MaxEventBytes \/ Size[e] > SegmentBytes

Rotates(e) == cur.offset > 0 /\ cur.offset + Size[e] > SegmentBytes

\* Mutation: the offset is not reset when the segment changes.
Target_KeepOffset(e) ==
    IF Rotates(e) THEN [cur EXCEPT !.segment = @ + 1] ELSE cur

\* Where append_internal writes: a record that would overflow the current
\* segment goes to the start of the next one.
Target(e) ==
    IF Rotates(e) THEN [segment |-> cur.segment + 1, offset |-> 0] ELSE cur

\* Mutation: capacity promised to requests is not counted.
NeedsCompaction_NoReserve(e, r) == r = NoRequest /\ total + Size[e] > TotalBytes

NeedsCompaction(e, r) == r = NoRequest /\ total + reserved + Size[e] > TotalBytes

\* The files and the byte count once append_internal has made what room it
\* can; a reserved append makes none.
DiskFor(e, r) == IF NeedsCompaction(e, r) THEN Compact(disk, ckpt) ELSE disk
TotalFor(e, r) == IF NeedsCompaction(e, r) THEN Bytes(Compact(disk, ckpt)) ELSE total
OvercountedFor(e, r) == overcounted /\ ~NeedsCompaction(e, r)

HasRoom(e, r) ==
    IF r = NoRequest
    THEN NeedsCompaction(e, r) =>
            /\ CheckpointValid(disk, ckpt)
            /\ TotalFor(e, r) + reserved + Size[e] <= TotalBytes
    ELSE Size[e] <= resv[r].remaining

\* The checks of append_reserved and the size checks of append_internal.
\* When one fails the call returns an error and changes nothing.
MayAppend(e, r) ==
    /\ up
    /\ ~Oversized(e)
    /\ r # NoRequest => resv[r].held /\ resv[r].events < MaxEventsPerRequest
    /\ Cardinality(log) < MaxRecords

\* WalReservation::consume
Consume(e, r) ==
    IF r = NoRequest
    THEN UNCHANGED <<reserved, resv>>
    ELSE /\ reserved' = reserved - Size[e]
         /\ resv' = [resv EXCEPT ![r].remaining = @ - Size[e], ![r].events = @ + 1]

\* The file the record goes to, before the write (ensure_file creates it).
TargetFile(e, r) == File(DiskFor(e, r), Target(e).segment)

LogEntry(e, r) ==
    [id |-> e, segment |-> Target(e).segment, pos |-> Len(TargetFile(e, r))]

\* What the first k bytes of the record leave on disk.
WritePrefix(e, r, k) ==
    disk' = Put(DiskFor(e, r), Target(e).segment,
                TargetFile(e, r) \o SubSeq(Encode(e, Target(e)), 1, k))

\* append, append_reserved: write and fsync succeed.
AppendOk(e, r) ==
    /\ MayAppend(e, r)
    /\ HasRoom(e, r)
    /\ WritePrefix(e, r, Size[e])
    /\ cur' = [Target(e) EXCEPT !.offset = @ + Size[e]]
    /\ total' = TotalFor(e, r) + Size[e]
    /\ written' = written + 1
    /\ Consume(e, r)
    /\ overcounted' = OvercountedFor(e, r)
    /\ log' = log \cup {LogEntry(e, r)}
    /\ UNCHANGED <<ckpt, quar, up, claims, torn, tears, crashes>>

\* "WAL full", an exhausted reservation, or a checkpoint that cannot be
\* loaded: the rotation and the compaction already done stay.
AppendRefused(e, r) ==
    /\ MayAppend(e, r)
    /\ ~HasRoom(e, r)
    /\ cur' = Target(e)
    /\ IF r = NoRequest /\ CheckpointValid(disk, ckpt)
       THEN /\ disk' = DiskFor(e, r)
            /\ total' = TotalFor(e, r)
            /\ overcounted' = OvercountedFor(e, r)
       ELSE UNCHANGED <<disk, total, overcounted>>
    /\ UNCHANGED <<ckpt, quar, up, written, reserved, resv, claims, histVars>>

\* compact_segments or the recount after it returns an error: what it had
\* removed is gone, and the writer's total still counts it.
AppendCompactionFails(e, r) ==
    /\ MayAppend(e, r)
    /\ NeedsCompaction(e, r)
    /\ CheckpointValid(disk, ckpt)
    /\ cur' = Target(e)
    /\ disk' \in PartlyCompacted(disk, ckpt)
    /\ overcounted' = (overcounted \/ disk' # disk)
    /\ UNCHANGED <<ckpt, quar, up, total, written, reserved, resv, claims, histVars>>

\* ensure_file cannot open the segment file.
AppendNotOpened(e, r) ==
    /\ MayAppend(e, r)
    /\ HasRoom(e, r)
    /\ cur' = Target(e)
    /\ disk' = DiskFor(e, r)
    /\ total' = TotalFor(e, r)
    /\ overcounted' = OvercountedFor(e, r)
    /\ UNCHANGED <<ckpt, quar, up, written, reserved, resv, claims, histVars>>

\* write_all or sync_all fails after k bytes; set_len undoes it.
AppendRolledBack(e, r) ==
    /\ MayAppend(e, r)
    /\ HasRoom(e, r)
    /\ WritePrefix(e, r, 0)
    /\ cur' = Target(e)
    /\ total' = TotalFor(e, r)
    /\ overcounted' = OvercountedFor(e, r)
    /\ UNCHANGED <<ckpt, quar, up, written, reserved, resv, claims, histVars>>

\* write_all fails after k bytes, or sync_all after all of them, and set_len
\* fails as well (its result is discarded): the bytes stay and the writer
\* does not count them.
AppendTorn(e, r, k) ==
    /\ MayAppend(e, r)
    /\ HasRoom(e, r)
    /\ tears < MaxTears
    /\ WritePrefix(e, r, k)
    /\ cur' = Target(e)
    /\ total' = TotalFor(e, r)
    /\ overcounted' = OvercountedFor(e, r)
    /\ torn' = torn \cup {Target(e).segment}
    /\ tears' = tears + 1
    /\ UNCHANGED <<ckpt, quar, up, written, reserved, resv, claims, log, crashes>>

-----------------------------------------------------------------------------
(* Reservations.                                                           *)

\* reserve_request
ReserveRequest(r) ==
    /\ up
    /\ ~resv[r].held
    /\ total + reserved + RequestBytes <= TotalBytes
    /\ reserved' = reserved + RequestBytes
    /\ resv' = [resv EXCEPT ![r] =
                    [held |-> TRUE, remaining |-> RequestBytes, events |-> 0]]
    /\ UNCHANGED <<diskVars, up, cur, total, written, claims, overcounted, histVars>>

\* WalReservation::drop
DropReservation(r) ==
    /\ up
    /\ resv[r].held
    /\ reserved' = reserved - resv[r].remaining
    /\ resv' = [resv EXCEPT ![r] = NoReservation]
    /\ UNCHANGED <<diskVars, up, cur, total, written, claims, overcounted, histVars>>

-----------------------------------------------------------------------------
(* Readers and acknowledgement.                                            *)

\* A reader loads the checkpoint and takes the item at the frontier.
NextPending ==
    /\ up
    /\ CheckpointValid(disk, ckpt)
    /\ HasPending(disk, ckpt)
    /\ quar' = QuarantineAfterRead
    /\ claims' = claims \cup {Pending(disk, ckpt)}
    /\ UNCHANGED <<disk, ckpt, up, cur, total, written, reserved, resv, overcounted, histVars>>

AckedCheckpoint(c) ==
    [segment |-> c.segment, offset |-> c.next, count |-> ckpt.count + 1]

\* Mutation: an acknowledgement may move the frontier backwards.
MayAcknowledge_Backwards(c) ==
    /\ up
    /\ CheckpointValid(disk, ckpt)
    /\ ckpt.count < MaxAcks
    /\ CheckpointValid(disk, AckedCheckpoint(c))

\* The checks of acknowledge and of the save_checkpoint it calls.  A reader
\* may come with its item at any later time, or twice.
MayAcknowledge(c) ==
    /\ up
    /\ CheckpointValid(disk, ckpt)
    /\ ~Precedes(c.segment, c.next, ckpt.segment, ckpt.offset)
    /\ ckpt.count < MaxAcks
    /\ CheckpointValid(disk, AckedCheckpoint(c))

\* acknowledge: save the checkpoint, compact, recount.
Acknowledge(c) ==
    /\ MayAcknowledge(c)
    /\ ckpt' = AckedCheckpoint(c)
    /\ disk' = Compact(disk, AckedCheckpoint(c))
    /\ total' = IF Bytes(disk') <= total THEN Bytes(disk') ELSE total
    /\ overcounted' = FALSE
    /\ UNCHANGED <<quar, up, cur, written, reserved, resv, claims, histVars>>

\* acknowledge returns an error after the checkpoint was renamed into place:
\* the directory's fsync, the compaction or the recount fails.  The frontier
\* has moved, some obsolete files may be gone, and nothing is recounted.
AcknowledgeFails(c) ==
    /\ MayAcknowledge(c)
    /\ ckpt' = AckedCheckpoint(c)
    /\ disk' \in PartlyCompacted(disk, AckedCheckpoint(c))
    /\ overcounted' = (overcounted \/ disk' # disk)
    /\ UNCHANGED <<quar, up, cur, total, written, reserved, resv, claims, histVars>>

-----------------------------------------------------------------------------
(* Crash and restart.                                                      *)

\* The memory of a process that has gone; its fields are meaningless until
\* the log is opened again.
ProcessGone ==
    /\ up' = FALSE
    /\ cur' = [segment |-> 0, offset |-> 0]
    /\ total' = 0
    /\ written' = 0
    /\ reserved' = 0
    /\ resv' = [r \in Request |-> NoReservation]
    /\ claims' = {}
    /\ overcounted' = FALSE
    /\ crashes < MaxCrashes
    /\ crashes' = crashes + 1

\* A crash outside an append.  A compaction it interrupts has removed any
\* part of the obsolete segments.
Crash ==
    /\ up
    /\ ProcessGone
    /\ \/ disk' = disk
       \/ /\ \E e \in Event : ~Oversized(e) /\ NeedsCompaction(e, NoRequest)
          /\ CheckpointValid(disk, ckpt)
          /\ \E S \in SUBSET Obsolete(disk, ckpt) : disk' = RemoveFiles(disk, S)
    /\ UNCHANGED <<ckpt, quar, log, torn, tears>>

\* A crash between write_all and the return of append: some prefix of the
\* record is on disk.  A record written whole is durable although its
\* caller never learned of it.
AppendCrash(e, r, k) ==
    /\ MayAppend(e, r)
    /\ HasRoom(e, r)
    /\ ProcessGone
    /\ WritePrefix(e, r, k)
    /\ IF k = Size[e] THEN log' = log \cup {LogEntry(e, r)} ELSE log' = log
    /\ IF k \in 1 .. Size[e] - 1
       THEN /\ tears < MaxTears
            /\ torn' = torn \cup {Target(e).segment}
            /\ tears' = tears + 1
       ELSE UNCHANGED <<torn, tears>>
    /\ UNCHANGED <<ckpt, quar>>

\* A crash inside acknowledge, after the checkpoint was renamed into place.
AcknowledgeCrash(c) ==
    /\ MayAcknowledge(c)
    /\ ProcessGone
    /\ ckpt' = AckedCheckpoint(c)
    /\ \E S \in SUBSET Obsolete(disk, ckpt') : disk' = RemoveFiles(disk, S)
    /\ UNCHANGED <<quar, log, torn, tears>>

\* WalWriter::open: load_checkpoint must succeed, then recover_position.
Open ==
    /\ ~up
    /\ CheckpointValid(disk, ckpt)
    /\ up' = TRUE
    /\ cur' = IF DOMAIN disk = {}
              THEN [segment |-> 0, offset |-> 0]
              ELSE [segment |-> Max(DOMAIN disk),
                    offset |-> Len(disk[Max(DOMAIN disk)])]
    /\ total' = Bytes(disk)
    /\ written' = PhysicalRecords(disk)
    /\ reserved' = 0
    /\ resv' = [r \in Request |-> NoReservation]
    /\ claims' = {}
    /\ overcounted' = FALSE
    /\ UNCHANGED <<diskVars, histVars>>

-----------------------------------------------------------------------------

\* An empty data directory, before the first open.
WalInit ==
    /\ disk = << >>
    /\ ckpt = DefaultCheckpoint
    /\ quar = {}
    /\ up = FALSE
    /\ cur = [segment |-> 0, offset |-> 0]
    /\ total = 0
    /\ written = 0
    /\ reserved = 0
    /\ resv = [r \in Request |-> NoReservation]
    /\ claims = {}
    /\ overcounted = FALSE
    /\ log = {}
    /\ torn = {}
    /\ tears = 0
    /\ crashes = 0

AppendStep(e, r) ==
    \/ AppendOk(e, r)
    \/ AppendRefused(e, r)
    \/ AppendCompactionFails(e, r)
    \/ AppendNotOpened(e, r)
    \/ AppendRolledBack(e, r)
    \/ \E k \in 1 .. Size[e] : AppendTorn(e, r, k)
    \/ \E k \in 0 .. Size[e] : AppendCrash(e, r, k)

WalNext ==
    \/ Open
    \/ \E e \in Event, r \in Request \cup {NoRequest} : AppendStep(e, r)
    \/ \E r \in Request : ReserveRequest(r) \/ DropReservation(r)
    \/ NextPending
    \/ \E c \in claims : Acknowledge(c) \/ AcknowledgeFails(c) \/ AcknowledgeCrash(c)
    \/ Crash

WalSpec == WalInit /\ [][WalNext]_walVars

-----------------------------------------------------------------------------
(* Properties.                                                             *)

\* Every variable has its type.
TypeOK ==
    /\ DOMAIN disk \subseteq Nat
    /\ \A s \in DOMAIN disk : disk[s] \in Seq(Byte)
    /\ ckpt \in Checkpoint
    /\ \A doc \in quar : doc.segment \in Nat /\ doc.offset \in Nat
    /\ up \in BOOLEAN
    /\ cur \in Position
    /\ total \in Nat
    /\ written \in Nat
    /\ reserved \in Int
    /\ resv \in [Request -> Reservation]
    /\ claims \subseteq Claim
    /\ overcounted \in BOOLEAN
    /\ log \subseteq LogRecord
    /\ torn \subseteq Nat
    /\ tears \in 0 .. MaxTears
    /\ crashes \in 0 .. MaxCrashes

Behind(rec, c) == Precedes(rec.segment, rec.pos, c.segment, c.offset)

\* The bytes of a logged record, wherever the record believed it was.
Intact(rec) ==
    /\ rec.segment \in DOMAIN disk
    /\ rec.pos + Size[rec.id] <= Len(disk[rec.segment])
    /\ \A i \in 1 .. Size[rec.id] :
          LET b == disk[rec.segment][rec.pos + i]
          IN  b.id = rec.id /\ (b.nl <=> i = Size[rec.id])

\* A record that append fsynced stays on disk, byte for byte, until the
\* checkpoint has passed it: neither a rollback, nor a compaction (finished
\* or interrupted), nor a crash, nor a late acknowledgement of another
\* reader removes it earlier.  Holds with torn writes too.
DurableUntilAcknowledged ==
    \A rec \in log : ~Behind(rec, ckpt) => Intact(rec)

\* The frontier passes a record only when a reader of this process was handed
\* the item the record lies in (in an untorn segment, the record itself):
\* whatever order readers' acknowledgements, failed compactions, rotations and
\* crashes come in, none of them makes next_pending step over a record or an
\* acknowledgement reach further than what was read.
PassedOnlyWhenRead ==
    [][\A rec \in log : ~Behind(rec, ckpt) /\ Behind(rec, ckpt') =>
          \E c \in claims :
             /\ c.segment = rec.segment
             /\ c.offset <= rec.pos /\ rec.pos < c.next
             /\ rec.segment \notin torn => c.offset = rec.pos]_walVars

\* The bytes that reservations v still promise to their requests.
Promised(v) == Cardinality(UNION {{r} \X (1 .. v[r].remaining) : r \in Request})

\* reserved_bytes is what the live reservations still hold: every terminal
\* path gives back exactly what it did not use.  As long as no partial record
\* was left uncounted, the writer's count never falls below the bytes on disk
\* and with what is promised stays within total_bytes, failed compactions
\* included; and it is exact except between a compaction that failed after
\* removing files and the next recount.
CapacityRespected ==
    /\ reserved = Promised(resv)
    /\ tears = 0 =>
          /\ Bytes(disk) + reserved <= TotalBytes
          /\ up => Bytes(disk) <= total /\ total + reserved <= TotalBytes
          /\ up /\ ~overcounted => total = Bytes(disk)

\* A segment no torn write touched reads back as the records appended to
\* it: it is no longer than segment_bytes, the frontier there is a boundary,
\* and what it points at is a logged record, never something to quarantine.
UntornSegmentsReadBack ==
    /\ \A s \in DOMAIN disk \ torn : Len(disk[s]) <= SegmentBytes
    /\ ckpt.segment \notin torn => CheckpointValid(disk, ckpt)
    /\ HasPending(disk, ckpt) /\ Pending(disk, ckpt).segment \notin torn =>
          LET item == Pending(disk, ckpt)
          IN  /\ item.record
              /\ \E rec \in log :
                    /\ rec.segment = item.segment
                    /\ rec.pos = item.offset
                    /\ rec.id = disk[item.segment][item.offset + 1].id

=============================================================================
