------------------------ MODULE EventDelivery_proofs ------------------------
(***************************************************************************)
(* Theorems about the write-ahead log and about delivery from it, for every*)
(* set of events, every encoding size and limit, and every set of answers  *)
(* of the API.                                                             *)
(*                                                                         *)
(* Part one, the log.  TypeOK alone is not inductive: what recover_position*)
(* and the recounts compute is a number only when finitely many bytes are  *)
(* on disk.  TypeInv adds that some number bounds the segment numbers and  *)
(* the file lengths.  CapacityInv counts promised bytes reservation by     *)
(* reservation, and knows what the writer's total says of the segments as  *)
(* long as nothing was torn.  ReadBackInv says where the records of an     *)
(* untorn segment lie: each begins where another ends or where the file    *)
(* begins.                                                                 *)
(*                                                                         *)
(* Part two, delivery.  ControlInv says who owns what: a task and a busy   *)
(* worker hold an item that next_pending handed out, one attempt or one    *)
(* task at most is waited for, and a task that quarantines nothing was     *)
(* committed by the API or carries a malformed item.  With it every step   *)
(* of delivery is a step of the log, so that what is proved of the log     *)
(* holds here too.  ClaimInv says what an item claimed earlier still       *)
(* means: nothing undelivered lies between the frontier and its end but    *)
(* the item itself.                                                        *)
(*                                                                         *)
(* SettledInv joins the two with what reading back guarantees.  AppendInv  *)
(* bounds the records of an event by the crashes so far and its entry in   *)
(* the dedup set.  QueueInv, needed for the refinement, says that while no *)
(* segment is torn every position is logged once, that whatever is in      *)
(* flight is a logged record, and that the log beyond the frontier is one  *)
(* sequence in append order.                                               *)
(***************************************************************************)
EXTENDS DeliveryAsQueue, FiniteSetTheorems, SequenceTheorems, WellFoundedInduction, TLAPS

\* The files of a disk: typed, and bounded in number and in length.
IsDisk(d) ==
    \E n \in Nat :
        /\ DOMAIN d \subseteq 0 .. n
        /\ \A s \in DOMAIN d : d[s] \in Seq(Byte) /\ Len(d[s]) <= n

TypeInv == TypeOK /\ IsDisk(disk)

-----------------------------------------------------------------------------
(* Numbers.                                                                *)

\* Min, which next_pending and read_until stand on, is a least element.
LEMMA MinNat ==
    ASSUME NEW S, S \subseteq Nat, S # {}
    PROVE  Min(S) \in S /\ \A y \in S : Min(S) <= y
<1>. DEFINE R == {ss \in Nat \X Nat : ss[1] < ss[2]}
<1>1. IsWellFoundedOn(R, Nat)
    BY NatLessThanWellFounded DEF OpToRel
<1>2. \E x \in S : \A y \in S : ~ (<<y, x>> \in R)
    BY <1>1, WFMin, Zenon
<1>3. \A x, y \in Nat : ~ (<<y, x>> \in R) => x =< y
    OBVIOUS
<1>4. \E x \in S : \A y \in S : x =< y
    BY <1>2, <1>3, Zenon
<1>. QED  BY <1>4, Zenon DEF Min

\* Max, which recover_position takes of the segment numbers.
LEMMA MaxNat ==
    ASSUME NEW S, S # {}, NEW n \in Nat, S \subseteq 0 .. n
    PROVE  Max(S) \in S /\ \A y \in S : Max(S) >= y
<1>. DEFINE U == {b \in Nat : \A y \in S : b >= y}
<1>1. U \subseteq Nat /\ n \in U
    OBVIOUS
<1>2. Min(U) \in U /\ \A b \in U : Min(U) <= b
    BY <1>1, MinNat, Zenon
<1>3. \E x \in S : x = Min(U)
    <2>1. CASE Min(U) = 0
        <3>1. PICK y : y \in S
            OBVIOUS
        <3>2. Min(U) >= y /\ y \in 0 .. n
            BY <1>2, <3>1
        <3>3. y = Min(U)
            BY <2>1, <3>2
        <3>. QED  BY <3>1, <3>3, Zenon
    <2>2. CASE Min(U) # 0
        <3>1. Min(U) - 1 \in Nat /\ Min(U) - 1 \notin U
            BY <1>2, <2>2
        <3>2. PICK y : y \in S /\ ~(Min(U) - 1 >= y)
            BY <3>1
        <3>3. Min(U) >= y /\ y \in 0 .. n
            BY <1>2, <3>2
        <3>4. y = Min(U)
            BY <1>2, <3>2, <3>3
        <3>. QED  BY <3>2, <3>4, Zenon
    <2>. QED  BY <2>1, <2>2
<1>4. \E x \in S : \A y \in S : x >= y
    BY <1>2, <1>3
<1>. QED  BY <1>4, Zenon DEF Max

-----------------------------------------------------------------------------
(* Files.                                                                  *)

\* Reading a file that may be absent gives bytes.
LEMMA FileType ==
    ASSUME NEW d, IsDisk(d), NEW s
    PROVE  File(d, s) \in Seq(Byte)
BY DEF IsDisk, File

\* Writing one file keeps a disk a disk.
LEMMA PutDisk ==
    ASSUME NEW d, IsDisk(d), NEW s \in Nat, NEW f \in Seq(Byte)
    PROVE  IsDisk(Put(d, s, f))
<1>1. PICK n \in Nat : /\ DOMAIN d \subseteq 0 .. n
                       /\ \A t \in DOMAIN d : d[t] \in Seq(Byte) /\ Len(d[t]) <= n
    BY DEF IsDisk
<1>. DEFINE m == n + s + Len(f)
<1>2. Len(f) \in Nat /\ m \in Nat
    BY LenProperties
<1>3. DOMAIN Put(d, s, f) \subseteq 0 .. m
    BY <1>1, <1>2 DEF Put
<1>4. \A t \in DOMAIN d : Len(d[t]) \in Nat
    BY <1>1, LenProperties
<1>5. \A t \in DOMAIN Put(d, s, f) :
          Put(d, s, f)[t] \in Seq(Byte) /\ Len(Put(d, s, f)[t]) <= m
    BY <1>1, <1>2, <1>4 DEF Put
<1>. QED  BY <1>2, <1>3, <1>5 DEF IsDisk

\* So does removing any set of files.
LEMMA RemoveFilesDisk ==
    ASSUME NEW d, IsDisk(d), NEW S
    PROVE  IsDisk(RemoveFiles(d, S))
BY DEF IsDisk, RemoveFiles

\* The byte count of a disk is a number.
LEMMA BytesType ==
    ASSUME NEW d, IsDisk(d)
    PROVE  Bytes(d) \in Nat
<1>1. PICK n \in Nat : /\ DOMAIN d \subseteq 0 .. n
                       /\ \A t \in DOMAIN d : d[t] \in Seq(Byte) /\ Len(d[t]) <= n
    BY DEF IsDisk
<1>. DEFINE B == UNION {{s} \X (1 .. Len(d[s])) : s \in DOMAIN d}
<1>2. \A t \in DOMAIN d : Len(d[t]) \in Nat
    BY <1>1, LenProperties
<1>3. B \subseteq (0 .. n) \X (1 .. n)
    BY <1>1, <1>2
<1>4. IsFiniteSet((0 .. n) \X (1 .. n))
    <2>1. IsFiniteSet(0 .. n) /\ IsFiniteSet(1 .. n)
        BY FS_Interval
    <2>. QED  BY <2>1, FS_Product, Zenon
<1>5. IsFiniteSet(B)
    BY <1>3, <1>4, FS_Subset
<1>. QED  BY <1>5, FS_CardinalityType DEF Bytes

\* So is the number of lines.
LEMMA PhysicalRecordsType ==
    ASSUME NEW d, IsDisk(d)
    PROVE  PhysicalRecords(d) \in Nat
<1>1. PICK n \in Nat : /\ DOMAIN d \subseteq 0 .. n
                       /\ \A t \in DOMAIN d : d[t] \in Seq(Byte) /\ Len(d[t]) <= n
    BY DEF IsDisk
<1>. DEFINE B == UNION {{s} \X {i \in 1 .. Len(d[s]) : d[s][i].nl \/ i = Len(d[s])}
                        : s \in DOMAIN d}
<1>2. \A t \in DOMAIN d : Len(d[t]) \in Nat
    BY <1>1, LenProperties
<1>3. B \subseteq (0 .. n) \X (1 .. n)
    BY <1>1, <1>2
<1>4. IsFiniteSet((0 .. n) \X (1 .. n))
    <2>1. IsFiniteSet(0 .. n) /\ IsFiniteSet(1 .. n)
        BY FS_Interval
    <2>. QED  BY <2>1, FS_Product, Zenon
<1>5. IsFiniteSet(B)
    BY <1>3, <1>4, FS_Subset
<1>. QED  BY <1>5, FS_CardinalityType DEF PhysicalRecords

\* A prefix of an encoded record: its length and its bytes.
LEMMA EncodePrefix ==
    ASSUME NEW e \in Event, NEW p \in Position, NEW k \in 0 .. Size[e]
    PROVE  LET x == SubSeq(Encode(e, p), 1, k)
           IN  /\ x \in Seq(Byte)
               /\ Len(x) = k
               /\ \A i \in 1 .. k : x[i] = [id |-> e, segment |-> p.segment,
                                            offset |-> p.offset, nl |-> i = Size[e]]
<1>1. Size[e] \in Nat
    BY SizeAssumption
<1>. DEFINE b(i) == [id |-> e, segment |-> p.segment, offset |-> p.offset,
                     nl |-> i = Size[e]]
<1>2. \A i \in 1 .. k : Encode(e, p)[i] = b(i)
    BY <1>1 DEF Encode
<1>3. \A i : b(i) \in Byte
    <2>1. p.segment \in Nat /\ p.offset \in Nat
        BY DEF Position
    <2>. QED  BY <2>1, Zenon DEF Byte
<1>4. \A i \in 1 .. k : Encode(e, p)[i] \in Byte
    BY <1>2, <1>3, Zenon
<1>. HIDE DEF b
<1>5. /\ SubSeq(Encode(e, p), 1, k) \in Seq(Byte)
      /\ Len(SubSeq(Encode(e, p), 1, k)) = IF 1 <= k THEN k - 1 + 1 ELSE 0
      /\ \A i \in 1 .. k - 1 + 1 : SubSeq(Encode(e, p), 1, k)[i] = Encode(e, p)[1 + i - 1]
    <2>1. 1 \in Int /\ k \in Int
        BY <1>1
    <2>. QED  BY <2>1, <1>4, SubSeqProperties
<1>6. \A i \in 1 .. k : SubSeq(Encode(e, p), 1, k)[i] = b(i)
    BY <1>1, <1>2, <1>5
<1>7. Len(SubSeq(Encode(e, p), 1, k)) = k
    BY <1>1, <1>5
<1>. QED  BY <1>5, <1>6, <1>7, Zenon DEF b

\* The end of a line is an offset.
LEMMA LineEndType ==
    ASSUME NEW f \in Seq(Byte), NEW o \in Nat
    PROVE  LineEnd(f, o) \in Nat
<1>1. Len(f) \in Nat
    BY LenProperties
<1>. DEFINE ends == {i \in o + 1 .. Len(f) : f[i].nl}
<1>2. ends \subseteq Nat
    BY <1>1
<1>3. ends # {} => Min(ends) \in Nat
    BY <1>2, MinNat
<1>. QED  BY <1>1, <1>3 DEF LineEnd

\* What next_pending hands out is a claim.
LEMMA PendingType ==
    ASSUME NEW d, IsDisk(d), NEW c \in Checkpoint, HasPending(d, c)
    PROVE  Pending(d, c) \in Claim
<1>. DEFINE s == Min(PendingSegments(d, c))
            o == StartOffset(c, s)
<1>1. PendingSegments(d, c) \subseteq DOMAIN d /\ DOMAIN d \subseteq Nat
    BY DEF PendingSegments, IsDisk
<1>2. PendingSegments(d, c) # {}
    BY DEF HasPending
<1>3. s \in DOMAIN d /\ s \in Nat
    <2>1. PendingSegments(d, c) \subseteq Nat
        BY <1>1
    <2>2. s \in PendingSegments(d, c)
        BY <1>2, <2>1, MinNat
    <2>. QED  BY <1>1, <2>2
<1>4. o \in Nat
    BY DEF StartOffset, Checkpoint
<1>5. d[s] \in Seq(Byte)
    BY <1>3 DEF IsDisk
<1>6. LineEnd(d[s], o) \in Nat
    BY <1>4, <1>5, LineEndType
<1>7. IsRecordAt(d[s], s, o) \in BOOLEAN
    BY Zenon DEF IsRecordAt
<1>8. Pending(d, c) = [segment |-> s, offset |-> o, next |-> LineEnd(d[s], o),
                       record |-> IsRecordAt(d[s], s, o)]
    BY Zenon DEF Pending
<1>9. \A x, y, z \in Nat, b \in BOOLEAN :
          [segment |-> x, offset |-> y, next |-> z, record |-> b] \in Claim
    BY DEF Claim
<1>. HIDE DEF s, o
<1>. QED  BY <1>3, <1>4, <1>6, <1>7, <1>8, <1>9, Zenon

-----------------------------------------------------------------------------
(* Type correctness.                                                       *)

\* The files, the count and the target of an append, before it writes.
LEMMA AppendTypes ==
    ASSUME TypeInv, NEW e \in Event, NEW r
    PROVE  /\ IsDisk(DiskFor(e, r))
           /\ TotalFor(e, r) \in Nat
           /\ Target(e) \in Position
           /\ Size[e] \in Nat
           /\ TargetFile(e, r) \in Seq(Byte)
<1>1. IsDisk(Compact(disk, ckpt))
    BY RemoveFilesDisk DEF TypeInv, Compact
<1>2. IsDisk(DiskFor(e, r))
    BY <1>1 DEF DiskFor, TypeInv
<1>3. TotalFor(e, r) \in Nat
    BY <1>1, BytesType DEF TotalFor, TypeInv, TypeOK
<1>4. Target(e) \in Position
    BY DEF Target, Position, TypeInv, TypeOK
<1>5. Size[e] \in Nat
    BY SizeAssumption
<1>6. TargetFile(e, r) \in Seq(Byte)
    BY <1>2, FileType DEF TargetFile
<1>. QED  BY <1>2, <1>3, <1>4, <1>5, <1>6

\* Any part of a record may reach the disk.
LEMMA WritePrefixDisk ==
    ASSUME TypeInv, NEW e \in Event, NEW r, NEW k \in 0 .. Size[e],
           WritePrefix(e, r, k)
    PROVE  IsDisk(disk')
<1>1. SubSeq(Encode(e, Target(e)), 1, k) \in Seq(Byte)
    BY AppendTypes, EncodePrefix
<1>2. TargetFile(e, r) \o SubSeq(Encode(e, Target(e)), 1, k) \in Seq(Byte)
    BY <1>1, AppendTypes, ConcatProperties
<1>3. Target(e).segment \in Nat
    BY AppendTypes DEF Position
<1>. QED  BY <1>2, <1>3, AppendTypes, PutDisk DEF WritePrefix

\* A logged record has its type.
LEMMA LogEntryType ==
    ASSUME TypeInv, NEW e \in Event, NEW r
    PROVE  LogEntry(e, r) \in LogRecord
<1>1. Len(TargetFile(e, r)) \in Nat
    BY AppendTypes, LenProperties
<1>. QED  BY <1>1, AppendTypes DEF LogEntry, LogRecord, Position

\* What IsDisk says of the disk, in the terms of TypeOK.
LEMMA DiskType ==
    ASSUME NEW d, IsDisk(d)
    PROVE  DOMAIN d \subseteq Nat /\ \A s \in DOMAIN d : d[s] \in Seq(Byte)
BY DEF IsDisk

\* No request holds a reservation when the log is opened.
LEMMA NoReservationsType == [r \in Request |-> NoReservation] \in [Request -> Reservation]
<1>1. 0 \in Nat
    OBVIOUS
<1>2. NoReservation \in Reservation
    BY <1>1, Zenon DEF NoReservation, Reservation
<1>. QED  BY <1>2, Zenon

\* The memory of a process that has gone is typed.
LEMMA ProcessGoneTypes ==
    ASSUME TypeInv, ProcessGone
    PROVE  /\ up' \in BOOLEAN /\ cur' \in Position /\ total' \in Nat
           /\ written' \in Nat /\ reserved' \in Int
           /\ resv' \in [Request -> Reservation] /\ claims' \subseteq Claim
           /\ overcounted' \in BOOLEAN
           /\ crashes' \in 0 .. MaxCrashes
<1>1. crashes' \in 0 .. MaxCrashes
    BY BoundAssumption DEF TypeInv, TypeOK, ProcessGone
<1>2. cur' \in Position /\ total' \in Nat /\ written' \in Nat /\ reserved' \in Int
    BY DEF ProcessGone, Position
<1>. QED  BY <1>1, <1>2, NoReservationsType, Zenon DEF ProcessGone

\* A compaction that fails has removed some of the obsolete files.
LEMMA PartlyRemoved ==
    ASSUME NEW d, NEW c, NEW x \in PartlyCompacted(d, c)
    PROVE  \E S : S \subseteq Obsolete(d, c) /\ x = RemoveFiles(d, S)
<1>1. PICK k : x = RemoveFiles(d, {s \in Obsolete(d, c) : s < k})
    BY DEF PartlyCompacted
<1>2. {s \in Obsolete(d, c) : s < k} \subseteq Obsolete(d, c)
    OBVIOUS
<1>. QED  BY <1>1, <1>2, Zenon

\* An append that errs before it writes: the disk at most lost obsolete files.
Unwritten(e, r) ==
    AppendRefused(e, r) \/ AppendCompactionFails(e, r) \/ AppendNotOpened(e, r)

LEMMA UnwrittenStep ==
    ASSUME NEW e, NEW r, Unwritten(e, r)
    PROVE  /\ up /\ up' = up /\ ~Oversized(e) /\ cur' = Target(e)
           /\ ckpt' = ckpt /\ quar' = quar /\ written' = written /\ reserved' = reserved
           /\ resv' = resv /\ claims' = claims
           /\ log' = log /\ torn' = torn /\ tears' = tears /\ crashes' = crashes
           /\ \/ disk' = disk
              \/ \E S : S \subseteq Obsolete(disk, ckpt) /\ disk' = RemoveFiles(disk, S)
           /\ total' \in {total, TotalFor(e, r)}
<1>1. /\ up /\ up' = up /\ ~Oversized(e) /\ cur' = Target(e)
      /\ ckpt' = ckpt /\ quar' = quar /\ written' = written /\ reserved' = reserved
      /\ resv' = resv /\ claims' = claims
      /\ log' = log /\ torn' = torn /\ tears' = tears /\ crashes' = crashes
    BY Zenon DEF Unwritten, AppendRefused, AppendCompactionFails, AppendNotOpened, MayAppend, histVars
<1>2. total' = total \/ total' = TotalFor(e, r)
    BY Zenon DEF Unwritten, AppendRefused, AppendCompactionFails, AppendNotOpened
<1>3. disk' = disk \/ disk' = Compact(disk, ckpt) \/ disk' \in PartlyCompacted(disk, ckpt)
    BY Zenon DEF Unwritten, AppendRefused, AppendCompactionFails, AppendNotOpened, DiskFor
<1>4. \/ disk' = disk
      \/ \E S : S \subseteq Obsolete(disk, ckpt) /\ disk' = RemoveFiles(disk, S)
    BY <1>3, PartlyRemoved, Zenon DEF Compact
<1>. QED  BY <1>1, <1>2, <1>4, Zenon

\* An acknowledgement, however it ends: the frontier moves to the end of the
\* item and only obsolete files go.
Acked(c) == Acknowledge(c) \/ AcknowledgeFails(c) \/ AcknowledgeCrash(c)

LEMMA AckedStep ==
    ASSUME NEW c, Acked(c)
    PROVE  /\ up /\ MayAcknowledge(c) /\ ckpt' = AckedCheckpoint(c)
           /\ log' = log /\ torn' = torn /\ tears' = tears /\ claims' \subseteq claims
           /\ up' => up' = up /\ cur' = cur
           /\ \E S : S \subseteq Obsolete(disk, ckpt') /\ disk' = RemoveFiles(disk, S)
<1>1. /\ up /\ MayAcknowledge(c) /\ ckpt' = AckedCheckpoint(c)
      /\ log' = log /\ torn' = torn /\ tears' = tears /\ claims' \subseteq claims
      /\ up' => up' = up /\ cur' = cur
    BY Zenon DEF Acked, Acknowledge, AcknowledgeFails, AcknowledgeCrash, MayAcknowledge, histVars,
                 ProcessGone
<1>2. \E S : S \subseteq Obsolete(disk, ckpt') /\ disk' = RemoveFiles(disk, S)
    <2>1. CASE Acknowledge(c)
        BY <2>1, Zenon DEF Acknowledge, Compact
    <2>2. CASE AcknowledgeFails(c)
        BY <2>2, PartlyRemoved, Zenon DEF AcknowledgeFails
    <2>3. CASE AcknowledgeCrash(c)
        BY <2>3, Zenon DEF AcknowledgeCrash
    <2>. QED  BY <2>1, <2>2, <2>3 DEF Acked
<1>. QED  BY <1>1, <1>2

LEMMA TypeInvInit == WalInit => TypeInv
<1>. SUFFICES ASSUME WalInit PROVE TypeInv
    OBVIOUS
<1>1. IsDisk(disk)
    BY DEF WalInit, IsDisk
<1>2. ckpt \in Checkpoint /\ cur \in Position
    BY DEF WalInit, DefaultCheckpoint, Checkpoint, Position
<1>3. /\ total \in Nat /\ written \in Nat /\ reserved \in Int
      /\ tears \in 0 .. MaxTears /\ crashes \in 0 .. MaxCrashes
    BY BoundAssumption DEF WalInit
<1>4. /\ up \in BOOLEAN /\ resv \in [Request -> Reservation] /\ overcounted \in BOOLEAN
      /\ claims \subseteq Claim /\ log \subseteq LogRecord /\ torn \subseteq Nat
      /\ \A doc \in quar : doc.segment \in Nat /\ doc.offset \in Nat
    BY NoReservationsType, Zenon DEF WalInit
<1>. QED  BY <1>1, <1>2, <1>3, <1>4, DiskType, Zenon DEF TypeInv, TypeOK

\* Every step keeps the types.
LEMMA TypeInvNext == TypeInv /\ [WalNext]_walVars => TypeInv'
<1>. SUFFICES ASSUME TypeInv, [WalNext]_walVars PROVE TypeInv'
    OBVIOUS
<1>. USE DEF TypeInv
<1>0. IsDisk(disk') /\ TypeOK' => TypeInv'
    BY Zenon DEF IsDisk
<1>1. CASE Open
    <2>1. total' \in Nat /\ written' \in Nat
        BY <1>1, BytesType, PhysicalRecordsType DEF Open
    <2>2. cur' \in Position
        <3>1. CASE DOMAIN disk = {}
            BY <1>1, <3>1 DEF Open, Position
        <3>2. CASE DOMAIN disk # {}
            <4>1. Max(DOMAIN disk) \in DOMAIN disk
                BY <3>2, MaxNat DEF IsDisk
            <4>2. Max(DOMAIN disk) \in Nat /\ disk[Max(DOMAIN disk)] \in Seq(Byte)
                BY <4>1, DiskType
            <4>3. Len(disk[Max(DOMAIN disk)]) \in Nat
                BY <4>2, LenProperties
            <4>. QED  BY <1>1, <3>2, <4>2, <4>3 DEF Open, Position
        <3>. QED  BY <3>1, <3>2
    <2>3. /\ up' \in BOOLEAN /\ resv' \in [Request -> Reservation]
          /\ claims' \subseteq Claim /\ overcounted' \in BOOLEAN
        BY <1>1, NoReservationsType, Zenon DEF Open
    <2>4. reserved' \in Int
        BY <1>1 DEF Open
    <2>5. /\ disk' = disk /\ ckpt' = ckpt /\ quar' = quar /\ log' = log
          /\ torn' = torn /\ tears' = tears /\ crashes' = crashes
        BY <1>1, Zenon DEF Open, diskVars, histVars
    <2>. QED  BY <2>1, <2>2, <2>3, <2>4, <2>5, <1>0, Zenon DEF TypeOK
<1>2. ASSUME NEW e \in Event, NEW r \in Request \cup {NoRequest}, AppendOk(e, r)
      PROVE  TypeInv'
    <2>1. IsDisk(disk')
        BY <1>2, AppendTypes, WritePrefixDisk DEF AppendOk
    <2>2. cur' \in Position /\ total' \in Nat /\ written' \in Nat
        <3>1. Target(e) \in Position /\ TotalFor(e, r) \in Nat /\ Size[e] \in Nat
            BY <1>2, AppendTypes
        <3>2. /\ cur' = [Target(e) EXCEPT !.offset = @ + Size[e]]
              /\ total' = TotalFor(e, r) + Size[e] /\ written' = written + 1
            BY <1>2, Zenon DEF AppendOk
        <3>3. cur' \in Position
            BY <3>1, <3>2 DEF Position
        <3>4. written \in Nat
            BY DEF TypeOK
        <3>5. total' \in Nat /\ written' \in Nat
            BY <3>1, <3>2, <3>4
        <3>. QED  BY <3>3, <3>5
    <2>3. reserved' \in Int /\ resv' \in [Request -> Reservation]
        <3>1. CASE r = NoRequest
            BY <1>2, <3>1 DEF AppendOk, Consume, TypeOK
        <3>2. CASE r # NoRequest
            <4>1. r \in Request /\ Size[e] \in Nat /\ resv[r] \in Reservation
                BY <1>2, <3>2, AppendTypes DEF TypeOK
            <4>2. Size[e] <= resv[r].remaining
                BY <1>2, <3>2 DEF AppendOk, HasRoom
            <4>3. /\ reserved' = reserved - Size[e]
                  /\ resv' = [resv EXCEPT ![r].remaining = @ - Size[e], ![r].events = @ + 1]
                BY <1>2, <3>2 DEF AppendOk, Consume
            <4>4. [resv[r] EXCEPT !.remaining = @ - Size[e], !.events = @ + 1] \in Reservation
                <5>. DEFINE left == resv[r].remaining - Size[e]
                            used == resv[r].events + 1
                <5>1. resv[r].remaining \in Nat /\ resv[r].events \in Nat
                    BY <4>1 DEF Reservation
                <5>2. left \in Nat /\ used \in Nat
                    BY <4>1, <4>2, <5>1
                <5>. HIDE DEF left, used
                <5>3. [resv[r] EXCEPT !.remaining = left, !.events = used] \in Reservation
                    BY ONLY <4>1, <5>2 DEF Reservation
                <5>. QED  BY <5>3 DEF left, used
            <4>5. reserved' \in Int
                BY <4>1, <4>3 DEF TypeOK
            <4>6. resv \in [Request -> Reservation]
                BY DEF TypeOK
            <4>7. resv' = [resv EXCEPT ![r] =
                             [resv[r] EXCEPT !.remaining = @ - Size[e], !.events = @ + 1]]
                BY <4>3
            <4>. QED  BY <4>1, <4>4, <4>5, <4>6, <4>7
        <3>. QED  BY <3>1, <3>2
    <2>4. log' \subseteq LogRecord
        BY <1>2, LogEntryType DEF AppendOk, TypeOK
    <2>5. /\ ckpt' = ckpt /\ quar' = quar /\ up' = up /\ claims' = claims
          /\ torn' = torn /\ tears' = tears /\ crashes' = crashes
          /\ overcounted' \in BOOLEAN
        BY <1>2, Zenon DEF AppendOk, OvercountedFor
    <2>. QED  BY <2>1, <2>2, <2>3, <2>4, <2>5, <1>0, DiskType, Zenon DEF TypeOK
<1>3. ASSUME NEW e \in Event, NEW r \in Request \cup {NoRequest}, Unwritten(e, r)
      PROVE  TypeInv'
    <2>1. IsDisk(disk')
        BY <1>3, UnwrittenStep, RemoveFilesDisk
    <2>2. cur' \in Position /\ total' \in Nat
        BY <1>3, UnwrittenStep, AppendTypes DEF TypeOK
    <2>3. overcounted' \in BOOLEAN
        BY <1>3, Zenon
        DEF Unwritten, AppendRefused, AppendCompactionFails, AppendNotOpened, OvercountedFor, TypeOK
    <2>. QED  BY <1>3, <2>1, <2>2, <2>3, <1>0, UnwrittenStep, DiskType, Zenon DEF TypeOK
<1>4. ASSUME NEW e \in Event, NEW r \in Request \cup {NoRequest}, AppendRolledBack(e, r)
      PROVE  TypeInv'
    <2>1. IsDisk(disk')
        BY <1>4, AppendTypes, WritePrefixDisk DEF AppendRolledBack
    <2>2. cur' \in Position /\ total' \in Nat
        BY <1>4, AppendTypes DEF AppendRolledBack
    <2>3. /\ ckpt' = ckpt /\ quar' = quar /\ up' = up /\ written' = written
          /\ reserved' = reserved /\ resv' = resv /\ claims' = claims /\ log' = log
          /\ torn' = torn /\ tears' = tears /\ crashes' = crashes
          /\ overcounted' \in BOOLEAN
        BY <1>4, Zenon DEF AppendRolledBack, OvercountedFor, histVars
    <2>. QED  BY <2>1, <2>2, <2>3, <1>0, DiskType, Zenon DEF TypeOK
<1>5. ASSUME NEW e \in Event, NEW r \in Request \cup {NoRequest},
             NEW k \in 1 .. Size[e], AppendTorn(e, r, k)
      PROVE  TypeInv'
    <2>1. IsDisk(disk')
        BY <1>5, AppendTypes, WritePrefixDisk DEF AppendTorn
    <2>2. cur' \in Position /\ total' \in Nat
        BY <1>5, AppendTypes DEF AppendTorn
    <2>3. torn' \subseteq Nat
        BY <1>5, AppendTypes DEF AppendTorn, TypeOK, Position
    <2>4. tears' \in 0 .. MaxTears
        BY <1>5, BoundAssumption DEF AppendTorn, TypeOK
    <2>5. /\ ckpt' = ckpt /\ quar' = quar /\ up' = up /\ written' = written
          /\ reserved' = reserved /\ resv' = resv /\ claims' = claims /\ log' = log
          /\ crashes' = crashes /\ overcounted' \in BOOLEAN
        BY <1>5, Zenon DEF AppendTorn, OvercountedFor
    <2>. QED  BY <2>1, <2>2, <2>3, <2>4, <2>5, <1>0, DiskType, Zenon DEF TypeOK
<1>6. ASSUME NEW e \in Event, NEW r \in Request \cup {NoRequest},
             NEW k \in 0 .. Size[e], AppendCrash(e, r, k)
      PROVE  TypeInv'
    <2>1. IsDisk(disk')
        BY <1>6, WritePrefixDisk DEF AppendCrash
    <2>2. ProcessGone
        BY <1>6, Zenon DEF AppendCrash
    <2>3. log' \subseteq LogRecord
        BY <1>6, LogEntryType DEF AppendCrash, TypeOK
    <2>4. torn' \subseteq Nat
        <3>1. Target(e).segment \in Nat
            BY AppendTypes DEF Position
        <3>2. torn \subseteq Nat
            BY DEF TypeOK
        <3>3. torn' = torn \/ torn' = torn \cup {Target(e).segment}
            BY <1>6, Zenon DEF AppendCrash
        <3>. QED  BY ONLY <3>1, <3>2, <3>3
    <2>5. tears' \in 0 .. MaxTears
        BY <1>6, BoundAssumption DEF AppendCrash, TypeOK
    <2>6. ckpt' = ckpt /\ quar' = quar
        BY <1>6, Zenon DEF AppendCrash
    <2>. QED  BY <2>1, <2>2, <2>3, <2>4, <2>5, <2>6, <1>0, DiskType, ProcessGoneTypes,
                 Zenon DEF TypeOK
<1>7. ASSUME NEW r \in Request, ReserveRequest(r)
      PROVE  TypeInv'
    <2>1. [held |-> TRUE, remaining |-> RequestBytes, events |-> 0] \in Reservation
        BY LimitAssumption DEF Reservation
    <2>2. resv' \in [Request -> Reservation]
        BY <1>7, <2>1 DEF ReserveRequest, TypeOK
    <2>3. reserved' \in Int
        BY <1>7, LimitAssumption DEF ReserveRequest, TypeOK
    <2>4. /\ disk' = disk /\ ckpt' = ckpt /\ quar' = quar /\ up' = up /\ cur' = cur
          /\ total' = total /\ written' = written /\ claims' = claims /\ log' = log
          /\ torn' = torn /\ tears' = tears /\ crashes' = crashes
          /\ overcounted' = overcounted
        BY <1>7, Zenon DEF ReserveRequest, diskVars, histVars
    <2>. QED  BY <2>2, <2>3, <2>4, <1>0, Zenon DEF TypeOK
<1>8. ASSUME NEW r \in Request, DropReservation(r)
      PROVE  TypeInv'
    <2>1. resv' \in [Request -> Reservation]
        BY <1>8, NoReservationsType DEF DropReservation, TypeOK
    <2>2. reserved' \in Int
        BY <1>8 DEF DropReservation, TypeOK, Reservation
    <2>3. /\ disk' = disk /\ ckpt' = ckpt /\ quar' = quar /\ up' = up /\ cur' = cur
          /\ total' = total /\ written' = written /\ claims' = claims /\ log' = log
          /\ torn' = torn /\ tears' = tears /\ crashes' = crashes
          /\ overcounted' = overcounted
        BY <1>8, Zenon DEF DropReservation, diskVars, histVars
    <2>. QED  BY <2>1, <2>2, <2>3, <1>0, Zenon DEF TypeOK
<1>9. CASE NextPending
    <2>1. Pending(disk, ckpt) \in Claim
        BY <1>9, PendingType DEF NextPending, TypeOK
    <2>2. claims' \subseteq Claim
        BY <1>9, <2>1 DEF NextPending, TypeOK
    <2>3. \A doc \in quar' : doc.segment \in Nat /\ doc.offset \in Nat
        BY <1>9, <2>1
        DEF NextPending, QuarantineAfterRead, QuarantineCorrupt, Claim, TypeOK
    <2>4. /\ disk' = disk /\ ckpt' = ckpt /\ up' = up /\ cur' = cur /\ total' = total
          /\ written' = written /\ reserved' = reserved /\ resv' = resv /\ log' = log
          /\ torn' = torn /\ tears' = tears /\ crashes' = crashes
          /\ overcounted' = overcounted
        BY <1>9, Zenon DEF NextPending, histVars
    <2>. QED  BY <2>2, <2>3, <2>4, <1>0, Zenon DEF TypeOK
<1>10. ASSUME NEW c \in claims PROVE AckedCheckpoint(c) \in Checkpoint
    BY DEF TypeOK, AckedCheckpoint, Claim, Checkpoint
<1>11. ASSUME NEW c \in claims, Acknowledge(c) \/ AcknowledgeFails(c)
       PROVE  TypeInv'
    <2>1. ckpt' \in Checkpoint
        BY <1>10, <1>11 DEF Acknowledge, AcknowledgeFails
    <2>2. IsDisk(disk')
        BY <1>11, AckedStep, RemoveFilesDisk DEF Acked
    <2>3. total' \in Nat
        BY <1>11, <2>2, BytesType DEF Acknowledge, AcknowledgeFails, TypeOK
    <2>4. /\ quar' = quar /\ up' = up /\ cur' = cur /\ written' = written
          /\ reserved' = reserved /\ resv' = resv /\ claims' = claims /\ log' = log
          /\ torn' = torn /\ tears' = tears /\ crashes' = crashes
          /\ overcounted' \in BOOLEAN
        BY <1>11, Zenon DEF Acknowledge, AcknowledgeFails, histVars
    <2>. QED  BY <2>1, <2>2, <2>3, <2>4, <1>0, DiskType, Zenon DEF TypeOK
<1>12. ASSUME NEW c \in claims, AcknowledgeCrash(c)
       PROVE  TypeInv'
    <2>1. ckpt' \in Checkpoint
        BY <1>10, <1>12 DEF AcknowledgeCrash
    <2>2. IsDisk(disk')
        BY <1>12, RemoveFilesDisk DEF AcknowledgeCrash
    <2>3. ProcessGone
        BY <1>12, Zenon DEF AcknowledgeCrash
    <2>4. quar' = quar /\ log' = log /\ torn' = torn /\ tears' = tears
        BY <1>12, Zenon DEF AcknowledgeCrash
    <2>. QED  BY <2>1, <2>2, <2>3, <2>4, <1>0, DiskType, ProcessGoneTypes, Zenon
              DEF TypeOK
<1>13. CASE Crash
    <2>1. IsDisk(disk')
        BY <1>13, RemoveFilesDisk DEF Crash
    <2>2. ProcessGone
        BY <1>13, Zenon DEF Crash
    <2>3. ckpt' = ckpt /\ quar' = quar /\ log' = log /\ torn' = torn /\ tears' = tears
        BY <1>13, Zenon DEF Crash
    <2>. QED  BY <2>1, <2>2, <2>3, <1>0, DiskType, ProcessGoneTypes, Zenon DEF TypeOK
<1>14. CASE UNCHANGED walVars
    <2>1. /\ disk' = disk /\ ckpt' = ckpt /\ quar' = quar /\ up' = up /\ cur' = cur
          /\ total' = total /\ written' = written /\ reserved' = reserved
          /\ resv' = resv /\ claims' = claims /\ log' = log /\ torn' = torn
          /\ tears' = tears /\ crashes' = crashes /\ overcounted' = overcounted
        BY <1>14, Zenon DEF walVars, diskVars, memVars, histVars
    <2>. QED  BY <2>1, <1>0, Zenon DEF TypeOK
<1>. QED
    BY <1>1, <1>2, <1>3, <1>4, <1>5, <1>6, <1>7, <1>8, <1>9, <1>11, <1>12, <1>13, <1>14,
       Zenon DEF WalNext, AppendStep, Unwritten

\* Every variable of the log keeps its type, whatever is appended, reserved,
\* acknowledged, torn or lost in a crash.
THEOREM TypeCorrect == WalSpec => []TypeOK
<1>1. TypeInv => TypeOK
    BY DEF TypeInv
<1>. QED  BY <1>1, TypeInvInit, TypeInvNext, PTL DEF WalSpec

-----------------------------------------------------------------------------
(* Durability.                                                             *)

\* A disk keeps the file s when the file is still there and begins as it did.
Keeps(d, s) ==
    /\ s \in DOMAIN d
    /\ Len(disk[s]) <= Len(d[s])
    /\ \A i \in 1 .. Len(disk[s]) : d[s][i] = disk[s][i]

DurableInv == TypeInv /\ DurableUntilAcknowledged

\* A record whose file is kept stays intact.
LEMMA KeptIntact ==
    ASSUME TypeInv, NEW rec \in log, Intact(rec), Keeps(disk', rec.segment)
    PROVE  Intact(rec)'
<1>1. /\ rec.segment \in DOMAIN disk /\ disk[rec.segment] \in Seq(Byte)
      /\ rec.pos \in Nat /\ Size[rec.id] \in Nat
    BY SizeAssumption DEF TypeInv, TypeOK, Intact, LogRecord
<1>2. Len(disk[rec.segment]) \in Nat
    BY <1>1, LenProperties
<1>3. rec.pos + Size[rec.id] <= Len(disk[rec.segment])
    BY DEF Intact
<1>4. \A i \in 1 .. Size[rec.id] :
          disk'[rec.segment][rec.pos + i] = disk[rec.segment][rec.pos + i]
    <2>1. \A i \in 1 .. Size[rec.id] : rec.pos + i \in 1 .. Len(disk[rec.segment])
        BY <1>1, <1>2, <1>3
    <2>. QED  BY <2>1, Zenon DEF Keeps
<1>5. rec.segment \in DOMAIN disk'
    BY DEF Keeps
<1>6. rec.pos + Size[rec.id] <= Len(disk'[rec.segment])
    BY <1>1, <1>2, <1>3 DEF Keeps
<1>. QED  BY <1>4, <1>5, <1>6, Zenon DEF Intact

\* Removing files keeps the others.
LEMMA RemovalKeeps ==
    ASSUME TypeInv, NEW S, NEW s \in DOMAIN disk, s \notin S
    PROVE  Keeps(RemoveFiles(disk, S), s)
<1>1. Len(disk[s]) \in Nat
    BY LenProperties DEF TypeInv, TypeOK
<1>. QED  BY <1>1 DEF RemoveFiles, Keeps

\* An append, whole or not, keeps every file from the checkpoint on.
LEMMA WriteKeeps ==
    ASSUME TypeInv, NEW e \in Event, NEW r, NEW k \in 0 .. Size[e],
           WritePrefix(e, r, k),
           NEW s \in DOMAIN disk, s >= ckpt.segment
    PROVE  Keeps(disk', s)
<1>. DEFINE x == SubSeq(Encode(e, Target(e)), 1, k)
<1>1. s \in Nat /\ ckpt.segment \in Nat /\ disk[s] \in Seq(Byte)
    BY DEF TypeInv, TypeOK, Checkpoint
<1>2. Len(disk[s]) \in Nat
    BY <1>1, LenProperties
<1>3. s \in DOMAIN DiskFor(e, r) /\ DiskFor(e, r)[s] = disk[s]
    BY <1>1 DEF DiskFor, Compact, RemoveFiles, Obsolete
<1>4. x \in Seq(Byte) /\ Len(x) = k
    BY AppendTypes, EncodePrefix
<1>5. CASE s = Target(e).segment
    <2>1. TargetFile(e, r) = disk[s]
        BY <1>3, <1>5 DEF TargetFile, File
    <2>2. s \in DOMAIN disk' /\ disk'[s] = disk[s] \o x
        BY <1>3, <1>5, <2>1 DEF WritePrefix, Put
    <2>3. /\ Len(disk[s] \o x) = Len(disk[s]) + Len(x)
          /\ \A i \in 1 .. Len(disk[s]) + Len(x) : (disk[s] \o x)[i] =
                 IF i <= Len(disk[s]) THEN disk[s][i] ELSE x[i - Len(disk[s])]
        BY <1>1, <1>4, ConcatProperties
    <2>. HIDE DEF x
    <2>4. \A i \in 1 .. Len(disk[s]) : (disk[s] \o x)[i] = disk[s][i]
        BY <1>2, <1>4, <2>3
    <2>5. Len(disk[s]) <= Len(disk[s] \o x)
        BY <1>2, <1>4, <2>3
    <2>. QED  BY <2>2, <2>4, <2>5 DEF Keeps
<1>6. CASE s # Target(e).segment
    <2>1. s \in DOMAIN disk' /\ disk'[s] = disk[s]
        BY <1>3, <1>6 DEF WritePrefix, Put
    <2>. QED  BY <1>2, <2>1 DEF Keeps
<1>. QED  BY <1>5, <1>6

\* A record written whole is intact.
LEMMA NewRecordIntact ==
    ASSUME TypeInv, NEW e \in Event, NEW r, WritePrefix(e, r, Size[e]),
           NEW rec, rec = LogEntry(e, r)
    PROVE  Intact(rec)'
<1>. DEFINE x == SubSeq(Encode(e, Target(e)), 1, Size[e])
            f == TargetFile(e, r)
<1>1. rec.id = e /\ rec.segment = Target(e).segment /\ rec.pos = Len(f)
    BY DEF LogEntry
<1>2. Size[e] \in Nat /\ Size[e] \in 0 .. Size[e] /\ f \in Seq(Byte)
    BY AppendTypes
<1>3. /\ x \in Seq(Byte) /\ Len(x) = Size[e]
      /\ \A i \in 1 .. Size[e] : x[i] = [id |-> e, segment |-> Target(e).segment,
                                         offset |-> Target(e).offset, nl |-> i = Size[e]]
    BY <1>2, AppendTypes, EncodePrefix
<1>4. rec.segment \in DOMAIN disk' /\ disk'[rec.segment] = f \o x
    BY <1>1 DEF WritePrefix, Put
<1>. HIDE DEF x, f
<1>5. Len(f) \in Nat
    BY <1>2, LenProperties
<1>6. /\ Len(f \o x) = Len(f) + Len(x)
      /\ \A i \in 1 .. Len(f) + Len(x) : (f \o x)[i] =
             IF i <= Len(f) THEN f[i] ELSE x[i - Len(f)]
    <2>1. f \in Seq(Byte) /\ x \in Seq(Byte)
        BY <1>2, <1>3
    <2>. QED  BY ONLY <2>1, ConcatProperties
<1>7. \A i \in 1 .. Size[e] : (f \o x)[Len(f) + i] = x[i]
    BY <1>2, <1>3, <1>5, <1>6
<1>8. rec.pos + Size[rec.id] <= Len(disk'[rec.segment])
    BY <1>1, <1>2, <1>3, <1>4, <1>5, <1>6
<1>9. \A i \in 1 .. Size[rec.id] :
          /\ disk'[rec.segment][rec.pos + i].id = rec.id
          /\ disk'[rec.segment][rec.pos + i].nl <=> i = Size[rec.id]
    <2>. SUFFICES ASSUME NEW i \in 1 .. Size[rec.id]
                  PROVE  /\ disk'[rec.segment][rec.pos + i].id = rec.id
                         /\ disk'[rec.segment][rec.pos + i].nl <=> i = Size[rec.id]
        OBVIOUS
    <2>0. rec.id = e /\ i \in 1 .. Size[e]
        BY <1>1
    <2>1. disk'[rec.segment][rec.pos + i] = x[i]
        BY <1>1, <1>4, <1>7, <2>0
    <2>2. x[i] = [id |-> e, segment |-> Target(e).segment,
                  offset |-> Target(e).offset, nl |-> i = Size[e]]
        BY <1>3, <2>0, Zenon
    <2>3. x[i].id = e
        BY <2>2
    <2>4. x[i].nl <=> i = Size[e]
        <3>. DEFINE last == i = Size[e]
        <3>1. x[i] = [id |-> e, segment |-> Target(e).segment,
                      offset |-> Target(e).offset, nl |-> last]
            BY <2>2, Zenon
        <3>. HIDE DEF last
        <3>2. x[i].nl = last
            BY <3>1
        <3>. QED  BY <3>2, Zenon DEF last
    <2>. QED  BY <2>0, <2>1, <2>3, <2>4, Zenon
<1>. QED  BY <1>4, <1>8, <1>9, Zenon DEF Intact

\* A step that keeps the files from the new frontier on, and does not move
\* the frontier back, loses no record that is not acknowledged.
LEMMA KeptStepDurable ==
    ASSUME DurableInv, ckpt' \in Checkpoint,
           ~Precedes(ckpt'.segment, ckpt'.offset, ckpt.segment, ckpt.offset),
           \A s \in DOMAIN disk : s >= ckpt'.segment => Keeps(disk', s),
           NEW rec \in log, ~Behind(rec, ckpt')
    PROVE  Intact(rec)'
<1>1. /\ rec.segment \in Nat /\ rec.pos \in Nat
      /\ ckpt.segment \in Nat /\ ckpt.offset \in Nat
      /\ ckpt'.segment \in Nat /\ ckpt'.offset \in Nat
    BY DEF DurableInv, TypeInv, TypeOK, LogRecord, Checkpoint
<1>2. ~Behind(rec, ckpt) /\ rec.segment >= ckpt'.segment
    BY <1>1 DEF Behind, Precedes
<1>3. Intact(rec)
    BY <1>2 DEF DurableInv, DurableUntilAcknowledged
<1>4. Keeps(disk', rec.segment)
    BY <1>2, <1>3 DEF Intact
<1>. QED  BY <1>3, <1>4, KeptIntact DEF DurableInv

LEMMA DurableNext == DurableInv /\ [WalNext]_walVars => DurableUntilAcknowledged'
<1>. SUFFICES ASSUME DurableInv, [WalNext]_walVars,
                     NEW rec \in log', ~Behind(rec, ckpt')
              PROVE  Intact(rec)'
    BY DEF DurableUntilAcknowledged, Behind
<1>. USE DEF DurableInv
<1>1. ckpt' \in Checkpoint
    BY TypeInvNext DEF TypeInv, TypeOK
<1>2. ckpt' = ckpt => ~Precedes(ckpt'.segment, ckpt'.offset, ckpt.segment, ckpt.offset)
    BY <1>1 DEF Precedes, Checkpoint
<1>3. ASSUME disk' = disk, ckpt' = ckpt, log' = log PROVE Intact(rec)'
    BY <1>3, Zenon DEF DurableUntilAcknowledged, Behind, Intact
<1>4. ASSUME NEW e \in Event, NEW r, NEW k \in 0 .. Size[e], WritePrefix(e, r, k),
             ckpt' = ckpt,
             \/ log' = log
             \/ k = Size[e] /\ log' = log \cup {LogEntry(e, r)}
      PROVE  Intact(rec)'
    <2>1. CASE rec \in log
        <3>1. \A s \in DOMAIN disk : s >= ckpt'.segment => Keeps(disk', s)
            BY <1>4, WriteKeeps
        <3>. QED  BY <1>1, <1>2, <1>4, <2>1, <3>1, KeptStepDurable
    <2>2. CASE rec = LogEntry(e, r) /\ k = Size[e]
        BY <1>4, <2>2, NewRecordIntact
    <2>. QED  BY <1>4, <2>1, <2>2
<1>5. ASSUME log' = log, NEW S, disk' = RemoveFiles(disk, S), S \subseteq Obsolete(disk, ckpt'),
             ~Precedes(ckpt'.segment, ckpt'.offset, ckpt.segment, ckpt.offset)
      PROVE  Intact(rec)'
    <2>1. \A s \in DOMAIN disk : s >= ckpt'.segment => Keeps(disk', s)
        <3>. SUFFICES ASSUME NEW s \in DOMAIN disk, s >= ckpt'.segment
                      PROVE  Keeps(disk', s)
            OBVIOUS
        <3>1. s \in Nat /\ ckpt'.segment \in Nat
            BY <1>1 DEF TypeInv, TypeOK, Checkpoint
        <3>2. s \notin S
            BY <1>5, <3>1 DEF Obsolete
        <3>. QED  BY <1>5, <3>2, RemovalKeeps
    <2>. QED  BY <1>1, <1>5, <2>1, KeptStepDurable
<1>6. ASSUME NEW e \in Event, NEW r \in Request \cup {NoRequest}, AppendStep(e, r)
      PROVE  Intact(rec)'
    <2>0. Size[e] \in Nat
        BY SizeAssumption
    <2>1. CASE AppendOk(e, r)
        BY <1>4, <2>0, <2>1 DEF AppendOk
    <2>2. CASE Unwritten(e, r)
        <3>1. CASE disk' = disk
            BY <1>3, <2>2, <3>1, UnwrittenStep
        <3>2. ASSUME NEW S, S \subseteq Obsolete(disk, ckpt), disk' = RemoveFiles(disk, S)
              PROVE  Intact(rec)'
            BY <1>2, <1>5, <2>2, <3>2, UnwrittenStep
        <3>. QED  BY <2>2, <3>1, <3>2, UnwrittenStep, Zenon
    <2>3. CASE AppendRolledBack(e, r)
        BY <1>4, <2>0, <2>3 DEF AppendRolledBack, histVars
    <2>4. ASSUME NEW k \in 1 .. Size[e], AppendTorn(e, r, k) PROVE Intact(rec)'
        BY <1>4, <2>0, <2>4 DEF AppendTorn
    <2>5. ASSUME NEW k \in 0 .. Size[e], AppendCrash(e, r, k) PROVE Intact(rec)'
        BY <1>4, <2>0, <2>5 DEF AppendCrash
    <2>. QED  BY <1>6, <2>1, <2>2, <2>3, <2>4, <2>5, Zenon DEF AppendStep, Unwritten
<1>7. CASE Open \/ NextPending \/ \E r \in Request : ReserveRequest(r) \/ DropReservation(r)
    BY <1>3, <1>7, Zenon
    DEF Open, NextPending, ReserveRequest, DropReservation, diskVars, histVars
<1>8. ASSUME NEW c \in claims, Acked(c)
      PROVE  Intact(rec)'
    <2>1. ~Precedes(ckpt'.segment, ckpt'.offset, ckpt.segment, ckpt.offset)
        <3>1. MayAcknowledge(c) /\ ckpt' = AckedCheckpoint(c)
            BY <1>8, AckedStep, Zenon
        <3>2. ckpt'.segment = c.segment /\ ckpt'.offset = c.next
            BY <3>1 DEF AckedCheckpoint
        <3>. QED  BY <3>1, <3>2 DEF MayAcknowledge
    <2>. QED  BY <1>5, <1>8, <2>1, AckedStep
<1>9. CASE Crash
    <2>1. ckpt' = ckpt /\ log' = log
        BY <1>9, Zenon DEF Crash
    <2>2. CASE disk' = disk
        BY <1>3, <2>1, <2>2
    <2>3. CASE \E S \in SUBSET Obsolete(disk, ckpt) : disk' = RemoveFiles(disk, S)
        BY <1>2, <1>5, <2>1, <2>3
    <2>. QED  BY <1>9, <2>2, <2>3, Zenon DEF Crash
<1>10. CASE UNCHANGED walVars
    BY <1>3, <1>10, Zenon DEF walVars, diskVars, histVars
<1>. QED  BY <1>6, <1>7, <1>8, <1>9, <1>10, Zenon DEF WalNext, Acked

\* A record that append made durable stays on disk until the checkpoint has
\* passed it, through rotations, compactions, failed writes, late
\* acknowledgements, crashes and restarts.
THEOREM Durability == WalSpec => []DurableUntilAcknowledged
<1>1. WalInit => DurableInv
    BY TypeInvInit DEF DurableInv, DurableUntilAcknowledged, WalInit
<1>2. DurableInv /\ [WalNext]_walVars => DurableInv'
    BY TypeInvNext, DurableNext DEF DurableInv
<1>3. DurableInv => DurableUntilAcknowledged
    BY DEF DurableInv
<1>. QED  BY <1>1, <1>2, <1>3, PTL DEF WalSpec

-----------------------------------------------------------------------------
(* Counting bytes.  What is on disk and what is promised are both counted  *)
(* as the cells of rows of given lengths.                                  *)

Row(s, n) == {s} \X (1 .. n)
Cells(S, n) == UNION {Row(s, n[s]) : s \in S}

LEMMA RowCounted ==
    ASSUME NEW s, NEW n \in Nat
    PROVE  IsFiniteSet(Row(s, n)) /\ Cardinality(Row(s, n)) = n
<1>1. IsFiniteSet({s}) /\ Cardinality({s}) = 1
    BY FS_Singleton
<1>2. IsFiniteSet(1 .. n) /\ Cardinality(1 .. n) = n
    BY FS_Interval
<1>3. IsFiniteSet(Row(s, n)) /\ Cardinality(Row(s, n)) = Cardinality({s}) * Cardinality(1 .. n)
    BY <1>1, <1>2, FS_Product, Zenon DEF Row
<1>. QED  BY <1>1, <1>2, <1>3

LEMMA CellsFinite ==
    ASSUME NEW S, IsFiniteSet(S), NEW n, \A s \in S : n[s] \in Nat
    PROVE  IsFiniteSet(Cells(S, n)) /\ Cardinality(Cells(S, n)) \in Nat
<1>. DEFINE rows == {Row(s, n[s]) : s \in S}
            f == [s \in S |-> Row(s, n[s])]
<1>1. IsFiniteSet(rows)
    <2>1. f \in Surjection(S, rows)
        BY DEF Surjection
    <2>. QED  BY <2>1, FS_Surjection
<1>2. \A R \in rows : IsFiniteSet(R)
    BY RowCounted
<1>3. IsFiniteSet(UNION rows)
    BY <1>1, <1>2, FS_UNION
<1>. QED  BY <1>3, FS_CardinalityType DEF Cells

\* One row more.
LEMMA CellsSplit ==
    ASSUME NEW S, IsFiniteSet(S), NEW n, NEW x, x \notin S, \A s \in S \cup {x} : n[s] \in Nat
    PROVE  Cardinality(Cells(S \cup {x}, n)) = Cardinality(Cells(S, n)) + n[x]
<1>1. Cells(S \cup {x}, n) = Cells(S, n) \cup Row(x, n[x])
    BY Zenon DEF Cells
<1>2. Cells(S, n) \cap Row(x, n[x]) = {}
    BY DEF Cells, Row
<1>3. IsFiniteSet(Cells(S, n)) /\ Cardinality(Cells(S, n)) \in Nat
    BY CellsFinite
<1>4. IsFiniteSet(Row(x, n[x])) /\ Cardinality(Row(x, n[x])) = n[x] /\ n[x] \in Nat
    BY RowCounted
<1>5. Cardinality(Cells(S, n) \cup Row(x, n[x])) =
          Cardinality(Cells(S, n)) + Cardinality(Row(x, n[x]))
              - Cardinality(Cells(S, n) \cap Row(x, n[x]))
    BY <1>3, <1>4, FS_Union
<1>6. Cardinality(Cells(S, n) \cap Row(x, n[x])) = 0
    BY <1>2, FS_EmptySet
<1>7. Cardinality(Cells(S, n) \cup Row(x, n[x])) = Cardinality(Cells(S, n)) + n[x]
    BY <1>3, <1>4, <1>5, <1>6
<1>. QED  BY <1>1, <1>7, Zenon

LEMMA CellsAgree ==
    ASSUME NEW S, NEW n, NEW m, \A s \in S : n[s] = m[s]
    PROVE  Cells(S, n) = Cells(S, m)
BY Zenon DEF Cells

\* One row gets another length, or is new.
LEMMA CellsUpdate ==
    ASSUME NEW S, IsFiniteSet(S), NEW n, NEW m, NEW x,
           \A s \in S : n[s] \in Nat, m[x] \in Nat,
           \A s \in S \ {x} : m[s] = n[s]
    PROVE  Cardinality(Cells(S \cup {x}, m)) =
               Cardinality(Cells(S, n)) + m[x] - (IF x \in S THEN n[x] ELSE 0)
<1>. DEFINE T == S \ {x}
<1>1. IsFiniteSet(T) /\ x \notin T /\ S \cup {x} = T \cup {x}
    BY FS_Subset
<1>2. \A s \in T \cup {x} : m[s] \in Nat
    OBVIOUS
<1>3. Cardinality(Cells(S \cup {x}, m)) = Cardinality(Cells(T, m)) + m[x]
    <2>1. Cardinality(Cells(T \cup {x}, m)) = Cardinality(Cells(T, m)) + m[x]
        BY <1>1, <1>2, CellsSplit
    <2>. QED  BY <1>1, <2>1, Zenon
<1>4. Cells(T, m) = Cells(T, n)
    BY CellsAgree
<1>5. Cardinality(Cells(T, n)) \in Nat
    BY <1>1, CellsFinite
<1>6. CASE x \in S
    <2>1. S = T \cup {x}
        BY <1>6
    <2>2. Cardinality(Cells(S, n)) = Cardinality(Cells(T, n)) + n[x]
        BY <1>1, <2>1, CellsSplit
    <2>. HIDE DEF T
    <2>3. Cardinality(Cells(S \cup {x}, m)) = Cardinality(Cells(T, n)) + m[x]
        BY <1>3, <1>4, Zenon
    <2>4. n[x] \in Nat
        BY <1>6
    <2>. QED  BY <1>5, <1>6, <2>2, <2>3, <2>4
<1>7. CASE x \notin S
    <2>1. S = T
        BY <1>7
    <2>. HIDE DEF T
    <2>2. Cardinality(Cells(S \cup {x}, m)) = Cardinality(Cells(S, n)) + m[x]
        BY <1>3, <1>4, <2>1, Zenon
    <2>3. Cardinality(Cells(S, n)) \in Nat
        BY <1>5, <2>1, Zenon
    <2>. QED  BY <1>7, <2>2, <2>3
<1>. QED  BY <1>6, <1>7

\* Fewer rows.
LEMMA CellsFewer ==
    ASSUME NEW S, IsFiniteSet(S), NEW T, T \subseteq S, NEW n, NEW m,
           \A s \in S : n[s] \in Nat, \A s \in T : m[s] = n[s]
    PROVE  Cardinality(Cells(T, m)) <= Cardinality(Cells(S, n))
<1>1. Cells(T, m) = Cells(T, n)
    BY CellsAgree
<1>2. Cells(T, n) \subseteq Cells(S, n)
    BY Zenon DEF Cells
<1>3. IsFiniteSet(Cells(S, n))
    BY CellsFinite
<1>. QED  BY <1>1, <1>2, <1>3, FS_Subset

Lengths(d) == [s \in DOMAIN d |-> Len(d[s])]

LEMMA BytesAreCells ==
    ASSUME NEW d, IsDisk(d)
    PROVE  /\ Bytes(d) = Cardinality(Cells(DOMAIN d, Lengths(d)))
           /\ IsFiniteSet(DOMAIN d) /\ DOMAIN d \subseteq Nat
           /\ \A s \in DOMAIN d : Lengths(d)[s] = Len(d[s]) /\ Lengths(d)[s] \in Nat
<1>1. PICK n \in Nat : /\ DOMAIN d \subseteq 0 .. n
                       /\ \A t \in DOMAIN d : d[t] \in Seq(Byte) /\ Len(d[t]) <= n
    BY DEF IsDisk
<1>2. IsFiniteSet(0 .. n)
    BY FS_Interval
<1>3. IsFiniteSet(DOMAIN d) /\ DOMAIN d \subseteq Nat
    BY <1>1, <1>2, FS_Subset
<1>4. \A s \in DOMAIN d : Lengths(d)[s] = Len(d[s])
    BY DEF Lengths
<1>5. \A s \in DOMAIN d : Len(d[s]) \in Nat
    BY <1>1, LenProperties
<1>6. Cells(DOMAIN d, Lengths(d)) = UNION {{s} \X (1 .. Len(d[s])) : s \in DOMAIN d}
    BY <1>4, Zenon DEF Cells, Row
<1>. QED  BY <1>3, <1>4, <1>5, <1>6, Zenon DEF Bytes

\* Writing a file changes the count by what the file grows.
LEMMA BytesPut ==
    ASSUME NEW d, IsDisk(d), NEW s \in Nat, NEW f \in Seq(Byte)
    PROVE  Bytes(Put(d, s, f)) = Bytes(d) + Len(f) - Len(File(d, s))
<1>. DEFINE p == Put(d, s, f)
            S == DOMAIN d
<1>1. IsDisk(p)
    BY PutDisk
<1>2. DOMAIN p = S \cup {s} /\ p[s] = f /\ \A t \in S \ {s} : p[t] = d[t]
    BY DEF Put
<1>3. /\ Bytes(d) = Cardinality(Cells(S, Lengths(d))) /\ IsFiniteSet(S)
      /\ \A t \in S : Lengths(d)[t] = Len(d[t]) /\ Lengths(d)[t] \in Nat
    BY BytesAreCells
<1>4. /\ Bytes(p) = Cardinality(Cells(DOMAIN p, Lengths(p)))
      /\ \A t \in DOMAIN p : Lengths(p)[t] = Len(p[t]) /\ Lengths(p)[t] \in Nat
    BY <1>1, BytesAreCells
<1>. HIDE DEF p
<1>5. \A t \in S \ {s} : Lengths(p)[t] = Lengths(d)[t]
    BY <1>2, <1>3, <1>4
<1>6. Lengths(p)[s] = Len(f) /\ Lengths(p)[s] \in Nat
    BY <1>2, <1>4
<1>7. Cardinality(Cells(S \cup {s}, Lengths(p))) =
          Cardinality(Cells(S, Lengths(d))) + Lengths(p)[s]
              - (IF s \in S THEN Lengths(d)[s] ELSE 0)
    BY <1>3, <1>5, <1>6, CellsUpdate
<1>8. (IF s \in S THEN Lengths(d)[s] ELSE 0) = Len(File(d, s))
    BY <1>3 DEF File
<1>9. Bytes(p) = Cardinality(Cells(S \cup {s}, Lengths(p)))
    BY <1>2, <1>4, Zenon
<1>. QED  BY <1>3, <1>6, <1>7, <1>8, <1>9 DEF p

LEMMA BytesRemoved ==
    ASSUME NEW d, IsDisk(d), NEW S
    PROVE  Bytes(RemoveFiles(d, S)) <= Bytes(d)
<1>. DEFINE p == RemoveFiles(d, S)
<1>1. IsDisk(p)
    BY RemoveFilesDisk
<1>2. DOMAIN p \subseteq DOMAIN d /\ \A t \in DOMAIN p : p[t] = d[t]
    BY DEF RemoveFiles
<1>. HIDE DEF p
<1>3. \A t \in DOMAIN p : Lengths(p)[t] = Lengths(d)[t]
    BY <1>1, <1>2, BytesAreCells
<1>4. Cardinality(Cells(DOMAIN p, Lengths(p))) <= Cardinality(Cells(DOMAIN d, Lengths(d)))
    BY <1>2, <1>3, BytesAreCells, CellsFewer
<1>. QED  BY <1>1, <1>4, BytesAreCells DEF p

\* k bytes of a record are on disk: the count has grown by k.
LEMMA BytesWritten ==
    ASSUME TypeInv, NEW e \in Event, NEW r, NEW k \in 0 .. Size[e], WritePrefix(e, r, k)
    PROVE  Bytes(disk') = Bytes(DiskFor(e, r)) + k
<1>. DEFINE x == SubSeq(Encode(e, Target(e)), 1, k)
            f == TargetFile(e, r)
<1>1. x \in Seq(Byte) /\ Len(x) = k
    BY AppendTypes, EncodePrefix
<1>2. f \in Seq(Byte) /\ IsDisk(DiskFor(e, r)) /\ Target(e).segment \in Nat
    BY AppendTypes DEF Position
<1>3. disk' = Put(DiskFor(e, r), Target(e).segment, f \o x)
    BY DEF WritePrefix
<1>4. f = File(DiskFor(e, r), Target(e).segment)
    BY DEF TargetFile
<1>. HIDE DEF f, x
<1>5. f \o x \in Seq(Byte) /\ Len(f \o x) = Len(f) + Len(x)
    BY <1>1, <1>2, ConcatProperties
<1>6. Bytes(disk') = Bytes(DiskFor(e, r)) + Len(f \o x) - Len(f)
    BY <1>2, <1>3, <1>4, <1>5, BytesPut
<1>7. Len(f) \in Nat /\ Bytes(DiskFor(e, r)) \in Nat /\ k \in Nat
    BY <1>2, LenProperties, BytesType, AppendTypes
<1>. QED  BY <1>1, <1>5, <1>6, <1>7

LEMMA PromisedNat ==
    ASSUME NEW v \in [Request -> Reservation]
    PROVE  Promised(v) \in Nat
<1>. DEFINE n == [q \in Request |-> v[q].remaining]
<1>1. \A q \in Request : n[q] \in Nat /\ n[q] = v[q].remaining
    BY DEF Reservation
<1>. HIDE DEF n
<1>2. Promised(v) = Cardinality(Cells(Request, n))
    BY <1>1, Zenon DEF Promised, Cells, Row
<1>. QED  BY <1>1, <1>2, RequestAssumption, CellsFinite

\* What is promised, when one reservation changes.
LEMMA PromisedMoves ==
    ASSUME NEW v \in [Request -> Reservation], NEW w \in [Request -> Reservation],
           NEW r \in Request, \A q \in Request \ {r} : w[q] = v[q]
    PROVE  /\ Promised(v) \in Nat
           /\ Promised(w) = Promised(v) + w[r].remaining - v[r].remaining
           /\ v[r].remaining <= Promised(v)
<1>. DEFINE n == [q \in Request |-> v[q].remaining]
            m == [q \in Request |-> w[q].remaining]
<1>1. \A q \in Request : n[q] \in Nat /\ m[q] \in Nat
    BY DEF Reservation
<1>2. \A q \in Request : n[q] = v[q].remaining /\ m[q] = w[q].remaining
    OBVIOUS
<1>. HIDE DEF n, m
<1>3. Promised(v) = Cardinality(Cells(Request, n)) /\ Promised(w) = Cardinality(Cells(Request, m))
    BY <1>2, Zenon DEF Promised, Cells, Row
<1>4. \A q \in Request \ {r} : m[q] = n[q]
    BY <1>2
<1>5. Request \cup {r} = Request /\ IsFiniteSet(Request)
    BY RequestAssumption
<1>6. Cardinality(Cells(Request \cup {r}, m)) =
          Cardinality(Cells(Request, n)) + m[r] - (IF r \in Request THEN n[r] ELSE 0)
    BY <1>1, <1>4, <1>5, CellsUpdate
<1>7. Cardinality(Cells(Request, n)) \in Nat
    BY <1>1, <1>5, CellsFinite
<1>8. n[r] <= Cardinality(Cells(Request, n))
    <2>1. Row(r, n[r]) \subseteq Cells(Request, n)
        BY Zenon DEF Cells
    <2>2. IsFiniteSet(Cells(Request, n))
        BY <1>1, <1>5, CellsFinite
    <2>3. Cardinality(Row(r, n[r])) = n[r]
        BY <1>1, RowCounted
    <2>4. Cardinality(Row(r, n[r])) <= Cardinality(Cells(Request, n))
        BY <2>1, <2>2, FS_Subset
    <2>. QED  BY <2>3, <2>4
<1>9. Cardinality(Cells(Request, m)) = Cardinality(Cells(Request, n)) + m[r] - n[r]
    BY <1>5, <1>6
<1>. QED  BY <1>2, <1>3, <1>7, <1>8, <1>9

LEMMA NothingPromised == Promised([r \in Request |-> NoReservation]) = 0
<1>1. \A r \in Request : [q \in Request |-> NoReservation][r].remaining = 0
    BY DEF NoReservation
<1>2. UNION {{r} \X (1 .. [q \in Request |-> NoReservation][r].remaining) : r \in Request} = {}
    BY <1>1
<1>. QED  BY <1>2, FS_EmptySet DEF Promised

-----------------------------------------------------------------------------
(* Capacity.                                                               *)

\* What the count t of a writer (up when u, overcounted when o) must satisfy
\* when b bytes are on disk and v bytes are promised.
Counts(b, t, v, u, o) ==
    /\ b + v <= TotalBytes
    /\ u => b <= t /\ t + v <= TotalBytes
    /\ u /\ ~o => t = b

Fits == tears = 0 => Counts(Bytes(disk), total, reserved, up, overcounted)

\* A reservation that is not held promises nothing.
CapacityInv ==
    /\ TypeInv
    /\ CapacityRespected
    /\ \A r \in Request : ~resv[r].held => resv[r].remaining = 0

LEMMA CapacityParts == CapacityRespected <=> reserved = Promised(resv) /\ Fits
BY Zenon DEF CapacityRespected, Fits, Counts

LEMMA CapacityPartsNext == CapacityRespected' <=> reserved' = Promised(resv') /\ Fits'
BY Zenon DEF CapacityRespected, Fits, Counts, Promised

\* What the log holds and promises fits, once no reservation is left.
LEMMA CapacityGone ==
    ASSUME TypeInv', resv' = [r \in Request |-> NoReservation], reserved' = 0,
           tears' = 0 => Bytes(disk') <= TotalBytes /\ (up' => total' = Bytes(disk'))
    PROVE  CapacityInv'
<1>1. reserved' = Promised(resv')
    BY NothingPromised
<1>2. \A r \in Request : resv'[r].remaining = 0
    BY DEF NoReservation
<1>3. Bytes(disk') \in Nat
    BY BytesType DEF TypeInv
<1>4. ASSUME tears' = 0 PROVE Counts(Bytes(disk'), total', reserved', up', overcounted')
    <2>1. Bytes(disk') + reserved' <= TotalBytes
        BY <1>3, <1>4
    <2>2. ASSUME up' PROVE total' = Bytes(disk') /\ Bytes(disk') <= total' /\ total' + reserved' <= TotalBytes
        BY <1>3, <1>4, <2>2
    <2>. QED  BY <2>1, <2>2, Zenon DEF Counts
<1>5. CapacityRespected'
    BY <1>1, <1>4, CapacityPartsNext, Zenon DEF Fits
<1>. QED  BY <1>2, <1>5 DEF CapacityInv

\* The same while reservations stay as they are.
LEMMA CapacityStays ==
    ASSUME CapacityInv, TypeInv', resv' = resv, reserved' = reserved,
           tears' = 0 => Counts(Bytes(disk'), total', reserved, up', overcounted')
    PROVE  CapacityInv'
<1>1. reserved' = Promised(resv')
    BY DEF CapacityInv, CapacityRespected
<1>2. CapacityRespected'
    BY <1>1, CapacityPartsNext, Zenon DEF Fits
<1>. QED  BY <1>2 DEF CapacityInv

\* The count of a process that goes on, from the numbers alone.
LEMMA Counted ==
    ASSUME NEW b, NEW t, NEW v, NEW u, NEW o, b + v <= TotalBytes, b <= t, t + v <= TotalBytes,
           ~o => t = b
    PROVE  Counts(b, t, v, u, o)
BY Zenon DEF Counts

\* The numbers an append decides by.
LEMMA AppendRoom ==
    ASSUME CapacityInv, NEW e \in Event, NEW r \in Request \cup {NoRequest}, tears = 0, up
    PROVE  /\ Bytes(DiskFor(e, r)) \in Nat /\ TotalFor(e, r) \in Nat /\ reserved \in Nat
           /\ Bytes(DiskFor(e, r)) <= TotalFor(e, r) /\ TotalFor(e, r) <= total
           /\ ~OvercountedFor(e, r) => TotalFor(e, r) = Bytes(DiskFor(e, r))
           /\ total \in Nat /\ total + reserved <= TotalBytes
           /\ HasRoom(e, r) /\ r = NoRequest =>
                 TotalFor(e, r) + Size[e] + reserved <= TotalBytes
           /\ HasRoom(e, r) /\ r # NoRequest =>
                 /\ r \in Request /\ Size[e] <= resv[r].remaining
                 /\ resv[r].remaining <= reserved
<1>1. /\ Bytes(disk) <= total /\ total + reserved <= TotalBytes /\ reserved = Promised(resv)
      /\ ~overcounted => total = Bytes(disk)
    BY Zenon DEF CapacityInv, CapacityRespected
<1>2. TypeInv /\ IsDisk(disk) /\ resv \in [Request -> Reservation] /\ total \in Nat
    BY DEF CapacityInv, TypeInv, TypeOK
<1>3. Bytes(DiskFor(e, r)) \in Nat /\ Bytes(disk) \in Nat
    BY <1>2, AppendTypes, BytesType
<1>4. Bytes(DiskFor(e, r)) <= Bytes(disk)
    BY <1>2, <1>3, BytesRemoved DEF DiskFor, Compact
<1>5. /\ TotalFor(e, r) \in Nat
      /\ Bytes(DiskFor(e, r)) <= TotalFor(e, r) /\ TotalFor(e, r) <= total
      /\ ~OvercountedFor(e, r) => TotalFor(e, r) = Bytes(DiskFor(e, r))
    <2>1. CASE NeedsCompaction(e, r)
        <3>1. TotalFor(e, r) = Bytes(DiskFor(e, r))
            BY <2>1, Zenon DEF TotalFor, DiskFor
        <3>. QED  BY <1>1, <1>2, <1>3, <1>4, <3>1
    <2>2. CASE ~NeedsCompaction(e, r)
        <3>1. TotalFor(e, r) = total /\ DiskFor(e, r) = disk
            BY <2>2, Zenon DEF TotalFor, DiskFor
        <3>2. ~OvercountedFor(e, r) => ~overcounted
            BY <2>2, Zenon DEF OvercountedFor
        <3>3. ~OvercountedFor(e, r) => TotalFor(e, r) = Bytes(DiskFor(e, r))
            BY <1>1, <3>1, <3>2, Zenon
        <3>. QED  BY <1>1, <1>2, <1>3, <3>1, <3>3
    <2>. QED  BY <2>1, <2>2
<1>6. reserved \in Nat
    BY <1>1, <1>2, PromisedNat
<1>7. Size[e] \in Nat /\ TotalBytes \in Nat
    BY SizeAssumption, LimitAssumption
<1>8. ASSUME HasRoom(e, r), r = NoRequest
      PROVE  TotalFor(e, r) + Size[e] + reserved <= TotalBytes
    <2>1. CASE NeedsCompaction(e, r)
        BY <1>5, <1>6, <1>7, <1>8, <2>1 DEF HasRoom
    <2>2. CASE ~NeedsCompaction(e, r)
        <3>1. total + reserved + Size[e] <= TotalBytes
            BY <1>1, <1>2, <1>6, <1>7, <1>8, <2>2 DEF NeedsCompaction
        <3>. QED  BY <1>2, <1>5, <1>6, <1>7, <3>1
    <2>. QED  BY <2>1, <2>2
<1>9. ASSUME HasRoom(e, r), r # NoRequest
      PROVE  /\ r \in Request /\ Size[e] <= resv[r].remaining
             /\ resv[r].remaining <= reserved
    <2>1. r \in Request /\ Size[e] <= resv[r].remaining
        BY <1>9 DEF HasRoom
    <2>2. resv[r].remaining <= Promised(resv)
        BY <1>2, <2>1, PromisedMoves
    <2>. QED  BY <1>1, <2>1, <2>2
<1>. QED  BY <1>1, <1>2, <1>3, <1>5, <1>6, <1>8, <1>9

LEMMA AppendOkCapacity ==
    ASSUME CapacityInv, TypeInv', NEW e \in Event, NEW r \in Request \cup {NoRequest},
           AppendOk(e, r)
    PROVE  CapacityInv'
<1>1. TypeInv /\ up /\ tears' = tears /\ HasRoom(e, r)
      /\ total' = TotalFor(e, r) + Size[e]
    BY DEF AppendOk, MayAppend, CapacityInv
<1>2. Size[e] \in Nat /\ TotalBytes \in Nat /\ Size[e] \in 0 .. Size[e]
    BY SizeAssumption, LimitAssumption
<1>3. Bytes(disk') = Bytes(DiskFor(e, r)) + Size[e]
    BY <1>1, <1>2, BytesWritten DEF AppendOk
<1>4. ASSUME tears' = 0
      PROVE  /\ Bytes(disk') <= total'
             /\ Bytes(disk') \in Nat /\ total' \in Nat /\ reserved \in Nat
             /\ ~OvercountedFor(e, r) => total' = Bytes(disk')
    BY <1>1, <1>2, <1>3, <1>4, AppendRoom
<1>5. OvercountedFor(e, r) => overcounted'
    BY Zenon DEF AppendOk
<1>6. tears' = 0 /\ ~overcounted' => total' = Bytes(disk')
    BY <1>4, <1>5, Zenon
<1>7. CASE r = NoRequest
    <2>1. resv' = resv /\ reserved' = reserved
        BY <1>7 DEF AppendOk, Consume
    <2>2. ASSUME tears' = 0 PROVE Bytes(disk') + reserved <= TotalBytes /\ total' + reserved <= TotalBytes
        <3>1. TotalFor(e, r) + Size[e] + reserved <= TotalBytes /\ TotalFor(e, r) \in Nat
            BY <1>1, <1>7, <2>2, AppendRoom
        <3>. QED  BY <1>1, <1>2, <1>4, <2>2, <3>1
    <2>3. tears' = 0 => Counts(Bytes(disk'), total', reserved, up', overcounted')
        BY <1>4, <1>6, <2>2, Zenon DEF Counts
    <2>. QED  BY <2>1, <2>3, CapacityStays, Zenon
<1>8. CASE r # NoRequest
    <2>1. /\ reserved' = reserved - Size[e] /\ r \in Request
          /\ resv' = [resv EXCEPT ![r].remaining = @ - Size[e], ![r].events = @ + 1]
        BY <1>8 DEF AppendOk, Consume
    <2>2. resv \in [Request -> Reservation] /\ resv' \in [Request -> Reservation]
        BY DEF CapacityInv, TypeInv, TypeOK
    <2>3. /\ \A q \in Request \ {r} : resv'[q] = resv[q]
          /\ resv'[r].remaining = resv[r].remaining - Size[e]
          /\ resv'[r].held = resv[r].held
        BY <2>1, <2>2 DEF Reservation
    <2>4. Promised(resv') = Promised(resv) + resv'[r].remaining - resv[r].remaining
          /\ Promised(resv) \in Nat
        BY <2>1, <2>2, <2>3, PromisedMoves
    <2>5. resv[r].remaining \in Nat /\ reserved = Promised(resv)
        BY <2>1, <2>2 DEF Reservation, CapacityInv, CapacityRespected
    <2>6. reserved' = Promised(resv')
        BY <1>2, <2>1, <2>3, <2>4, <2>5
    <2>7. ASSUME tears' = 0
          PROVE  Bytes(disk') + reserved' <= TotalBytes /\ total' + reserved' <= TotalBytes
        <3>1. /\ TotalFor(e, r) \in Nat /\ TotalFor(e, r) <= total /\ total \in Nat
              /\ total + reserved <= TotalBytes /\ reserved \in Nat
            BY <1>1, <2>7, AppendRoom
        <3>. QED  BY <1>1, <1>2, <1>4, <2>1, <2>7, <3>1
    <2>8. Fits'
        BY <1>4, <1>6, <2>7, Zenon DEF Fits, Counts
    <2>9. CapacityRespected'
        BY <2>6, <2>8, CapacityPartsNext, Zenon
    <2>10. \A q \in Request : ~resv'[q].held => resv'[q].remaining = 0
        <3>1. resv[r].held
            BY <1>8 DEF AppendOk, MayAppend
        <3>. QED  BY <2>3, <3>1 DEF CapacityInv
    <2>. QED  BY <2>9, <2>10 DEF CapacityInv
<1>. QED  BY <1>7, <1>8

\* Nothing is written: what is on disk shrinks at most, and what the count
\* does follows one of the four ways.
LEMMA UnwrittenCapacity ==
    ASSUME CapacityInv, TypeInv', NEW e \in Event, NEW r \in Request \cup {NoRequest},
           Unwritten(e, r)
    PROVE  CapacityInv'
<1>1. TypeInv /\ up /\ resv' = resv /\ reserved' = reserved /\ tears' = tears
    BY UnwrittenStep, Zenon DEF CapacityInv
<1>2. TotalBytes \in Nat /\ IsDisk(disk) /\ IsDisk(disk')
    BY <1>1, LimitAssumption DEF TypeInv
<1>3. Bytes(disk) \in Nat /\ Bytes(disk') \in Nat /\ total \in Nat /\ total' \in Nat
    BY <1>1, <1>2, BytesType DEF TypeInv, TypeOK
<1>4. ASSUME tears' = 0
      PROVE  Counts(Bytes(disk'), total', reserved, up', overcounted')
    <2>1. /\ Bytes(DiskFor(e, r)) \in Nat /\ TotalFor(e, r) \in Nat /\ reserved \in Nat
          /\ Bytes(DiskFor(e, r)) <= TotalFor(e, r) /\ TotalFor(e, r) <= total
          /\ ~OvercountedFor(e, r) => TotalFor(e, r) = Bytes(DiskFor(e, r))
          /\ total + reserved <= TotalBytes
        BY <1>1, <1>4, AppendRoom
    <2>2. Bytes(disk) <= total /\ (~overcounted => total = Bytes(disk))
        BY <1>1, <1>4, Zenon DEF CapacityInv, CapacityRespected
    <2>3. CASE disk' = DiskFor(e, r) /\ total' = TotalFor(e, r) /\ overcounted' = OvercountedFor(e, r)
        <3>1. /\ Bytes(disk') + reserved <= TotalBytes /\ Bytes(disk') <= total'
              /\ total' + reserved <= TotalBytes
            BY <1>2, <1>3, <2>1, <2>3
        <3>2. OvercountedFor(e, r) => overcounted'
            BY <2>3, Zenon
        <3>3. ~overcounted' => total' = Bytes(disk')
            BY <2>1, <2>3, <3>2, Zenon
        <3>. QED  BY <3>1, <3>3, Counted, Zenon
    <2>4. CASE disk' = disk /\ total' = total /\ overcounted' = overcounted
        <3>1. /\ Bytes(disk') + reserved <= TotalBytes /\ Bytes(disk') <= total'
              /\ total' + reserved <= TotalBytes
            BY <1>2, <1>3, <2>1, <2>2, <2>4
        <3>2. ~overcounted' => total' = Bytes(disk')
            BY <2>2, <2>4, Zenon
        <3>. QED  BY <3>1, <3>2, Counted, Zenon
    <2>5. CASE AppendCompactionFails(e, r)
        <3>1. /\ total' = total /\ overcounted' = (overcounted \/ disk' # disk)
              /\ (disk' = disk \/ \E S : disk' = RemoveFiles(disk, S))
            BY <2>5, UnwrittenStep, Zenon DEF AppendCompactionFails
        <3>2. Bytes(disk') <= Bytes(disk)
            BY <1>2, <1>3, <3>1, BytesRemoved
        <3>3. /\ Bytes(disk') + reserved <= TotalBytes /\ Bytes(disk') <= total'
              /\ total' + reserved <= TotalBytes
            BY <1>2, <1>3, <2>1, <2>2, <3>1, <3>2
        <3>4. ~overcounted' => total' = Bytes(disk')
            BY <2>2, <3>1, Zenon
        <3>. QED  BY <3>3, <3>4, Counted, Zenon
    <2>. QED  BY <2>3, <2>4, <2>5, Zenon DEF Unwritten, AppendRefused, AppendNotOpened
<1>. QED  BY <1>1, <1>4, CapacityStays, Zenon

LEMMA AppendElseCapacity ==
    ASSUME CapacityInv, TypeInv', NEW e \in Event, NEW r \in Request \cup {NoRequest},
           \/ AppendRolledBack(e, r)
           \/ \E k \in 1 .. Size[e] : AppendTorn(e, r, k)
    PROVE  CapacityInv'
<1>1. TypeInv /\ up /\ resv' = resv /\ reserved' = reserved
    BY DEF AppendRolledBack, AppendTorn, MayAppend, CapacityInv
<1>2. Size[e] \in Nat /\ TotalBytes \in Nat /\ 0 \in 0 .. Size[e]
    BY SizeAssumption, LimitAssumption
<1>4. CASE AppendRolledBack(e, r)
    <2>1. tears' = tears /\ total' = TotalFor(e, r) /\ WritePrefix(e, r, 0)
        BY <1>4 DEF AppendRolledBack, histVars
    <2>2. Bytes(disk') = Bytes(DiskFor(e, r)) + 0
        BY <1>1, <1>2, <2>1, BytesWritten
    <2>3. OvercountedFor(e, r) => overcounted'
        BY <1>4, Zenon DEF AppendRolledBack
    <2>4. ASSUME tears' = 0
          PROVE  Counts(Bytes(disk'), total', reserved, up', overcounted')
        <3>1. /\ Bytes(disk') + reserved <= TotalBytes /\ Bytes(disk') <= total'
              /\ total' + reserved <= TotalBytes
              /\ ~OvercountedFor(e, r) => total' = Bytes(disk')
            BY <1>1, <1>2, <2>1, <2>2, <2>4, AppendRoom
        <3>2. ~overcounted' => total' = Bytes(disk')
            BY <2>3, <3>1, Zenon
        <3>. QED  BY <3>1, <3>2, Counted, Zenon
    <2>. QED  BY <1>1, <2>4, CapacityStays, Zenon
<1>5. ASSUME NEW k \in 1 .. Size[e], AppendTorn(e, r, k) PROVE CapacityInv'
    <2>1. tears' # 0
        BY <1>5 DEF AppendTorn, CapacityInv, TypeInv, TypeOK
    <2>. QED  BY <1>1, <2>1, CapacityStays, Zenon
<1>. QED  BY <1>4, <1>5

LEMMA CrashCapacity ==
    ASSUME CapacityInv, TypeInv', ProcessGone, up,
           tears' = 0 => tears = 0 /\ Bytes(disk') <= TotalBytes
    PROVE  CapacityInv'
BY CapacityGone DEF ProcessGone

LEMMA AppendCrashCapacity ==
    ASSUME CapacityInv, TypeInv', NEW e \in Event, NEW r \in Request \cup {NoRequest},
           NEW k \in 0 .. Size[e], AppendCrash(e, r, k)
    PROVE  CapacityInv'
<1>1. TypeInv /\ up /\ ProcessGone /\ HasRoom(e, r) /\ WritePrefix(e, r, k)
    BY DEF AppendCrash, MayAppend, CapacityInv
<1>2. Size[e] \in Nat /\ TotalBytes \in Nat
    BY SizeAssumption, LimitAssumption
<1>3. Bytes(disk') = Bytes(DiskFor(e, r)) + k
    BY <1>1, BytesWritten
<1>4. ASSUME tears' = 0 PROVE tears = 0 /\ Bytes(disk') <= TotalBytes
    <2>1. tears = 0
        BY <1>4 DEF AppendCrash, CapacityInv, TypeInv, TypeOK
    <2>2. Bytes(disk) \in Nat
        BY <1>1, BytesType DEF TypeInv
    <2>3. /\ Bytes(DiskFor(e, r)) \in Nat /\ reserved \in Nat /\ TotalFor(e, r) \in Nat
          /\ Bytes(DiskFor(e, r)) <= TotalFor(e, r) /\ TotalFor(e, r) <= total
          /\ total \in Nat /\ total + reserved <= TotalBytes
        BY <1>1, <2>1, AppendRoom
    <2>4. CASE r = NoRequest
        <3>1. TotalFor(e, r) + Size[e] + reserved <= TotalBytes
            BY <1>1, <2>1, <2>4, AppendRoom
        <3>. QED  BY <1>2, <1>3, <2>1, <2>3, <3>1
    <2>5. CASE r # NoRequest
        <3>1. Size[e] <= resv[r].remaining /\ resv[r].remaining <= reserved /\ r \in Request
            BY <1>1, <2>1, <2>5, AppendRoom
        <3>2. resv[r].remaining \in Nat
            BY <1>1, <3>1 DEF TypeInv, TypeOK, Reservation
        <3>. QED  BY <1>2, <1>3, <2>1, <2>2, <2>3, <3>1, <3>2
    <2>. QED  BY <2>4, <2>5
<1>. QED  BY <1>1, <1>4, CrashCapacity

LEMMA CapacityNext == CapacityInv /\ [WalNext]_walVars => CapacityInv'
<1>. SUFFICES ASSUME CapacityInv, [WalNext]_walVars PROVE CapacityInv'
    OBVIOUS
<1>0. TypeInv /\ TypeInv'
    BY TypeInvNext DEF CapacityInv
<1>1. /\ IsDisk(disk) /\ Bytes(disk) \in Nat /\ TotalBytes \in Nat
      /\ resv \in [Request -> Reservation] /\ resv' \in [Request -> Reservation]
      /\ reserved = Promised(resv)
      /\ Fits /\ (tears = 0 => Bytes(disk) + reserved <= TotalBytes) /\ total \in Nat
    BY <1>0, LimitAssumption, BytesType, CapacityParts
    DEF TypeInv, TypeOK, CapacityInv, CapacityRespected
<1>2. reserved \in Nat
    BY <1>1, PromisedNat
<1>11. tears = 0 /\ up =>
          /\ Bytes(disk) <= total /\ total + reserved <= TotalBytes
          /\ ~overcounted => total = Bytes(disk)
    BY <1>1, Zenon DEF Fits, Counts
<1>3. CASE Open
    BY <1>0, <1>1, <1>2, <1>3, CapacityGone DEF Open, histVars, diskVars
<1>4. ASSUME NEW e \in Event, NEW r \in Request \cup {NoRequest}, AppendStep(e, r)
      PROVE  CapacityInv'
    BY <1>0, <1>4, AppendOkCapacity, UnwrittenCapacity, AppendElseCapacity, AppendCrashCapacity,
       Zenon
    DEF AppendStep, Unwritten
<1>5. ASSUME NEW r \in Request, ReserveRequest(r) PROVE CapacityInv'
    <2>1. /\ ~resv[r].held /\ reserved' = reserved + RequestBytes /\ up /\ up' = up
          /\ resv' = [resv EXCEPT ![r] =
                        [held |-> TRUE, remaining |-> RequestBytes, events |-> 0]]
          /\ total + reserved + RequestBytes <= TotalBytes
          /\ disk' = disk /\ total' = total /\ tears' = tears /\ overcounted' = overcounted
        BY <1>5 DEF ReserveRequest, diskVars, histVars
    <2>2. /\ \A q \in Request \ {r} : resv'[q] = resv[q]
          /\ resv'[r].remaining = RequestBytes /\ resv'[r].held
        BY <1>1, <2>1
    <2>3. resv[r].remaining = 0 /\ RequestBytes \in Nat
        BY <2>1, LimitAssumption DEF CapacityInv
    <2>4. Promised(resv') = Promised(resv) + resv'[r].remaining - resv[r].remaining
        BY <1>1, <2>2, PromisedMoves
    <2>5. reserved' = Promised(resv')
        BY <1>1, <1>2, <2>1, <2>2, <2>3, <2>4
    <2>6. ASSUME tears' = 0
          PROVE  Counts(Bytes(disk'), total', reserved', up', overcounted')
        <3>1. /\ Bytes(disk') + reserved' <= TotalBytes /\ Bytes(disk') <= total'
              /\ total' + reserved' <= TotalBytes
            BY <1>1, <1>2, <1>11, <2>1, <2>3, <2>6
        <3>2. ~overcounted' => total' = Bytes(disk')
            BY <1>11, <2>1, <2>6, Zenon
        <3>. QED  BY <3>1, <3>2, Counted, Zenon
    <2>7. CapacityRespected'
        BY <2>5, <2>6, CapacityPartsNext, Zenon DEF Fits
    <2>. QED  BY <1>0, <2>2, <2>7 DEF CapacityInv
<1>6. ASSUME NEW r \in Request, DropReservation(r) PROVE CapacityInv'
    <2>1. /\ reserved' = reserved - resv[r].remaining /\ up /\ up' = up
          /\ resv' = [resv EXCEPT ![r] = NoReservation]
          /\ disk' = disk /\ total' = total /\ tears' = tears /\ overcounted' = overcounted
        BY <1>6 DEF DropReservation, diskVars, histVars
    <2>2. /\ \A q \in Request \ {r} : resv'[q] = resv[q]
          /\ resv'[r].remaining = 0
        BY <1>1, <2>1 DEF NoReservation
    <2>3. Promised(resv') = Promised(resv) + resv'[r].remaining - resv[r].remaining
          /\ resv[r].remaining \in Nat
        BY <1>1, <2>2, PromisedMoves DEF Reservation
    <2>4. reserved' = Promised(resv')
        BY <1>1, <1>2, <2>1, <2>2, <2>3
    <2>5. ASSUME tears' = 0
          PROVE  Counts(Bytes(disk'), total', reserved', up', overcounted')
        <3>1. /\ Bytes(disk') + reserved' <= TotalBytes /\ Bytes(disk') <= total'
              /\ total' + reserved' <= TotalBytes
            BY <1>1, <1>2, <1>11, <2>1, <2>3, <2>5
        <3>2. ~overcounted' => total' = Bytes(disk')
            BY <1>11, <2>1, <2>5, Zenon
        <3>. QED  BY <3>1, <3>2, Counted, Zenon
    <2>6. CapacityRespected'
        BY <2>4, <2>5, CapacityPartsNext, Zenon DEF Fits
    <2>. QED  BY <1>0, <2>2, <2>6 DEF CapacityInv
<1>7. CASE NextPending \/ UNCHANGED walVars
    <2>1. /\ disk' = disk /\ total' = total /\ tears' = tears /\ up' = up
          /\ resv' = resv /\ reserved' = reserved /\ overcounted' = overcounted
        BY <1>7 DEF NextPending, walVars, diskVars, memVars, histVars
    <2>2. tears' = 0 => Counts(Bytes(disk'), total', reserved, up', overcounted')
        BY <1>1, <2>1, Zenon DEF Fits
    <2>. QED  BY <1>0, <2>1, <2>2, CapacityStays, Zenon
<1>8. ASSUME NEW c \in claims, Acknowledge(c) PROVE CapacityInv'
    <2>1. /\ disk' = Compact(disk, AckedCheckpoint(c)) /\ tears' = tears /\ up /\ up' = up
          /\ total' = (IF Bytes(disk') <= total THEN Bytes(disk') ELSE total)
          /\ resv' = resv /\ reserved' = reserved
        BY <1>8 DEF Acknowledge, MayAcknowledge, histVars
    <2>2. Bytes(disk') <= Bytes(disk) /\ Bytes(disk') \in Nat
        BY <1>0, <1>1, <2>1, BytesRemoved, BytesType DEF Compact, TypeInv
    <2>3. ASSUME tears' = 0
          PROVE  Counts(Bytes(disk'), total', reserved, up', overcounted')
        <3>1. /\ Bytes(disk') + reserved <= TotalBytes /\ Bytes(disk') <= total'
              /\ total' + reserved <= TotalBytes /\ total' = Bytes(disk')
            BY <1>1, <1>2, <1>11, <2>1, <2>2, <2>3
        <3>. QED  BY <3>1, Counted, Zenon
    <2>. QED  BY <1>0, <2>1, <2>3, CapacityStays, Zenon
<1>12. ASSUME NEW c \in claims, AcknowledgeFails(c) PROVE CapacityInv'
    <2>1. /\ tears' = tears /\ up /\ total' = total /\ resv' = resv /\ reserved' = reserved
          /\ overcounted' = (overcounted \/ disk' # disk)
          /\ \E S : disk' = RemoveFiles(disk, S)
        <3>1. \E S : disk' = RemoveFiles(disk, S)
            BY <1>12, AckedStep, Zenon DEF Acked
        <3>. QED  BY <1>12, <3>1, Zenon DEF AcknowledgeFails, MayAcknowledge, histVars
    <2>2. Bytes(disk') <= Bytes(disk) /\ Bytes(disk') \in Nat
        BY <1>0, <1>1, <2>1, BytesRemoved, BytesType DEF TypeInv
    <2>3. ASSUME tears' = 0
          PROVE  Counts(Bytes(disk'), total', reserved, up', overcounted')
        <3>1. /\ Bytes(disk') + reserved <= TotalBytes /\ Bytes(disk') <= total'
              /\ total' + reserved <= TotalBytes
            BY <1>1, <1>2, <1>11, <2>1, <2>2, <2>3
        <3>2. ~overcounted' => total' = Bytes(disk')
            BY <1>11, <2>1, <2>3, Zenon
        <3>. QED  BY <3>1, <3>2, Counted, Zenon
    <2>. QED  BY <1>0, <2>1, <2>3, CapacityStays, Zenon
<1>9. ASSUME NEW c \in claims, AcknowledgeCrash(c) PROVE CapacityInv'
    <2>1. ProcessGone /\ up /\ tears' = tears /\ \E S : disk' = RemoveFiles(disk, S)
        BY <1>9, Zenon DEF AcknowledgeCrash, MayAcknowledge
    <2>2. Bytes(disk') <= Bytes(disk) /\ Bytes(disk') \in Nat
        BY <1>0, <1>1, <2>1, BytesRemoved, BytesType DEF TypeInv
    <2>. QED  BY <1>0, <1>1, <1>2, <2>1, <2>2, CrashCapacity
<1>10. CASE Crash
    <2>1. ProcessGone /\ up /\ tears' = tears
          /\ (disk' = disk \/ \E S : disk' = RemoveFiles(disk, S))
        BY <1>10, Zenon DEF Crash
    <2>2. Bytes(disk') <= Bytes(disk) /\ Bytes(disk') \in Nat
        BY <1>0, <1>1, <2>1, BytesRemoved, BytesType DEF TypeInv
    <2>. QED  BY <1>0, <1>1, <1>2, <2>1, <2>2, CrashCapacity
<1>. QED
    BY <1>3, <1>4, <1>5, <1>6, <1>7, <1>8, <1>9, <1>10, <1>12, Zenon DEF WalNext

\* reserved_bytes is exactly what the live reservations still hold, and as
\* long as no partial record was left behind, the writer's count covers the
\* bytes on disk and with what is promised stays within total_bytes; only a
\* compaction that failed leaves it too high, until the next recount.
THEOREM CapacityNeverExceeded == WalSpec => []CapacityRespected
<1>1. WalInit => CapacityInv
    <2>. SUFFICES ASSUME WalInit PROVE CapacityInv
        OBVIOUS
    <2>1. TypeInv
        BY TypeInvInit
    <2>2. Bytes(disk) = 0
        <3>1. UNION {{s} \X (1 .. Len(disk[s])) : s \in DOMAIN disk} = {}
            BY DEF WalInit
        <3>. QED  BY <3>1, FS_EmptySet DEF Bytes
    <2>3. reserved = Promised(resv)
        BY NothingPromised DEF WalInit
    <2>4. \A r \in Request : resv[r].remaining = 0
        BY DEF WalInit, NoReservation
    <2>. QED  BY <2>1, <2>2, <2>3, <2>4, LimitAssumption
              DEF CapacityInv, CapacityRespected, WalInit
<1>2. CapacityInv => CapacityRespected
    BY DEF CapacityInv
<1>. QED  BY <1>1, <1>2, CapacityNext, PTL DEF WalSpec

-----------------------------------------------------------------------------
(* Reading back.                                                           *)

\* The i-th byte of a logged record, and whether a record covers byte i of
\* segment s.
Image(rec, i) ==
    [id |-> rec.id, segment |-> rec.segment, offset |-> rec.pos, nl |-> i = Size[rec.id]]
Covers(rec, s, i) == rec.segment = s /\ rec.pos < i /\ i <= rec.pos + Size[rec.id]

\* Every byte of the file belongs to a logged record.
Filled(d, L, s) ==
    /\ Len(d[s]) <= SegmentBytes
    /\ \A i \in 1 .. Len(d[s]) : \E rec \in L : Covers(rec, s, i)

\* A logged record stands in its file as it was encoded for its place.
Stands(d, rec) ==
    /\ rec.pos + Size[rec.id] <= Len(d[rec.segment])
    /\ \A i \in 1 .. Size[rec.id] : d[rec.segment][rec.pos + i] = Image(rec, i)

\* The files that are not torn hold the records L and nothing else.
Readable(d, L, T) ==
    /\ \A s \in DOMAIN d \ T : Filled(d, L, s)
    /\ \A rec \in L : rec.segment \in DOMAIN d \ T => Stands(d, rec)

LEMMA ImageFields ==
    ASSUME NEW rec \in LogRecord, NEW i
    PROVE  /\ Image(rec, i).id = rec.id /\ Image(rec, i).segment = rec.segment
           /\ Image(rec, i).offset = rec.pos
           /\ Image(rec, i).nl <=> i = Size[rec.id]
           /\ Image(rec, i) \in Byte
<1>. DEFINE last == i = Size[rec.id]
<1>1. Image(rec, i) = [id |-> rec.id, segment |-> rec.segment, offset |-> rec.pos, nl |-> last]
    BY DEF Image
<1>2. last \in BOOLEAN
    OBVIOUS
<1>. HIDE DEF last
<1>3. /\ Image(rec, i).id = rec.id /\ Image(rec, i).segment = rec.segment
      /\ Image(rec, i).offset = rec.pos /\ Image(rec, i).nl = last
    BY <1>1
<1>4. Image(rec, i) \in Byte
    BY <1>1, <1>2 DEF LogRecord, Byte
<1>. QED  BY <1>3, <1>4, Zenon DEF last

LEMMA RecordParts ==
    ASSUME NEW rec \in LogRecord
    PROVE  /\ rec.id \in Event /\ rec.segment \in Nat /\ rec.pos \in Nat
           /\ Size[rec.id] \in Nat /\ Size[rec.id] >= 2
BY SizeAssumption DEF LogRecord

\* Two records that cover the same byte start at the same place.
LEMMA SameStart ==
    ASSUME NEW d, NEW q \in LogRecord, NEW rec \in LogRecord, NEW s, NEW i \in Nat,
           Stands(d, q), Stands(d, rec), Covers(q, s, i), Covers(rec, s, i)
    PROVE  q.pos = rec.pos /\ q.id = rec.id
<1>1. d[s][i] = Image(rec, i - rec.pos)
    <2>1. i - rec.pos \in 1 .. Size[rec.id] /\ rec.pos + (i - rec.pos) = i /\ rec.segment = s
        BY RecordParts DEF Covers
    <2>. QED  BY <2>1 DEF Stands
<1>2. d[s][i] = Image(q, i - q.pos)
    <2>1. i - q.pos \in 1 .. Size[q.id] /\ q.pos + (i - q.pos) = i /\ q.segment = s
        BY RecordParts DEF Covers
    <2>. QED  BY <2>1 DEF Stands
<1>3. d[s][i].offset = rec.pos /\ d[s][i].id = rec.id
    <2>1. Image(rec, i - rec.pos).offset = rec.pos /\ Image(rec, i - rec.pos).id = rec.id
        BY ImageFields
    <2>. QED  BY <1>1, <2>1
<1>4. d[s][i].offset = q.pos /\ d[s][i].id = q.id
    <2>1. Image(q, i - q.pos).offset = q.pos /\ Image(q, i - q.pos).id = q.id
        BY ImageFields
    <2>. QED  BY <1>2, <2>1
<1>. QED  BY <1>3, <1>4, Zenon

\* next_pending at a boundary of a file that is not torn finds a record.
LEMMA BoundaryStartsRecord ==
    ASSUME NEW d, IsDisk(d), NEW L, L \subseteq LogRecord, NEW T, Readable(d, L, T),
           NEW s \in DOMAIN d, s \notin T, NEW o \in Nat, o < Len(d[s]), IsBoundary(d[s], o)
    PROVE  \E rec \in L : rec.segment = s /\ rec.pos = o /\ Stands(d, rec)
<1>1. d[s] \in Seq(Byte) /\ Len(d[s]) \in Nat
    BY LenProperties DEF IsDisk
<1>2. o + 1 \in 1 .. Len(d[s])
    BY <1>1
<1>3. PICK rec \in L : Covers(rec, s, o + 1)
    BY <1>2 DEF Readable, Filled
<1>4. rec \in LogRecord /\ rec.segment = s /\ Stands(d, rec)
    BY <1>3 DEF Readable, Covers
<1>5. /\ rec.pos \in Nat /\ Size[rec.id] \in Nat
      /\ rec.pos <= o /\ o < rec.pos + Size[rec.id]
    BY <1>3, <1>4, RecordParts DEF Covers
<1>6. CASE rec.pos < o
    <2>1. o - rec.pos \in 1 .. Size[rec.id] /\ rec.pos + (o - rec.pos) = o
          /\ o - rec.pos # Size[rec.id]
        BY <1>5, <1>6
    <2>2. d[s][o] = Image(rec, o - rec.pos)
        BY <1>4, <2>1 DEF Stands
    <2>3. ~d[s][o].nl
        BY <1>4, <2>1, <2>2, ImageFields, Zenon
    <2>4. o \notin {0, Len(d[s])}
        BY <1>1, <1>5, <1>6
    <2>. QED  BY <2>3, <2>4 DEF IsBoundary
<1>. QED  BY <1>4, <1>5, <1>6

\* What is read at the place of a record that stands.
LEMMA RecordRead ==
    ASSUME NEW d, IsDisk(d), NEW rec \in LogRecord, rec.segment \in DOMAIN d, Stands(d, rec)
    PROVE  /\ LineEnd(d[rec.segment], rec.pos) = rec.pos + Size[rec.id]
           /\ IsRecordAt(d[rec.segment], rec.segment, rec.pos)
           /\ d[rec.segment][rec.pos + 1].id = rec.id
<1>. DEFINE s == rec.segment
            f == d[s]
            o == rec.pos
            n == Size[rec.id]
<1>1. /\ f \in Seq(Byte) /\ Len(f) \in Nat /\ o \in Nat /\ n \in Nat /\ n >= 2 /\ s \in Nat
      /\ rec.id \in Event
    BY LenProperties, RecordParts DEF IsDisk
<1>2. o + n <= Len(f) /\ \A i \in 1 .. n : f[o + i] = Image(rec, i)
    BY DEF Stands
<1>3. \A i \in 1 .. n : f[o + i].nl <=> i = n
    <2>1. \A i \in 1 .. n : Image(rec, i).nl <=> i = n
        BY ImageFields
    <2>. HIDE DEF n
    <2>. QED  BY <1>2, <2>1, Zenon
<1>4. f[o + 1].segment = s /\ f[o + 1].offset = o /\ f[o + 1].id = rec.id
    <2>1. 1 \in 1 .. n
        BY <1>1
    <2>2. /\ Image(rec, 1).segment = s /\ Image(rec, 1).offset = o
          /\ Image(rec, 1).id = rec.id
        BY ImageFields
    <2>. QED  BY <1>2, <2>1, <2>2
<1>. HIDE DEF f, o, n, s
<1>5. LineEnd(f, o) = o + n
    <2>. DEFINE ends == {i \in o + 1 .. Len(f) : f[i].nl}
    <2>1. ends \subseteq Nat
        BY <1>1
    <2>2. o + n \in ends
        <3>1. o + n \in o + 1 .. Len(f) /\ n \in 1 .. n
            BY <1>1, <1>2
        <3>2. f[o + n].nl
            BY <1>3, <3>1, Zenon
        <3>. QED  BY <3>1, <3>2
    <2>3. \A i \in ends : i >= o + n
        <3>. SUFFICES ASSUME NEW i \in o + 1 .. Len(f), f[i].nl, i < o + n PROVE FALSE
            BY <1>1
        <3>1. i - o \in 1 .. n /\ o + (i - o) = i /\ i - o # n
            BY <1>1
        <3>. QED  BY <1>3, <3>1
    <2>4. Min(ends) \in ends /\ \A y \in ends : Min(ends) <= y
        BY <2>1, <2>2, MinNat
    <2>5. Min(ends) = o + n
        BY <1>1, <2>2, <2>3, <2>4
    <2>. QED  BY <2>2, <2>5 DEF LineEnd
<1>6. Line(f, o) = Encode(rec.id, [segment |-> s, offset |-> o])
    <2>. DEFINE l == SubSeq(f, o + 1, o + n)
    <2>1. \A i \in o + 1 .. o + n : f[i] \in Byte
        BY <1>1, <1>2, LenProperties
    <2>2. l \in Seq(Byte) /\ Len(l) = n /\ \A i \in 1 .. n : l[i] = f[o + i]
        <3>1. /\ l \in Seq(Byte)
              /\ Len(l) = IF o + 1 <= o + n THEN o + n - (o + 1) + 1 ELSE 0
              /\ \A i \in 1 .. o + n - (o + 1) + 1 : l[i] = f[o + 1 + i - 1]
            BY <1>1, <2>1, SubSeqProperties
        <3>. HIDE DEF l
        <3>. QED  BY <1>1, <3>1
    <2>3. \A i \in 1 .. n : l[i] = Image(rec, i)
        BY <1>2, <2>2, Zenon
    <2>4. Encode(rec.id, [segment |-> s, offset |-> o]) = [i \in 1 .. n |-> Image(rec, i)]
        BY Zenon DEF Encode, Image, n, s, o
    <2>5. l = [i \in 1 .. n |-> l[i]]
        <3>. HIDE DEF l
        <3>. QED  BY <2>2, LenProperties
    <2>6. [i \in 1 .. n |-> l[i]] = [i \in 1 .. n |-> Image(rec, i)]
        BY <2>3, Zenon
    <2>. QED  BY <1>5, <2>4, <2>5, <2>6, Zenon DEF Line
<1>7. o < Len(f)
    BY <1>1, <1>2
<1>. QED  BY <1>4, <1>5, <1>6, <1>7, Zenon DEF IsRecordAt, f, o, n, s

\* Removing files, whichever they are, keeps the others readable.
LEMMA ReadableRemoved ==
    ASSUME NEW d, NEW L, NEW T, NEW S, Readable(d, L, T)
    PROVE  Readable(RemoveFiles(d, S), L, T)
<1>. DEFINE p == RemoveFiles(d, S)
<1>1. DOMAIN p \subseteq DOMAIN d /\ \A s \in DOMAIN p : p[s] = d[s]
    BY DEF RemoveFiles
<1>. HIDE DEF p
<1>2. ASSUME NEW s \in DOMAIN p \ T PROVE Filled(p, L, s)
    <2>1. Filled(d, L, s) /\ p[s] = d[s]
        BY <1>1, <1>2 DEF Readable
    <2>. QED  BY <2>1, Zenon DEF Filled
<1>3. ASSUME NEW rec \in L, rec.segment \in DOMAIN p \ T PROVE Stands(p, rec)
    <2>1. Stands(d, rec) /\ p[rec.segment] = d[rec.segment]
        BY <1>1, <1>3 DEF Readable
    <2>. QED  BY <2>1, Zenon DEF Stands
<1>. QED  BY <1>2, <1>3, Zenon DEF Readable, p

\* A segment that is torn may hold anything.
LEMMA ReadableTorn ==
    ASSUME NEW d, NEW L, NEW T, NEW s, NEW f, NEW M, Readable(d, L, T),
           \A rec \in M : rec \in L \/ rec.segment = s, L \subseteq M
    PROVE  Readable(Put(d, s, f), M, T \cup {s})
<1>. DEFINE p == Put(d, s, f)
<1>1. DOMAIN p = DOMAIN d \cup {s} /\ \A t \in DOMAIN d \ {s} : p[t] = d[t]
    BY DEF Put
<1>. HIDE DEF p
<1>2. ASSUME NEW t \in DOMAIN p \ (T \cup {s}) PROVE Filled(p, M, t)
    <2>1. Filled(d, L, t) /\ p[t] = d[t]
        BY <1>1, <1>2 DEF Readable
    <2>. QED  BY <2>1, Zenon DEF Filled
<1>3. ASSUME NEW rec \in M, rec.segment \in DOMAIN p \ (T \cup {s}) PROVE Stands(p, rec)
    <2>1. Stands(d, rec) /\ p[rec.segment] = d[rec.segment]
        BY <1>1, <1>3 DEF Readable
    <2>. QED  BY <2>1, Zenon DEF Stands
<1>. QED  BY <1>2, <1>3, Zenon DEF Readable, p

\* ensure_file makes an empty file where there was none.
LEMMA ReadableCreated ==
    ASSUME NEW d, NEW L, NEW T, NEW s, Readable(d, L, T),
           s \notin DOMAIN d => \A rec \in L : rec.segment # s
    PROVE  Readable(Put(d, s, File(d, s)), L, T)
<1>. DEFINE p == Put(d, s, File(d, s))
<1>1. DOMAIN p = DOMAIN d \cup {s} /\ \A t \in DOMAIN d : p[t] = d[t]
    BY DEF Put, File
<1>2. s \notin DOMAIN d => p[s] = <<>>
    BY DEF Put, File
<1>. HIDE DEF p
<1>3. ASSUME NEW t \in DOMAIN p \ T PROVE Filled(p, L, t)
    <2>1. CASE t \in DOMAIN d
        <3>1. Filled(d, L, t) /\ p[t] = d[t]
            BY <1>1, <1>3, <2>1 DEF Readable
        <3>. QED  BY <3>1, Zenon DEF Filled
    <2>2. CASE t \notin DOMAIN d
        <3>1. p[t] = <<>> /\ Len(<<>>) = 0
            BY <1>1, <1>2, <1>3, <2>2
        <3>. QED  BY <3>1, LimitAssumption DEF Filled
    <2>. QED  BY <2>1, <2>2
<1>4. ASSUME NEW rec \in L, rec.segment \in DOMAIN p \ T PROVE Stands(p, rec)
    <2>1. Stands(d, rec) /\ p[rec.segment] = d[rec.segment]
        BY <1>1, <1>4 DEF Readable
    <2>. QED  BY <2>1, Zenon DEF Stands
<1>. QED  BY <1>3, <1>4, Zenon DEF Readable, p

\* A record appended where its file ends keeps the file readable.
LEMMA ReadableAppended ==
    ASSUME NEW d, IsDisk(d), NEW L, L \subseteq LogRecord, NEW T, NEW s, Readable(d, L, T),
           s \notin DOMAIN d => \A q \in L : q.segment # s,
           NEW rec \in LogRecord, rec.segment = s, rec.pos = Len(File(d, s)),
           NEW x \in Seq(Byte), Len(x) = Size[rec.id],
           \A i \in 1 .. Size[rec.id] : x[i] = Image(rec, i),
           rec.pos + Size[rec.id] <= SegmentBytes
    PROVE  Readable(Put(d, s, File(d, s) \o x), L \cup {rec}, T)
<1>. DEFINE f == File(d, s)
            p == Put(d, s, f \o x)
            n == Size[rec.id]
<1>1. DOMAIN p = DOMAIN d \cup {s} /\ p[s] = f \o x /\ \A t \in DOMAIN d \ {s} : p[t] = d[t]
    BY DEF Put
<1>2. f \in Seq(Byte) /\ Len(f) \in Nat /\ n \in Nat /\ rec.pos = Len(f)
    BY FileType, LenProperties, RecordParts
<1>3. s \in DOMAIN d => f = d[s]
    BY DEF File
<1>. HIDE DEF f, p, n
<1>4. /\ Len(f \o x) = Len(f) + n
      /\ \A i \in 1 .. Len(f) + n : (f \o x)[i] = IF i <= Len(f) THEN f[i] ELSE x[i - Len(f)]
    <2>1. Len(x) = n
        BY DEF n
    <2>. QED  BY <1>2, <2>1, ConcatProperties
<1>5. \A i \in 1 .. n : (f \o x)[Len(f) + i] = x[i]
    BY <1>2, <1>4
<1>6. Stands(p, rec)
    <2>1. rec.pos + n <= Len(p[s])
        BY <1>1, <1>2, <1>4
    <2>2. \A i \in 1 .. n : p[s][rec.pos + i] = Image(rec, i)
        BY <1>1, <1>2, <1>5 DEF n
    <2>. QED  BY <2>1, <2>2, Zenon DEF Stands, n
<1>7. ASSUME NEW q \in L, q.segment \in DOMAIN p \ T PROVE Stands(p, q)
    <2>1. Stands(d, q) /\ q.segment \in DOMAIN d /\ q \in LogRecord
        BY <1>1, <1>7 DEF Readable
    <2>2. CASE q.segment # s
        <3>1. p[q.segment] = d[q.segment]
            BY <1>1, <2>1, <2>2
        <3>. QED  BY <2>1, <3>1, Zenon DEF Stands
    <2>3. CASE q.segment = s
        <3>1. q.pos \in Nat /\ Size[q.id] \in Nat
            BY <2>1, RecordParts
        <3>2. q.pos + Size[q.id] <= Len(f) /\ \A i \in 1 .. Size[q.id] : f[q.pos + i] = Image(q, i)
            BY <1>3, <2>1, <2>3 DEF Stands
        <3>3. q.pos + Size[q.id] <= Len(p[s])
            BY <1>1, <1>2, <1>4, <3>1, <3>2
        <3>4. \A i \in 1 .. Size[q.id] :
                  q.pos + i \in 1 .. Len(f) + n /\ q.pos + i <= Len(f)
            BY <1>2, <3>1, <3>2
        <3>5. \A i \in 1 .. Size[q.id] : p[s][q.pos + i] = Image(q, i)
            BY <1>1, <1>4, <3>2, <3>4
        <3>. QED  BY <2>3, <3>3, <3>5 DEF Stands
    <2>. QED  BY <2>2, <2>3
<1>8. ASSUME NEW t \in DOMAIN p \ T PROVE Filled(p, L \cup {rec}, t)
    <2>1. CASE t # s
        <3>1. Filled(d, L, t) /\ p[t] = d[t]
            BY <1>1, <1>8, <2>1 DEF Readable
        <3>. QED  BY <3>1, Zenon DEF Filled
    <2>2. CASE t = s
        <3>1. Len(p[s]) = Len(f) + n /\ Len(f) + n <= SegmentBytes
            BY <1>1, <1>2, <1>4 DEF n
        <3>2. ASSUME NEW i \in 1 .. Len(f) + n PROVE \E q \in L \cup {rec} : Covers(q, s, i)
            <4>1. CASE i <= Len(f)
                <5>1. s \in DOMAIN d
                    <6>1. s \notin DOMAIN d => Len(f) = 0
                        BY DEF f, File
                    <6>. QED  BY <3>2, <4>1, <6>1
                <5>2. Filled(d, L, s) /\ i \in 1 .. Len(d[s])
                    BY <1>2, <1>3, <1>8, <2>2, <3>2, <4>1, <5>1 DEF Readable
                <5>. QED  BY <5>2, Zenon DEF Filled
            <4>2. CASE ~(i <= Len(f))
                BY <1>2, <3>2, <4>2 DEF Covers, n
            <4>. QED  BY <4>1, <4>2
        <3>. QED  BY <2>2, <3>1, <3>2 DEF Filled
    <2>. QED  BY <2>1, <2>2
<1>. QED  BY <1>6, <1>7, <1>8 DEF Readable, p, f

\* A file that is not torn ends in a newline.
LEMMA EndsInNewline ==
    ASSUME NEW d, IsDisk(d), NEW L, L \subseteq LogRecord, NEW T, Readable(d, L, T),
           NEW s \in DOMAIN d, s \notin T, Len(d[s]) > 0
    PROVE  d[s][Len(d[s])].nl
<1>1. Len(d[s]) \in Nat
    BY LenProperties DEF IsDisk
<1>2. PICK rec \in L : Covers(rec, s, Len(d[s]))
    <2>1. Len(d[s]) \in 1 .. Len(d[s])
        BY <1>1
    <2>. QED  BY <2>1 DEF Readable, Filled
<1>3. rec \in LogRecord /\ rec.segment = s /\ Stands(d, rec)
    BY <1>2 DEF Readable, Covers
<1>4. /\ rec.pos \in Nat /\ Size[rec.id] \in Nat /\ Size[rec.id] \in 1 .. Size[rec.id]
      /\ rec.pos + Size[rec.id] = Len(d[s])
    BY <1>1, <1>2, <1>3, RecordParts DEF Covers, Stands
<1>5. d[s][Len(d[s])] = Image(rec, Size[rec.id])
    BY <1>3, <1>4 DEF Stands
<1>6. Image(rec, Size[rec.id]).nl
    BY <1>3, ImageFields
<1>. QED  BY <1>5, <1>6

\* The writer is at the end of the last segment.
CursorAt(d, T, p) ==
    /\ \A s \in DOMAIN d : s <= p.segment
    /\ p.segment \notin T => p.offset = Len(File(d, p.segment))

ReadInv ==
    /\ Readable(disk, log, torn)
    /\ ckpt # DefaultCheckpoint => ckpt.segment \in DOMAIN disk
    /\ ckpt.segment \notin torn => CheckpointValid(disk, ckpt)
    /\ up => CursorAt(disk, torn, cur)

ReadBackInv == DurableInv /\ ReadInv

LEMMA ReadBackTypes ==
    ASSUME ReadBackInv
    PROVE  /\ TypeInv /\ IsDisk(disk) /\ log \subseteq LogRecord
           /\ DOMAIN disk \subseteq Nat /\ \A s \in DOMAIN disk : disk[s] \in Seq(Byte)
           /\ ckpt \in Checkpoint /\ ckpt.segment \in Nat /\ ckpt.offset \in Nat
           /\ cur \in Position /\ cur.segment \in Nat /\ cur.offset \in Nat
BY DEF ReadBackInv, DurableInv, TypeInv, TypeOK, Checkpoint, Position

\* Where an append goes is the end of the last segment too.
LEMMA TargetCursor ==
    ASSUME ReadBackInv, up, NEW e \in Event
    PROVE  /\ CursorAt(disk, torn, Target(e))
           /\ Target(e).segment \in Nat /\ Target(e).offset \in Nat
           /\ ckpt.segment <= Target(e).segment
           /\ ~Oversized(e) => Target(e).offset + Size[e] <= SegmentBytes
<1>1. /\ \A s \in DOMAIN disk : s <= cur.segment
      /\ cur.segment \notin torn => cur.offset = Len(File(disk, cur.segment))
    BY DEF ReadBackInv, ReadInv, CursorAt
<1>2. Size[e] \in Nat /\ SegmentBytes \in Nat
    BY SizeAssumption, LimitAssumption
<1>3. ckpt.segment <= cur.segment
    <2>1. CASE ckpt = DefaultCheckpoint
        BY <2>1, ReadBackTypes DEF DefaultCheckpoint
    <2>2. CASE ckpt # DefaultCheckpoint
        BY <1>1, <2>2 DEF ReadBackInv, ReadInv
    <2>. QED  BY <2>1, <2>2
<1>4. CASE Rotates(e)
    <2>1. Target(e).segment = cur.segment + 1 /\ Target(e).offset = 0
        BY <1>4 DEF Target
    <2>2. cur.segment + 1 \notin DOMAIN disk
        BY <1>1, ReadBackTypes
    <2>3. Len(File(disk, cur.segment + 1)) = 0
        BY <2>2 DEF File
    <2>4. \A s \in DOMAIN disk : s <= cur.segment + 1
        BY <1>1, ReadBackTypes
    <2>. QED  BY <1>2, <1>3, <2>1, <2>3, <2>4, ReadBackTypes DEF CursorAt, Oversized
<1>5. CASE ~Rotates(e)
    <2>1. Target(e) = cur
        BY <1>5 DEF Target
    <2>2. ~Oversized(e) => cur.offset + Size[e] <= SegmentBytes
        BY <1>2, <1>5, ReadBackTypes DEF Rotates, Oversized
    <2>. QED  BY <1>1, <1>3, <2>1, <2>2, ReadBackTypes DEF CursorAt
<1>. QED  BY <1>4, <1>5

\* The files from the checkpoint's on, which compaction leaves alone.
LEMMA CompactedFiles ==
    ASSUME ReadBackInv, NEW e \in Event, NEW r, NEW s \in Nat, s >= ckpt.segment
    PROVE  /\ s \in DOMAIN DiskFor(e, r) <=> s \in DOMAIN disk
           /\ s \in DOMAIN disk => DiskFor(e, r)[s] = disk[s]
           /\ File(DiskFor(e, r), s) = File(disk, s)
<1>1. /\ s \in DOMAIN DiskFor(e, r) <=> s \in DOMAIN disk
      /\ s \in DOMAIN disk => DiskFor(e, r)[s] = disk[s]
    BY ReadBackTypes DEF DiskFor, Compact, RemoveFiles, Obsolete
<1>. QED  BY <1>1 DEF File

\* No logged record names a segment an append has to create.
LEMMA FreshSegment ==
    ASSUME ReadBackInv, up, NEW e \in Event, NEW r,
           Target(e).segment \notin DOMAIN DiskFor(e, r)
    PROVE  \A rec \in log : rec.segment # Target(e).segment
<1>. SUFFICES ASSUME NEW rec \in log, rec.segment = Target(e).segment PROVE FALSE
    OBVIOUS
<1>1. /\ rec.segment \in Nat /\ rec.pos \in Nat /\ rec.segment >= ckpt.segment
      /\ rec.segment \notin DOMAIN disk
    BY TargetCursor, CompactedFiles, ReadBackTypes DEF LogRecord
<1>2. Behind(rec, ckpt)
    BY <1>1 DEF ReadBackInv, DurableInv, DurableUntilAcknowledged, Intact
<1>3. rec.segment = ckpt.segment /\ rec.pos < ckpt.offset
    BY <1>1, <1>2, ReadBackTypes DEF Behind, Precedes
<1>4. ckpt # DefaultCheckpoint
    BY <1>1, <1>3, ReadBackTypes DEF DefaultCheckpoint
<1>. QED  BY <1>1, <1>3, <1>4 DEF ReadBackInv, ReadInv

\* The compaction an append may start with.
LEMMA ReadableCompacted ==
    ASSUME ReadBackInv, NEW e \in Event, NEW r
    PROVE  Readable(DiskFor(e, r), log, torn) /\ IsDisk(DiskFor(e, r))
<1>1. Readable(disk, log, torn)
    BY DEF ReadBackInv, ReadInv
<1>2. Readable(DiskFor(e, r), log, torn)
    BY <1>1, ReadableRemoved DEF DiskFor, Compact
<1>. QED  BY <1>2, ReadBackTypes, AppendTypes

\* What a write that was refused, undone, torn or finished leaves readable.
LEMMA WriteReadable ==
    ASSUME ReadBackInv, up, NEW e \in Event, NEW r, NEW k \in 0 .. Size[e], ~Oversized(e),
           WritePrefix(e, r, k),
           \/ k = 0 /\ log' = log /\ torn' = torn
           \/ k = Size[e] /\ log' = log \cup {LogEntry(e, r)} /\ torn' = torn
           \/ log' = log /\ torn' = torn \cup {Target(e).segment}
    PROVE  Readable(disk', log', torn')
<1>. DEFINE d == DiskFor(e, r)
            s == Target(e).segment
            f == TargetFile(e, r)
            x == SubSeq(Encode(e, Target(e)), 1, k)
<1>1. disk' = Put(d, s, f \o x) /\ f = File(d, s)
    BY DEF WritePrefix, TargetFile
<1>2. Readable(d, log, torn) /\ IsDisk(d)
    BY ReadableCompacted
<1>3. s \notin DOMAIN d => \A rec \in log : rec.segment # s
    BY FreshSegment
<1>4. /\ x \in Seq(Byte) /\ Len(x) = k
      /\ \A i \in 1 .. k : x[i] = [id |-> e, segment |-> s, offset |-> Target(e).offset,
                                   nl |-> i = Size[e]]
    <2>1. Target(e) \in Position
        BY ReadBackTypes, AppendTypes
    <2>. QED  BY <2>1, EncodePrefix, Zenon
<1>5. CASE k = 0 /\ log' = log /\ torn' = torn
    <2>1. x = <<>>
        BY <1>4, <1>5, EmptySeq
    <2>2. f \in Seq(Byte)
        BY ReadBackTypes, AppendTypes
    <2>3. f \o x = f
        BY <2>1, <2>2, ConcatEmptySeq
    <2>4. disk' = Put(d, s, File(d, s))
        BY <1>1, <2>3, Zenon
    <2>5. Readable(Put(d, s, File(d, s)), log, torn)
        BY <1>2, <1>3, ReadableCreated
    <2>. QED  BY <1>5, <2>4, <2>5, Zenon
<1>6. CASE k = Size[e] /\ log' = log \cup {LogEntry(e, r)} /\ torn' = torn
    <2>. DEFINE rec == LogEntry(e, r)
    <2>1. rec \in LogRecord
        BY ReadBackTypes, LogEntryType
    <2>2. rec.id = e /\ rec.segment = s /\ rec.pos = Len(f)
        BY DEF LogEntry
    <2>. HIDE DEF rec
    <2>3. CASE s \in torn
        <3>1. Readable(Put(d, s, f \o x), log \cup {rec}, torn \cup {s})
            <4>1. \A q \in log \cup {rec} : q \in log \/ q.segment = s
                BY <2>2
            <4>. QED  BY <1>2, <4>1, ReadableTorn
        <3>2. torn \cup {s} = torn
            BY <2>3
        <3>. QED  BY <1>1, <1>6, <3>1, <3>2, Zenon DEF rec
    <2>4. CASE s \notin torn
        <3>1. Target(e).offset = Len(File(disk, s)) /\ Target(e).offset + Size[e] <= SegmentBytes
            BY <2>4, TargetCursor DEF CursorAt
        <3>2. File(disk, s) = f
            BY <1>1, TargetCursor, CompactedFiles
        <3>3. Target(e).offset = rec.pos /\ rec.pos + Size[rec.id] <= SegmentBytes
            BY <2>2, <3>1, <3>2
        <3>4. \A i \in 1 .. Size[rec.id] : x[i] = Image(rec, i)
            <4>1. \A i \in 1 .. k : Image(rec, i) =
                      [id |-> e, segment |-> s, offset |-> Target(e).offset, nl |-> i = Size[e]]
                BY <2>2, <3>3, Zenon DEF Image
            <4>2. 1 .. Size[rec.id] = 1 .. k
                BY <1>6, <2>2
            <4>. HIDE DEF x, s
            <4>. QED  BY <1>4, <4>1, <4>2, Zenon
        <3>5. Readable(Put(d, s, File(d, s) \o x), log \cup {rec}, torn)
            <4>1. Len(x) = Size[rec.id] /\ rec.pos = Len(File(d, s)) /\ x \in Seq(Byte)
                BY <1>1, <1>4, <1>6, <2>2
            <4>2. log \subseteq LogRecord
                BY ReadBackTypes
            <4>. HIDE DEF d, s, x, f
            <4>. QED  BY <1>2, <1>3, <2>1, <2>2, <3>3, <3>4, <4>1, <4>2, ReadableAppended
        <3>. QED  BY <1>1, <1>6, <3>5, Zenon DEF rec
    <2>. QED  BY <2>3, <2>4
<1>7. CASE log' = log /\ torn' = torn \cup {s}
    <2>1. Readable(Put(d, s, f \o x), log, torn \cup {s})
        BY <1>2, ReadableTorn
    <2>. QED  BY <1>1, <1>7, <2>1, Zenon
<1>. QED  BY <1>5, <1>6, <1>7

\* The file a write has changed, and those it has not.
LEMMA WrittenFiles ==
    ASSUME ReadBackInv, up, NEW e \in Event, NEW r, NEW k \in 0 .. Size[e], WritePrefix(e, r, k)
    PROVE  /\ DOMAIN disk' = DOMAIN DiskFor(e, r) \cup {Target(e).segment}
           /\ \A s \in DOMAIN DiskFor(e, r) \ {Target(e).segment} : disk'[s] = disk[s]
           /\ Len(disk'[Target(e).segment]) = Len(File(disk, Target(e).segment)) + k
           /\ \A i \in 1 .. Len(File(disk, Target(e).segment)) :
                 disk'[Target(e).segment][i] = File(disk, Target(e).segment)[i]
           /\ DOMAIN DiskFor(e, r) \subseteq DOMAIN disk
<1>. DEFINE d == DiskFor(e, r)
            s == Target(e).segment
            f == TargetFile(e, r)
            x == SubSeq(Encode(e, Target(e)), 1, k)
<1>1. disk' = Put(d, s, f \o x)
    BY DEF WritePrefix
<1>2. f = File(disk, s)
    BY TargetCursor, CompactedFiles DEF TargetFile
<1>3. \A t \in DOMAIN d : d[t] = disk[t] /\ t \in DOMAIN disk
    BY DEF DiskFor, Compact, RemoveFiles
<1>4. x \in Seq(Byte) /\ Len(x) = k /\ f \in Seq(Byte) /\ Len(f) \in Nat /\ k \in Nat
    <2>1. Target(e) \in Position /\ f \in Seq(Byte) /\ Size[e] \in Nat
        BY ReadBackTypes, AppendTypes
    <2>. QED  BY <2>1, EncodePrefix, LenProperties
<1>. HIDE DEF d, s, f, x
<1>5. /\ Len(f \o x) = Len(f) + Len(x)
      /\ \A i \in 1 .. Len(f) + Len(x) : (f \o x)[i] =
             IF i <= Len(f) THEN f[i] ELSE x[i - Len(f)]
    BY <1>4, ConcatProperties
<1>6. \A i \in 1 .. Len(f) : (f \o x)[i] = f[i]
    BY <1>4, <1>5
<1>7. DOMAIN disk' = DOMAIN d \cup {s} /\ disk'[s] = f \o x
      /\ \A t \in DOMAIN d \ {s} : disk'[t] = d[t]
    BY <1>1 DEF Put
<1>8. /\ DOMAIN disk' = DOMAIN d \cup {s}
      /\ \A t \in DOMAIN d \ {s} : disk'[t] = disk[t]
      /\ Len(disk'[s]) = Len(f) + k
      /\ \A i \in 1 .. Len(f) : disk'[s][i] = f[i]
      /\ DOMAIN d \subseteq DOMAIN disk
    BY <1>3, <1>4, <1>5, <1>6, <1>7
<1>. QED  BY <1>2, <1>8 DEF d, s

\* The checkpoint stays valid when records are appended behind it.
LEMMA WriteCheckpoint ==
    ASSUME ReadBackInv, up, NEW e \in Event, NEW r, NEW k \in 0 .. Size[e],
           WritePrefix(e, r, k), NEW T, torn \subseteq T
    PROVE  /\ ckpt # DefaultCheckpoint => ckpt.segment \in DOMAIN disk'
           /\ ckpt.segment \notin T => CheckpointValid(disk', ckpt)
<1>. DEFINE s == Target(e).segment
            c == ckpt.segment
            o == ckpt.offset
<1>1. CASE ckpt = DefaultCheckpoint
    BY <1>1 DEF CheckpointValid
<1>2. CASE ckpt # DefaultCheckpoint
    <2>1. c \in DOMAIN disk /\ c \in Nat /\ c \in DOMAIN DiskFor(e, r)
        BY <1>2, ReadBackTypes, CompactedFiles DEF ReadBackInv, ReadInv
    <2>2. c \in DOMAIN disk'
        BY <2>1, WrittenFiles
    <2>3. ASSUME c \notin T PROVE IsBoundary(disk'[c], o)
        <3>1. IsBoundary(disk[c], o)
            BY <1>2, <2>3 DEF ReadBackInv, ReadInv, CheckpointValid
        <3>2. CASE c # s
            <4>1. disk'[c] = disk[c]
                BY <2>1, <3>2, WrittenFiles
            <4>. QED  BY <3>1, <4>1
        <3>3. CASE c = s
            <4>1. File(disk, s) = disk[c] /\ disk[c] \in Seq(Byte) /\ Len(disk[c]) \in Nat
                BY <2>1, <3>3, ReadBackTypes, LenProperties DEF File
            <4>2. /\ Len(disk'[c]) = Len(disk[c]) + k
                  /\ \A i \in 1 .. Len(disk[c]) : disk'[c][i] = disk[c][i]
                BY <3>3, <4>1, WrittenFiles
            <4>3. k \in Nat /\ o \in Nat
                BY ReadBackTypes, AppendTypes
            <4>4. o <= Len(disk[c]) /\ (o \notin {0, Len(disk[c])} => disk[c][o].nl)
                BY <3>1 DEF IsBoundary
            <4>5. ASSUME o \notin {0, Len(disk'[c])} PROVE disk'[c][o].nl
                <5>1. o \in 1 .. Len(disk[c])
                    BY <4>1, <4>3, <4>4, <4>5
                <5>2. CASE o = Len(disk[c])
                    <6>1. Len(disk[c]) > 0 /\ c \notin torn
                        BY <2>3, <4>1, <5>1, <5>2
                    <6>2. disk[c][Len(disk[c])].nl
                        <7>1. Readable(disk, log, torn)
                            BY DEF ReadBackInv, ReadInv
                        <7>. QED  BY <2>1, <6>1, <7>1, ReadBackTypes, EndsInNewline
                    <6>. QED  BY <4>2, <5>1, <5>2, <6>2
                <5>3. CASE o # Len(disk[c])
                    BY <4>2, <4>4, <5>1, <5>3
                <5>. QED  BY <5>2, <5>3
            <4>6. o <= Len(disk'[c])
                BY <4>1, <4>2, <4>3, <4>4
            <4>. QED  BY <4>5, <4>6 DEF IsBoundary
        <3>. QED  BY <3>2, <3>3
    <2>. QED  BY <2>2, <2>3 DEF CheckpointValid
<1>. QED  BY <1>1, <1>2

\* After a write the writer is at the end of the last segment again.
LEMMA WriteCursor ==
    ASSUME ReadBackInv, up, NEW e \in Event, NEW r, NEW k \in 0 .. Size[e],
           WritePrefix(e, r, k), NEW T, torn \subseteq T, NEW p,
           p.segment = Target(e).segment,
           p.segment \notin T => p.offset = Target(e).offset + k
    PROVE  CursorAt(disk', T, p)
<1>. DEFINE s == Target(e).segment
<1>1. s \in Nat /\ \A t \in DOMAIN disk : t <= s
    BY TargetCursor DEF CursorAt
<1>2. \A t \in DOMAIN disk' : t <= s
    <2>1. DOMAIN disk' \subseteq DOMAIN disk \cup {s}
        BY WrittenFiles
    <2>. HIDE DEF s
    <2>. QED  BY <1>1, <2>1
<1>3. ASSUME s \notin T PROVE p.offset = Len(File(disk', s))
    <2>1. Target(e).offset = Len(File(disk, s))
        BY <1>3, TargetCursor DEF CursorAt
    <2>2. Len(disk'[s]) = Len(File(disk, s)) + k /\ s \in DOMAIN disk'
        BY WrittenFiles
    <2>. QED  BY <1>3, <2>1, <2>2 DEF File
<1>. QED  BY <1>2, <1>3 DEF CursorAt

LEMMA WriteReadInv ==
    ASSUME ReadBackInv, up, NEW e \in Event, NEW r, NEW k \in 0 .. Size[e], ~Oversized(e),
           WritePrefix(e, r, k), ckpt' = ckpt,
           \/ k = 0 /\ log' = log /\ torn' = torn
           \/ k = Size[e] /\ log' = log \cup {LogEntry(e, r)} /\ torn' = torn
           \/ log' = log /\ torn' = torn \cup {Target(e).segment},
           up' => /\ cur'.segment = Target(e).segment
                  /\ cur'.segment \notin torn' => cur'.offset = Target(e).offset + k
    PROVE  ReadInv'
<1>1. Readable(disk', log', torn')
    BY WriteReadable
<1>2. torn \subseteq torn'
    OBVIOUS
<1>3. /\ ckpt' # DefaultCheckpoint => ckpt'.segment \in DOMAIN disk'
      /\ ckpt'.segment \notin torn' => CheckpointValid(disk', ckpt')
    BY <1>2, WriteCheckpoint
<1>4. up' => CursorAt(disk', torn', cur')
    BY <1>2, WriteCursor
<1>. QED  BY <1>1, <1>3, <1>4, Zenon
          DEF ReadInv, Readable, Filled, Stands, Covers, Image, CheckpointValid, IsBoundary,
              CursorAt, File

\* Files before the checkpoint are removed.
LEMMA RemovalReadInv ==
    ASSUME ReadBackInv, log' = log, torn' = torn,
           NEW S, disk' = RemoveFiles(disk, S), S \subseteq Obsolete(disk, ckpt'),
           \/ ckpt' = ckpt
           \/ ckpt' \in Checkpoint /\ ckpt' # DefaultCheckpoint /\ CheckpointValid(disk, ckpt'),
           up' => CursorAt(disk, torn, cur') /\ cur'.segment \in Nat
    PROVE  ReadInv'
<1>1. Readable(disk', log', torn')
    <2>1. Readable(disk, log, torn)
        BY DEF ReadBackInv, ReadInv
    <2>. QED  BY <2>1, ReadableRemoved
<1>2. /\ ckpt'.segment \in Nat /\ DOMAIN disk \subseteq Nat
      /\ ckpt' # DefaultCheckpoint => ckpt'.segment \in DOMAIN disk
      /\ ckpt'.segment \notin torn => CheckpointValid(disk, ckpt')
    BY ReadBackTypes DEF ReadBackInv, ReadInv, CheckpointValid, Checkpoint
<1>3. \A s \in S : s < ckpt'.segment /\ s \in DOMAIN disk
    BY DEF Obsolete
<1>4. \A s \in DOMAIN disk : s >= ckpt'.segment => s \in DOMAIN disk' /\ disk'[s] = disk[s]
    BY <1>2, <1>3 DEF RemoveFiles
<1>5. /\ ckpt' # DefaultCheckpoint => ckpt'.segment \in DOMAIN disk'
      /\ ckpt'.segment \notin torn' => CheckpointValid(disk', ckpt')
    <2>1. ckpt' # DefaultCheckpoint =>
              ckpt'.segment \in DOMAIN disk' /\ disk'[ckpt'.segment] = disk[ckpt'.segment]
        BY <1>2, <1>4
    <2>. QED  BY <1>2, <2>1 DEF CheckpointValid
<1>6. ASSUME up' PROVE CursorAt(disk', torn', cur')
    <2>1. /\ \A s \in DOMAIN disk : s <= cur'.segment
          /\ cur'.segment \notin torn => cur'.offset = Len(File(disk, cur'.segment))
          /\ cur'.segment \in Nat
        BY <1>6 DEF CursorAt
    <2>2. DOMAIN disk' \subseteq DOMAIN disk
        BY DEF RemoveFiles
    <2>3. File(disk', cur'.segment) = File(disk, cur'.segment)
        <3>1. CASE cur'.segment \in DOMAIN disk
            <4>1. cur'.segment \notin S
                <5>. SUFFICES ASSUME cur'.segment \in S PROVE FALSE
                    OBVIOUS
                <5>1. cur'.segment < ckpt'.segment /\ ckpt'.segment # 0
                    BY <1>2, <1>3, <2>1
                <5>2. ckpt'.segment \in DOMAIN disk
                    BY <1>2, <5>1 DEF DefaultCheckpoint
                <5>. QED  BY <1>2, <2>1, <5>1, <5>2
            <4>. QED  BY <3>1, <4>1 DEF File, RemoveFiles
        <3>2. CASE cur'.segment \notin DOMAIN disk
            BY <2>2, <3>2 DEF File
        <3>. QED  BY <3>1, <3>2
    <2>. QED  BY <2>1, <2>2, <2>3 DEF CursorAt
<1>. QED  BY <1>1, <1>5, <1>6, Zenon
          DEF ReadInv, Readable, Filled, Stands, Covers, Image, CheckpointValid, IsBoundary,
              CursorAt, File

LEMMA ReadInvNext == ReadBackInv /\ [WalNext]_walVars => ReadInv'
<1>. SUFFICES ASSUME ReadBackInv, [WalNext]_walVars PROVE ReadInv'
    OBVIOUS
<1>0. TypeInv /\ TypeInv'
    BY TypeInvNext DEF ReadBackInv, DurableInv
<1>1. ASSUME disk' = disk, ckpt' = ckpt, log' = log, torn' = torn,
             up' => CursorAt(disk, torn, cur')
      PROVE  ReadInv'
    <2>1. Readable(disk', log', torn') /\ (ckpt' # DefaultCheckpoint => ckpt'.segment \in DOMAIN disk')
          /\ (ckpt'.segment \notin torn' => CheckpointValid(disk', ckpt'))
        BY <1>1, Zenon DEF ReadBackInv, ReadInv
    <2>2. up' => CursorAt(disk', torn', cur')
        BY <1>1, Zenon
    <2>. QED  BY <2>1, <2>2, Zenon
              DEF ReadInv, Readable, Filled, Stands, Covers, Image, CheckpointValid, IsBoundary,
                  CursorAt, File
<1>2. CASE Open
    <2>1. /\ disk' = disk /\ ckpt' = ckpt /\ log' = log /\ torn' = torn
          /\ cur' = IF DOMAIN disk = {} THEN [segment |-> 0, offset |-> 0]
                    ELSE [segment |-> Max(DOMAIN disk), offset |-> Len(disk[Max(DOMAIN disk)])]
        BY <1>2, Zenon DEF Open, diskVars, histVars
    <2>2. CASE DOMAIN disk = {}
        <3>1. cur'.segment = 0 /\ cur'.offset = 0 /\ Len(File(disk, 0)) = 0
            BY <2>1, <2>2 DEF File
        <3>. QED  BY <1>1, <2>1, <2>2, <3>1 DEF CursorAt
    <2>3. CASE DOMAIN disk # {}
        <3>1. Max(DOMAIN disk) \in DOMAIN disk /\ \A t \in DOMAIN disk : Max(DOMAIN disk) >= t
            BY <1>0, <2>3, MaxNat DEF TypeInv, IsDisk
        <3>2. DOMAIN disk \subseteq Nat
            BY ReadBackTypes
        <3>3. cur'.segment = Max(DOMAIN disk) /\ cur'.offset = Len(disk[Max(DOMAIN disk)])
            BY <2>1, <2>3
        <3>4. \A t \in DOMAIN disk : t <= cur'.segment
            BY <3>1, <3>2, <3>3
        <3>5. File(disk, cur'.segment) = disk[Max(DOMAIN disk)]
            BY <3>1, <3>3 DEF File
        <3>. QED  BY <1>1, <2>1, <3>3, <3>4, <3>5 DEF CursorAt
    <2>. QED  BY <2>2, <2>3
<1>3. ASSUME NEW e \in Event, NEW r \in Request \cup {NoRequest}, AppendStep(e, r)
      PROVE  ReadInv'
    <2>0. /\ up /\ ~Oversized(e) /\ Size[e] \in Nat
          /\ 0 \in 0 .. Size[e] /\ Size[e] \in 0 .. Size[e]
        BY <1>3, SizeAssumption
        DEF AppendStep, AppendOk, AppendRefused, AppendCompactionFails, AppendNotOpened,
            AppendRolledBack, AppendTorn, AppendCrash, MayAppend
    <2>1. CASE AppendOk(e, r)
        <3>1. /\ WritePrefix(e, r, Size[e]) /\ ckpt' = ckpt /\ torn' = torn
              /\ log' = log \cup {LogEntry(e, r)}
              /\ cur' = [Target(e) EXCEPT !.offset = @ + Size[e]]
            BY <2>1, Zenon DEF AppendOk
        <3>2. Target(e) \in Position
            BY <1>0, AppendTypes
        <3>3. cur'.segment = Target(e).segment /\ cur'.offset = Target(e).offset + Size[e]
            BY <3>1, <3>2 DEF Position
        <3>. QED  BY <2>0, <3>1, <3>3, WriteReadInv
    <2>2. CASE Unwritten(e, r)
        <3>1. ckpt' = ckpt /\ log' = log /\ torn' = torn /\ up' = up /\ cur' = Target(e)
            BY <2>2, UnwrittenStep
        <3>2. CursorAt(disk, torn, cur') /\ cur'.segment \in Nat
            BY <2>0, <3>1, TargetCursor, Zenon
        <3>3. CASE disk' = disk
            BY <1>1, <3>1, <3>2, <3>3
        <3>4. ASSUME NEW S, S \subseteq Obsolete(disk, ckpt), disk' = RemoveFiles(disk, S)
              PROVE  ReadInv'
            BY <3>1, <3>2, <3>4, RemovalReadInv
        <3>. QED  BY <2>2, <3>3, <3>4, UnwrittenStep, Zenon
    <2>3. CASE AppendRolledBack(e, r)
        <3>1. /\ WritePrefix(e, r, 0) /\ ckpt' = ckpt /\ torn' = torn /\ log' = log
              /\ cur' = Target(e)
            BY <2>3, Zenon DEF AppendRolledBack, histVars
        <3>2. cur'.offset = Target(e).offset + 0
            BY <2>0, <3>1, TargetCursor
        <3>. QED  BY <2>0, <3>1, <3>2, WriteReadInv
    <2>4. ASSUME NEW k \in 1 .. Size[e], AppendTorn(e, r, k) PROVE ReadInv'
        <3>1. /\ WritePrefix(e, r, k) /\ ckpt' = ckpt /\ log' = log
              /\ torn' = torn \cup {Target(e).segment} /\ cur' = Target(e)
            BY <2>4, Zenon DEF AppendTorn
        <3>2. k \in 0 .. Size[e] /\ cur'.segment \in torn'
            BY <2>0, <2>4, <3>1
        <3>. QED  BY <2>0, <3>1, <3>2, WriteReadInv
    <2>5. ASSUME NEW k \in 0 .. Size[e], AppendCrash(e, r, k) PROVE ReadInv'
        <3>1. WritePrefix(e, r, k) /\ ckpt' = ckpt /\ up' = FALSE
            BY <2>5, Zenon DEF AppendCrash, ProcessGone
        <3>2. \/ k = 0 /\ log' = log /\ torn' = torn
              \/ k = Size[e] /\ log' = log \cup {LogEntry(e, r)} /\ torn' = torn
              \/ log' = log /\ torn' = torn \cup {Target(e).segment}
            <4>1. CASE k = Size[e]
                <5>1. k \notin 1 .. Size[e] - 1
                    BY <2>0, <4>1
                <5>. QED  BY <2>5, <4>1, <5>1, Zenon DEF AppendCrash
            <4>2. CASE k # Size[e] /\ k = 0
                <5>1. k \notin 1 .. Size[e] - 1
                    BY <2>0, <4>2
                <5>. QED  BY <2>5, <4>2, <5>1, Zenon DEF AppendCrash
            <4>3. CASE k # Size[e] /\ k # 0
                <5>1. k \in 1 .. Size[e] - 1
                    BY <2>0, <4>3
                <5>. QED  BY <2>5, <4>3, <5>1, Zenon DEF AppendCrash
            <4>. QED  BY <4>1, <4>2, <4>3
        <3>. QED  BY <2>0, <3>1, <3>2, WriteReadInv
    <2>. QED  BY <1>3, <2>1, <2>2, <2>3, <2>4, <2>5, Zenon DEF AppendStep, Unwritten
<1>4. CASE NextPending \/ UNCHANGED walVars
           \/ \E r \in Request : ReserveRequest(r) \/ DropReservation(r)
    <2>1. /\ disk' = disk /\ ckpt' = ckpt /\ log' = log /\ torn' = torn
          /\ up' = up /\ cur' = cur
        BY <1>4, Zenon
        DEF NextPending, ReserveRequest, DropReservation, walVars, diskVars, memVars, histVars
    <2>. QED  BY <1>1, <2>1 DEF ReadBackInv, ReadInv
<1>5. ASSUME NEW c \in claims, Acked(c) PROVE ReadInv'
    <2>1. /\ log' = log /\ torn' = torn /\ ckpt' = AckedCheckpoint(c)
          /\ CheckpointValid(disk, AckedCheckpoint(c))
          /\ up' => up' = up /\ cur' = cur
        BY <1>5, AckedStep DEF MayAcknowledge
    <2>2. PICK S : S \subseteq Obsolete(disk, ckpt') /\ disk' = RemoveFiles(disk, S)
        BY <1>5, AckedStep
    <2>3. ckpt' \in Checkpoint
        BY <1>0 DEF TypeInv, TypeOK
    <2>4. ckpt' # DefaultCheckpoint
        BY <2>1, ReadBackTypes DEF AckedCheckpoint, DefaultCheckpoint, Checkpoint
    <2>5. up' => CursorAt(disk, torn, cur') /\ cur'.segment \in Nat
        BY <2>1, ReadBackTypes DEF ReadBackInv, ReadInv
    <2>. QED  BY <2>1, <2>2, <2>3, <2>4, <2>5, RemovalReadInv
<1>6. CASE Crash
    <2>1. ckpt' = ckpt /\ log' = log /\ torn' = torn /\ up' = FALSE
        BY <1>6, Zenon DEF Crash, ProcessGone
    <2>2. CASE disk' = disk
        BY <1>1, <2>1, <2>2
    <2>3. CASE \E S \in SUBSET Obsolete(disk, ckpt) : disk' = RemoveFiles(disk, S)
        BY <2>1, <2>3, RemovalReadInv
    <2>. QED  BY <1>6, <2>2, <2>3, Zenon DEF Crash
<1>. QED  BY <1>2, <1>3, <1>4, <1>5, <1>6, Zenon DEF WalNext, Acked

LEMMA ReadBackAlways == WalSpec => []ReadBackInv
<1>1. WalInit => ReadBackInv
    <2>. SUFFICES ASSUME WalInit PROVE ReadBackInv
        OBVIOUS
    <2>1. DurableInv
        BY TypeInvInit DEF DurableInv, DurableUntilAcknowledged, WalInit
    <2>2. DOMAIN disk = {} /\ log = {} /\ ckpt = DefaultCheckpoint /\ up = FALSE
        BY DEF WalInit
    <2>3. ReadInv
        BY <2>2 DEF ReadInv, Readable, CheckpointValid
    <2>. QED  BY <2>1, <2>3 DEF ReadBackInv
<1>2. ReadBackInv /\ [WalNext]_walVars => ReadBackInv'
    BY TypeInvNext, DurableNext, ReadInvNext DEF ReadBackInv, DurableInv
<1>. QED  BY <1>1, <1>2, PTL DEF WalSpec

\* What next_pending hands out from a segment that is not torn.
LEMMA PendingReads ==
    ASSUME ReadBackInv, HasPending(disk, ckpt), Pending(disk, ckpt).segment \notin torn
    PROVE  LET item == Pending(disk, ckpt)
           IN  /\ item.record
               /\ \E rec \in log :
                     /\ rec.segment = item.segment /\ rec.pos = item.offset
                     /\ rec.id = disk[item.segment][item.offset + 1].id
                     /\ rec.segment \in DOMAIN disk /\ Stands(disk, rec)
                     /\ item.next = rec.pos + Size[rec.id]
<1>. DEFINE s == Min(PendingSegments(disk, ckpt))
            o == StartOffset(ckpt, s)
<1>1. s \in PendingSegments(disk, ckpt)
    BY ReadBackTypes, MinNat DEF HasPending, PendingSegments
<1>2. s \in DOMAIN disk /\ o < Len(disk[s]) /\ o \in Nat
    BY <1>1, ReadBackTypes DEF PendingSegments, StartOffset
<1>. HIDE DEF s, o
<1>3. Pending(disk, ckpt) = [segment |-> s, offset |-> o, next |-> LineEnd(disk[s], o),
                             record |-> IsRecordAt(disk[s], s, o)]
    BY Zenon DEF Pending, s, o
<1>4. Pending(disk, ckpt).segment = s
    BY <1>3
<1>5. IsBoundary(disk[s], o)
    <2>1. CASE o = 0
        BY <1>2, <2>1 DEF IsBoundary
    <2>2. CASE o # 0
        <3>1. s = ckpt.segment /\ o = ckpt.offset
            BY <2>2 DEF o, StartOffset
        <3>2. ckpt # DefaultCheckpoint
            BY <2>2, <3>1 DEF DefaultCheckpoint
        <3>. QED  BY <1>4, <3>1, <3>2 DEF ReadBackInv, ReadInv, CheckpointValid
    <2>. QED  BY <2>1, <2>2
<1>6. PICK rec \in log : rec.segment = s /\ rec.pos = o /\ Stands(disk, rec)
    <2>1. Readable(disk, log, torn)
        BY DEF ReadBackInv, ReadInv
    <2>. QED  BY <1>2, <1>4, <1>5, <2>1, ReadBackTypes, BoundaryStartsRecord
<1>7. /\ LineEnd(disk[s], o) = o + Size[rec.id] /\ IsRecordAt(disk[s], s, o)
      /\ disk[s][o + 1].id = rec.id
    BY <1>2, <1>6, ReadBackTypes, RecordRead
<1>8. /\ Pending(disk, ckpt).offset = o /\ Pending(disk, ckpt).next = LineEnd(disk[s], o)
      /\ Pending(disk, ckpt).record = IsRecordAt(disk[s], s, o)
    BY <1>3
<1>. QED  BY <1>2, <1>4, <1>6, <1>7, <1>8, Zenon

\* A segment that no torn write touched is no longer than segment_bytes and
\* reads back as the records appended to it: the frontier there is a
\* boundary, and what it points at is a logged record.
THEOREM ReadsBackWhatWasWritten == WalSpec => []UntornSegmentsReadBack
<1>1. ReadBackInv => UntornSegmentsReadBack
    <2>. SUFFICES ASSUME ReadBackInv PROVE UntornSegmentsReadBack
        OBVIOUS
    <2>1. \A s \in DOMAIN disk \ torn : Len(disk[s]) <= SegmentBytes
        BY DEF ReadBackInv, ReadInv, Readable, Filled
    <2>2. ckpt.segment \notin torn => CheckpointValid(disk, ckpt)
        BY DEF ReadBackInv, ReadInv
    <2>. QED  BY <2>1, <2>2, PendingReads, Zenon DEF UntornSegmentsReadBack
<1>. QED  BY <1>1, ReadBackAlways, PTL

-----------------------------------------------------------------------------
(* Items, tasks and attempts.                                              *)

LEMMA TaskFields ==
    ASSUME NEW c \in Claim, NEW n \in 0 .. 599
    PROVE  LET t == [claim |-> c, status |-> n, awaited |-> TRUE]
           IN  t \in Task /\ t.claim = c /\ t.status = n /\ t.awaited
<1>1. TRUE \in BOOLEAN
    OBVIOUS
<1>. QED  BY <1>1, Zenon DEF Task

LEMMA AttemptFields ==
    ASSUME NEW s \in Nat, NEW o \in Nat, NEW b \in BOOLEAN
    PROVE  LET m == [segment |-> s, offset |-> o, awaited |-> b]
           IN  m \in Attempt /\ m.segment = s /\ m.offset = o /\ m.awaited = b
BY Zenon DEF Attempt

\* Attempts that their sender waits for differ only in where they point.
LEMMA SameAttempt ==
    ASSUME NEW m \in Attempt, NEW n \in Attempt, m.awaited, n.awaited, At(m) = At(n)
    PROVE  m = n
<1>1. m.segment = n.segment /\ m.offset = n.offset
    BY DEF At
<1>2. /\ m = [segment |-> m.segment, offset |-> m.offset, awaited |-> m.awaited]
      /\ n = [segment |-> n.segment, offset |-> n.offset, awaited |-> n.awaited]
      /\ m.awaited \in BOOLEAN /\ n.awaited \in BOOLEAN
    BY DEF Attempt
<1>3. m.awaited = n.awaited
    BY <1>2, Zenon
<1>. QED  BY <1>1, <1>2, <1>3, Zenon

LEMMA AbandonedTask ==
    ASSUME NEW t \in Task
    PROVE  LET u == [t EXCEPT !.awaited = FALSE]
           IN  u \in Task /\ u.claim = t.claim /\ u.status = t.status /\ ~u.awaited
<1>1. FALSE \in BOOLEAN
    OBVIOUS
<1>. QED  BY <1>1, Zenon DEF Task

LEMMA AbandonedAttempt ==
    ASSUME NEW m \in Attempt
    PROVE  [m EXCEPT !.awaited = FALSE] \in Attempt /\ ~[m EXCEPT !.awaited = FALSE].awaited
<1>1. FALSE \in BOOLEAN
    OBVIOUS
<1>. QED  BY <1>1, Zenon DEF Attempt

\* A worker that is gone leaves its tasks to run with nobody waiting.
LEMMA AbandonedTasks ==
    ASSUME NEW S, S \subseteq Task
    PROVE  /\ Abandon(S) \subseteq Task
           /\ \A u \in Abandon(S) :
                 ~u.awaited /\ \E t \in S : u.claim = t.claim /\ u.status = t.status
BY AbandonedTask, Zenon DEF Abandon

LEMMA AbandonedAttempts ==
    ASSUME NEW S, S \subseteq Attempt
    PROVE  Abandon(S) \subseteq Attempt /\ \A m \in Abandon(S) : ~m.awaited
BY AbandonedAttempt, Zenon DEF Abandon

-----------------------------------------------------------------------------
(* Who holds what.                                                         *)

\* Nothing of a process survives it.
NothingRuns == ~up => claims = {} /\ tasks = {} /\ worker.pc = "idle"

\* Tasks and a busy worker hold items that next_pending handed out.
Owned ==
    /\ \A t \in tasks : t.claim \in claims
    /\ worker.pc \in {"send", "wait"} => worker.claim \in claims

\* The worker waits for one thing: the attempt it sent, or the one task.
OneAwaited ==
    /\ \A m \in net : m.awaited => worker.pc = "wait" /\ At(m) = At(worker.claim)
    /\ \A t \in tasks : t.awaited => worker.pc = "ack"
    /\ \A t \in tasks : \A u \in tasks : t.awaited /\ u.awaited => t = u

\* A task has a rejection to quarantine, or the API has the record, or the
\* item is malformed.
Justified ==
    \A t \in tasks :
        IF t.status = 0 THEN At(t.claim) \in api \/ ~t.claim.record ELSE t.status >= 200

DeliveryTyped == TypeInv /\ DeliveryTypeOK

ControlInv == DeliveryTyped /\ NothingRuns /\ Owned /\ OneAwaited /\ Justified

\* Every step of delivery is a step of the log.
LEMMA DeliveryIsWal == Owned /\ [Next]_vars => [WalNext]_walVars
<1>. SUFFICES ASSUME Owned, [Next]_vars PROVE [WalNext]_walVars
    OBVIOUS
<1>1. CASE Restart \/ ClaimNext \/ Snapshot
    BY <1>1, Zenon DEF Restart, ClaimNext, Snapshot, WalNext
<1>2. ASSUME NEW e \in Event, PersistDurableEvent(e) \/ PersistDurableDecisionLocal(e)
      PROVE  WalNext
    <2>1. AppendStep(e, NoRequest)
        BY <1>2, Zenon DEF PersistDurableEvent, PersistDurableDecisionLocal, AppendErrs, AppendStep
    <2>. QED  BY <2>1, Zenon DEF WalNext
<1>3. CASE \/ \E rec \in log : DeliverEnvelopeInline(rec)
           \/ SendAttempt \/ RejectUnsent \/ AttemptTimeout \/ AbortWorker
           \/ \E m \in net, code \in Status, echo \in BOOLEAN : ApiAnswer(m, code, echo)
    BY <1>3, Zenon DEF DeliverEnvelopeInline, SendAttempt, RejectUnsent, AttemptTimeout,
                       AbortWorker, ApiAnswer
<1>4. ASSUME NEW t \in tasks, RunTask(t) \/ FailTask(t) PROVE WalNext \/ UNCHANGED walVars
    BY <1>4, Zenon DEF RunTask, FailTask, WalNext, Owned
<1>5. CASE ProcessCrash
    <2>1. CASE Crash
        BY <2>1, Zenon DEF WalNext
    <2>2. ASSUME NEW e \in Event, NEW k \in 0 .. Size[e], AppendCrash(e, NoRequest, k)
          PROVE  WalNext
        <3>1. AppendStep(e, NoRequest)
            BY <2>2, Zenon DEF AppendStep
        <3>. QED  BY <3>1, Zenon DEF WalNext
    <2>3. ASSUME NEW t \in tasks, AcknowledgeCrash(t.claim) PROVE WalNext
        BY <2>3, Zenon DEF WalNext, Owned
    <2>. QED  BY <1>5, <2>1, <2>2, <2>3, DeliveryAssumption, Zenon DEF ProcessCrash
<1>6. CASE UNCHANGED vars
    BY <1>6, Zenon DEF vars
<1>. QED  BY <1>1, <1>2, <1>3, <1>4, <1>5, <1>6, DeliveryAssumption, Zenon DEF Next

\* What an append by the sink or without it leaves alone.
LEMMA PersistStep ==
    ASSUME NEW e, PersistDurableEvent(e) \/ PersistDurableDecisionLocal(e)
    PROVE  /\ worker' = worker /\ tasks' = tasks /\ net' = net /\ api' = api
           /\ perm' = perm /\ aborts' = aborts /\ up' = up /\ claims' = claims
           /\ ckpt' = ckpt /\ crashes' = crashes
           /\ persisted' = persisted \/ persisted' = persisted \cup {e}
           /\ \/ log' = log /\ persisted' = persisted
              \/ /\ log' = log \cup {LogEntry(e, NoRequest)}
                 /\ \/ PersistDurableEvent(e) /\ e \notin persisted /\ persisted' = persisted \cup {e}
                    \/ PersistDurableDecisionLocal(e) /\ persisted' = persisted
<1>1. /\ worker' = worker /\ tasks' = tasks /\ net' = net /\ api' = api
      /\ perm' = perm /\ aborts' = aborts
      /\ persisted' = persisted \/ persisted' = persisted \cup {e}
    BY Zenon DEF PersistDurableEvent, PersistDurableDecisionLocal, deliveryVars
<1>2. ASSUME AppendErrs(e)
      PROVE  /\ up' = up /\ claims' = claims /\ ckpt' = ckpt /\ crashes' = crashes /\ log' = log
    BY <1>2, Zenon DEF AppendErrs, AppendRefused, AppendCompactionFails, AppendNotOpened,
                       AppendRolledBack, AppendTorn, histVars
<1>3. ASSUME AppendOk(e, NoRequest)
      PROVE  /\ up' = up /\ claims' = claims /\ ckpt' = ckpt /\ crashes' = crashes
             /\ log' = log \cup {LogEntry(e, NoRequest)}
    BY <1>3, Zenon DEF AppendOk
<1>. QED  BY <1>1, <1>2, <1>3, Zenon
          DEF PersistDurableEvent, PersistDurableDecisionLocal, deliveryVars

\* The item that next_pending hands out.
LEMMA PendingClaim ==
    ASSUME TypeInv, NextPending
    PROVE  /\ Pending(disk, ckpt) \in Claim
           /\ claims' = claims \cup {Pending(disk, ckpt)} /\ up' = up /\ up
BY PendingType DEF TypeInv, TypeOK, NextPending

\* A quarantine document names the item and the rejection.
LEMMA QuarantineType ==
    ASSUME DeliveryTyped, Justified, NEW t \in tasks
    PROVE  /\ QuarantinePermanent(t) \subseteq [segment : Nat, offset : Nat, status : 200 .. 599]
           /\ perm \subseteq QuarantinePermanent(t)
           /\ t.status # 0 => \E doc \in QuarantinePermanent(t) : At(doc) = At(t.claim)
<1>. DEFINE q == [segment |-> t.claim.segment, offset |-> t.claim.offset, status |-> t.status]
            D == [segment : Nat, offset : Nat, status : 200 .. 599]
<1>1. t.claim.segment \in Nat /\ t.claim.offset \in Nat /\ t.status \in 0 .. 599
    BY DEF DeliveryTyped, DeliveryTypeOK, Task, Claim
<1>2. q.segment = t.claim.segment /\ q.offset = t.claim.offset /\ At(q) = At(t.claim)
    BY DEF At
<1>3. t.status # 0 => q \in D
    <2>1. t.status # 0 => t.status \in 200 .. 599
        BY <1>1 DEF Justified
    <2>. QED  BY <1>1, <2>1, Zenon
<1>4. perm \subseteq D
    BY DEF DeliveryTyped, DeliveryTypeOK
<1>5. \/ QuarantinePermanent(t) = perm /\ (t.status = 0 \/ \E doc \in perm : At(doc) = At(t.claim))
      \/ QuarantinePermanent(t) = perm \cup {q} /\ t.status # 0
    BY Zenon DEF QuarantinePermanent
<1>. HIDE DEF q, D
<1>6. QuarantinePermanent(t) \subseteq D /\ perm \subseteq QuarantinePermanent(t)
      /\ (t.status # 0 => \E doc \in QuarantinePermanent(t) : At(doc) = At(t.claim))
    BY <1>2, <1>3, <1>4, <1>5, Zenon
<1>. QED  BY <1>6, Zenon DEF D

-----------------------------------------------------------------------------
(* Control.                                                                *)

\* The types of what delivery adds to the log.
Side ==
    /\ persisted \subseteq Event
    /\ worker \in [pc : {"idle", "send", "wait", "ack"}, claim : Claim]
    /\ tasks \subseteq Task
    /\ net \subseteq Attempt
    /\ api \subseteq Position
    /\ perm \subseteq [segment : Nat, offset : Nat, status : 200 .. 599]
    /\ aborts \in 0 .. MaxAborts

Control == NothingRuns /\ Owned /\ OneAwaited /\ Justified

LEMMA SideOf == ControlInv <=> TypeInv /\ Side /\ Control
BY DEF ControlInv, DeliveryTyped, DeliveryTypeOK, Side, Control, TypeInv

\* A step that neither moves the worker nor adds a task.
LEMMA ControlKept ==
    ASSUME Control, worker' = worker, tasks' \subseteq tasks, claims \subseteq claims',
           up' = up, ~up => claims' = claims, api \subseteq api',
           \A m \in net' : m \in net \/ ~m.awaited
    PROVE  Control'
<1>1. NothingRuns'
    BY Zenon DEF Control, NothingRuns
<1>2. Owned'
    BY Zenon DEF Control, Owned
<1>3. OneAwaited'
    BY Zenon DEF Control, OneAwaited, At
<1>4. Justified'
    BY Zenon DEF Control, Justified, At
<1>. QED  BY <1>1, <1>2, <1>3, <1>4, Zenon DEF Control

\* The worker goes idle and nobody waits for anything.
LEMMA ControlIdle ==
    ASSUME Control, worker'.pc = "idle", api \subseteq api',
           \/ up' = up /\ claims' = claims
           \/ tasks' = {} /\ claims' = {},
           \A t \in tasks' :
              ~t.awaited /\ \E u \in tasks : t.claim = u.claim /\ t.status = u.status,
           \A m \in net' : ~m.awaited
    PROVE  Control'
<1>1. NothingRuns'
    <2>1. CASE up' = up /\ claims' = claims
        BY <2>1, Zenon DEF Control, NothingRuns
    <2>2. CASE tasks' = {} /\ claims' = {}
        BY <2>2, Zenon DEF NothingRuns
    <2>. QED  BY <2>1, <2>2
<1>2. Owned'
    <2>1. "idle" \notin {"send", "wait"}
        OBVIOUS
    <2>2. \A t \in tasks' : t.claim \in claims'
        <3>1. CASE claims' = claims
            BY <3>1, Zenon DEF Control, Owned
        <3>2. CASE tasks' = {}
            BY <3>2, Zenon
        <3>. QED  BY <3>1, <3>2
    <2>. QED  BY <2>1, <2>2, Zenon DEF Owned
<1>3. OneAwaited'
    BY Zenon DEF OneAwaited
<1>4. Justified'
    <2>. SUFFICES ASSUME NEW t \in tasks'
                  PROVE  IF t.status = 0 THEN At(t.claim) \in api' \/ ~t.claim.record
                                         ELSE t.status >= 200
        BY Zenon DEF Justified, At
    <2>1. PICK u \in tasks : t.claim = u.claim /\ t.status = u.status
        BY Zenon
    <2>. QED  BY <2>1, Zenon DEF Control, Justified
<1>. QED  BY <1>1, <1>2, <1>3, <1>4, Zenon DEF Control

\* The worker spawns a task and waits for it.
LEMMA ControlSpawn ==
    ASSUME Control, NEW c \in Claim, NEW n \in 0 .. 599, c \in claims', claims \subseteq claims',
           up, up' = up, worker.pc # "ack", worker'.pc = "ack",
           tasks' = tasks \cup {[claim |-> c, status |-> n, awaited |-> TRUE]},
           \A m \in net' : ~m.awaited, api \subseteq api',
           IF n = 0 THEN At(c) \in api' \/ ~c.record ELSE n >= 200
    PROVE  Control'
<1>. DEFINE x == [claim |-> c, status |-> n, awaited |-> TRUE]
<1>0. x.claim = c /\ x.status = n /\ x.awaited /\ tasks' = tasks \cup {x}
    BY TaskFields, Zenon
<1>. HIDE DEF x
<1>1. NothingRuns'
    BY Zenon DEF NothingRuns
<1>2. Owned'
    <2>1. "ack" \notin {"send", "wait"}
        OBVIOUS
    <2>. QED  BY <1>0, <2>1, Zenon DEF Control, Owned
<1>3. OneAwaited'
    <2>1. \A t \in tasks : ~t.awaited
        BY Zenon DEF Control, OneAwaited
    <2>. QED  BY <1>0, <2>1, Zenon DEF OneAwaited
<1>4. Justified'
    BY <1>0, Zenon DEF Control, Justified, At
<1>. QED  BY <1>1, <1>2, <1>3, <1>4, Zenon DEF Control

\* Where the worker may go.
LEMMA WorkerFields ==
    ASSUME NEW w \in [pc : {"idle", "send", "wait", "ack"}, claim : Claim],
           NEW pc \in {"idle", "send", "wait", "ack"}, NEW c \in Claim
    PROVE  /\ IdleWorker \in [pc : {"idle", "send", "wait", "ack"}, claim : Claim]
           /\ IdleWorker.pc = "idle"
           /\ [pc |-> pc, claim |-> c] \in [pc : {"idle", "send", "wait", "ack"}, claim : Claim]
           /\ [pc |-> pc, claim |-> c].pc = pc /\ [pc |-> pc, claim |-> c].claim = c
           /\ [w EXCEPT !.pc = pc] \in [pc : {"idle", "send", "wait", "ack"}, claim : Claim]
           /\ [w EXCEPT !.pc = pc].pc = pc /\ [w EXCEPT !.pc = pc].claim = w.claim
           /\ w.claim \in Claim
<1>1. NoClaim \in Claim
    <2>1. FALSE \in BOOLEAN /\ 0 \in Nat
        OBVIOUS
    <2>. QED  BY <2>1, Zenon DEF NoClaim, Claim
<1>2. "idle" \in {"idle", "send", "wait", "ack"}
    OBVIOUS
<1>3. IdleWorker \in [pc : {"idle", "send", "wait", "ack"}, claim : Claim] /\ IdleWorker.pc = "idle"
    BY <1>1, <1>2, Zenon DEF IdleWorker
<1>4. /\ [w EXCEPT !.pc = pc] \in [pc : {"idle", "send", "wait", "ack"}, claim : Claim]
      /\ [w EXCEPT !.pc = pc].pc = pc /\ [w EXCEPT !.pc = pc].claim = w.claim
    BY Zenon
<1>5. /\ [pc |-> pc, claim |-> c] \in [pc : {"idle", "send", "wait", "ack"}, claim : Claim]
      /\ [pc |-> pc, claim |-> c].pc = pc /\ [pc |-> pc, claim |-> c].claim = c /\ w.claim \in Claim
    BY Zenon
<1>. QED  BY <1>3, <1>4, <1>5, Zenon

\* The worker waits for no attempt unless its pc says so.
LEMMA NoneAwaited ==
    ASSUME Control
    PROVE  /\ worker.pc # "wait" => \A m \in net : ~m.awaited
           /\ worker.pc # "ack" => \A t \in tasks : ~t.awaited
BY Zenon DEF Control, OneAwaited

\* ClaimNext: an item to deliver, or a malformed one to acknowledge.
LEMMA ClaimNextControl ==
    ASSUME TypeInv, Side, Control, ClaimNext
    PROVE  Side' /\ Control'
<1>. DEFINE item == Pending(disk, ckpt)
<1>1. item \in Claim /\ claims' = claims \cup {item} /\ up' = up /\ up
    BY PendingClaim, Zenon DEF ClaimNext
<1>2. /\ worker.pc = "idle" /\ persisted' = persisted /\ net' = net /\ api' = api
      /\ perm' = perm /\ aborts' = aborts
    BY Zenon DEF ClaimNext
<1>3. IF item.record
      THEN worker' = [pc |-> "send", claim |-> item] /\ tasks' = tasks
      ELSE /\ worker' = [pc |-> "ack", claim |-> item]
           /\ tasks' = tasks \cup {[claim |-> item, status |-> 0, awaited |-> TRUE]}
    BY Zenon DEF ClaimNext
<1>. HIDE DEF item
<1>4. "send" \in {"idle", "send", "wait", "ack"} /\ "ack" \in {"idle", "send", "wait", "ack"}
      /\ "idle" # "wait" /\ "idle" # "ack" /\ 0 \in 0 .. 599
    OBVIOUS
<1>5. (\A m \in net : ~m.awaited) /\ (\A t \in tasks : ~t.awaited)
    BY <1>2, <1>4, NoneAwaited, Zenon
<1>8. worker \in [pc : {"idle", "send", "wait", "ack"}, claim : Claim]
    BY DEF Side
<1>6. CASE item.record
    <2>1. worker' \in [pc : {"idle", "send", "wait", "ack"}, claim : Claim]
          /\ worker'.pc = "send" /\ worker'.claim = item /\ tasks' = tasks
        <3>1. worker' = [pc |-> "send", claim |-> item] /\ tasks' = tasks
            BY <1>3, <1>6, Zenon
        <3>. QED  BY <1>1, <1>4, <1>8, <3>1, WorkerFields
    <2>2. Side'
        BY <1>2, <2>1, Zenon DEF Side
    <2>3. NothingRuns' /\ Owned' /\ OneAwaited' /\ Justified'
        BY <1>1, <1>2, <1>5, <2>1, Zenon DEF Control, NothingRuns, Owned, OneAwaited, Justified, At
    <2>. QED  BY <2>2, <2>3, Zenon DEF Control
<1>7. CASE ~item.record
    <2>1. worker' \in [pc : {"idle", "send", "wait", "ack"}, claim : Claim]
          /\ worker'.pc = "ack"
          /\ tasks' = tasks \cup {[claim |-> item, status |-> 0, awaited |-> TRUE]}
        <3>1. /\ worker' = [pc |-> "ack", claim |-> item]
              /\ tasks' = tasks \cup {[claim |-> item, status |-> 0, awaited |-> TRUE]}
            BY <1>3, <1>7, Zenon
        <3>. QED  BY <1>1, <1>4, <1>8, <3>1, WorkerFields
    <2>2. tasks' \subseteq Task
        <3>1. [claim |-> item, status |-> 0, awaited |-> TRUE] \in Task
            BY <1>1, <1>4, TaskFields, Zenon
        <3>2. tasks \subseteq Task
            BY Zenon DEF Side
        <3>. QED  BY <2>1, <3>1, <3>2, Zenon
    <2>3. Side'
        BY <1>2, <2>1, <2>2, Zenon DEF Side
    <2>4. item \in claims' /\ claims \subseteq claims' /\ worker.pc # "ack" /\ api \subseteq api'
          /\ (\A m \in net' : ~m.awaited)
        BY <1>1, <1>2, <1>4, <1>5, Zenon
    <2>5. IF 0 = 0 THEN At(item) \in api' \/ ~item.record ELSE 0 >= 200
        BY <1>7, Zenon
    <2>6. Control'
        BY <1>1, <1>4, <2>1, <2>4, <2>5, ControlSpawn, Zenon
    <2>. QED  BY <2>3, <2>6
<1>. QED  BY <1>6, <1>7

LEMMA SendAttemptControl ==
    ASSUME TypeInv, Side, Control, SendAttempt
    PROVE  Side' /\ Control'
<1>. DEFINE m == [segment |-> worker.claim.segment, offset |-> worker.claim.offset,
                  awaited |-> TRUE]
<1>1. /\ worker.pc = "send" /\ net' = net \cup {m} /\ worker' = [worker EXCEPT !.pc = "wait"]
      /\ persisted' = persisted /\ tasks' = tasks /\ api' = api /\ perm' = perm
      /\ aborts' = aborts /\ up' = up /\ claims' = claims
    BY Zenon DEF SendAttempt, walVars, memVars
<1>2. "wait" \in {"idle", "send", "wait", "ack"} /\ "send" # "wait" /\ "send" # "ack"
      /\ "send" # "idle" /\ TRUE \in BOOLEAN
      /\ "send" \in {"send", "wait"}
    OBVIOUS
<1>3. /\ worker' \in [pc : {"idle", "send", "wait", "ack"}, claim : Claim]
      /\ worker'.pc = "wait" /\ worker'.claim = worker.claim /\ worker.claim \in Claim
    <2>1. worker \in [pc : {"idle", "send", "wait", "ack"}, claim : Claim]
        BY DEF Side
    <2>2. worker.claim \in Claim
        BY <2>1
    <2>. QED  BY <1>1, <1>2, <2>1, <2>2, WorkerFields, Zenon
<1>4. worker.claim.segment \in Nat /\ worker.claim.offset \in Nat
    BY <1>3 DEF Claim
<1>5. m \in Attempt /\ m.segment = worker.claim.segment /\ m.offset = worker.claim.offset
      /\ m.awaited
    BY <1>2, <1>4, AttemptFields, Zenon
<1>. HIDE DEF m
<1>6. At(m) = At(worker'.claim)
    BY <1>3, <1>5, Zenon DEF At
<1>7. Side'
    BY <1>1, <1>3, <1>5, Zenon DEF Side
<1>8. (\A x \in net : ~x.awaited) /\ (\A t \in tasks : ~t.awaited)
    BY <1>1, <1>2, NoneAwaited, Zenon
<1>9. NothingRuns' /\ Owned'
    BY <1>1, <1>2, <1>3, Zenon DEF Control, NothingRuns, Owned
<1>10. OneAwaited'
    BY <1>1, <1>3, <1>6, <1>8, Zenon DEF OneAwaited, At
<1>11. Justified'
    BY <1>1, Zenon DEF Control, Justified, At
<1>. QED  BY <1>7, <1>9, <1>10, <1>11, Zenon DEF Control

LEMMA RejectUnsentControl ==
    ASSUME TypeInv, Side, Control, RejectUnsent
    PROVE  Side' /\ Control'
<1>1. /\ worker.pc = "send" /\ worker' = [worker EXCEPT !.pc = "ack"] /\ net' = net
      /\ tasks' = tasks \cup {[claim |-> worker.claim, status |-> 503, awaited |-> TRUE]}
      /\ persisted' = persisted /\ api' = api /\ perm' = perm
      /\ aborts' = aborts /\ up' = up /\ claims' = claims
    BY Zenon DEF RejectUnsent, walVars, memVars
<1>2. "ack" \in {"idle", "send", "wait", "ack"} /\ "send" # "wait" /\ "send" # "ack"
      /\ "send" # "idle" /\ 503 \in 0 .. 599 /\ 503 # 0 /\ 503 >= 200
      /\ "send" \in {"send", "wait"}
    OBVIOUS
<1>3. /\ worker' \in [pc : {"idle", "send", "wait", "ack"}, claim : Claim]
      /\ worker'.pc = "ack" /\ worker.claim \in Claim
    <2>1. worker \in [pc : {"idle", "send", "wait", "ack"}, claim : Claim]
        BY Zenon DEF Side
    <2>2. worker.claim \in Claim
        BY <2>1
    <2>3. /\ [worker EXCEPT !.pc = "ack"] \in [pc : {"idle", "send", "wait", "ack"}, claim : Claim]
          /\ [worker EXCEPT !.pc = "ack"].pc = "ack"
        BY <1>2, <2>1, <2>2, WorkerFields, ZenonT(30)
    <2>. QED  BY <1>1, <2>2, <2>3, Zenon
<1>4. tasks' \subseteq Task
    <2>1. [claim |-> worker.claim, status |-> 503, awaited |-> TRUE] \in Task
        BY <1>2, <1>3, TaskFields, Zenon
    <2>2. tasks \subseteq Task
        BY Zenon DEF Side
    <2>3. tasks' = tasks \cup {[claim |-> worker.claim, status |-> 503, awaited |-> TRUE]}
        BY <1>1, Zenon
    <2>. QED  BY <2>1, <2>2, <2>3, Zenon
<1>5. Side'
    BY <1>1, <1>3, <1>4, Zenon DEF Side
<1>6. worker.claim \in claims' /\ up
    BY <1>1, <1>2, Zenon DEF Control, Owned, NothingRuns
<1>7. (\A m \in net' : ~m.awaited) /\ worker.pc # "ack"
    BY <1>1, <1>2, NoneAwaited, Zenon
<1>8. IF 503 = 0 THEN At(worker.claim) \in api' \/ ~worker.claim.record ELSE 503 >= 200
    BY <1>2, Zenon
<1>9. claims \subseteq claims' /\ api \subseteq api'
    BY <1>1, Zenon
<1>10. Control'
    BY <1>1, <1>2, <1>3, <1>6, <1>7, <1>8, <1>9, ControlSpawn, Zenon
<1>. QED  BY <1>5, <1>10

\* An answer is accepted only when it proves the record committed.
LEMMA AcceptedCommits ==
    ASSUME NEW code \in Status, NEW echo \in BOOLEAN, Disposition(code, echo) = "accepted"
    PROVE  Commits(code, echo) = {TRUE}
<1>1. code \in 200 .. 299 /\ echo
    <2>1. "retry" # "accepted" /\ "permanent" # "accepted"
        OBVIOUS
    <2>. QED  BY <2>1, Zenon DEF Disposition
<1>. QED  BY <1>1, Zenon DEF Commits

LEMMA ApiAnswerControl ==
    ASSUME TypeInv, Side, Control, NEW m \in net, NEW code \in Status, NEW echo \in BOOLEAN,
           ApiAnswer(m, code, echo)
    PROVE  Side' /\ Control'
<1>1. /\ net' = net \ {m} /\ persisted' = persisted /\ perm' = perm /\ aborts' = aborts
      /\ up' = up /\ claims' = claims
      /\ \E commits \in Commits(code, echo) : api' = IF commits THEN api \cup {At(m)} ELSE api
      /\ IF m.awaited THEN HandleAnswer(code, echo) ELSE UNCHANGED <<worker, tasks>>
    BY Zenon DEF ApiAnswer, walVars, memVars
<1>2. api' = api \/ api' = api \cup {At(m)}
    BY <1>1, Zenon
<1>3. api \subseteq api' /\ api' \subseteq Position /\ net' \subseteq Attempt /\ m \in Attempt
    <2>1. m \in Attempt
        BY DEF Side
    <2>2. At(m) \in Position
        BY <2>1 DEF Attempt, At, Position
    <2>. QED  BY <1>1, <1>2, <2>1, <2>2, Zenon DEF Side
<1>4. worker \in [pc : {"idle", "send", "wait", "ack"}, claim : Claim] /\ tasks \subseteq Task
    BY DEF Side
<1>5. ASSUME worker' \in [pc : {"idle", "send", "wait", "ack"}, claim : Claim], tasks' \subseteq Task
      PROVE  Side'
    BY <1>1, <1>3, <1>5, Zenon DEF Side
<1>6. CASE ~m.awaited
    <2>1. worker' = worker /\ tasks' = tasks
        BY <1>1, <1>6, Zenon
    <2>2. Side'
        BY <1>4, <1>5, <2>1, Zenon
    <2>3. Control'
        BY <1>1, <1>3, <2>1, ControlKept, Zenon
    <2>. QED  BY <2>2, <2>3
<1>7. CASE m.awaited
    <2>1. worker.pc = "wait" /\ At(m) = At(worker.claim)
        BY <1>7, Zenon DEF Control, OneAwaited
    <2>2. \A n \in net' : ~n.awaited
        <3>1. ASSUME NEW n \in net, n.awaited PROVE n = m
            <4>1. At(n) = At(m) /\ n \in Attempt
                BY <2>1, <3>1, Zenon DEF Control, OneAwaited, Side
            <4>. QED  BY <1>3, <1>7, <3>1, <4>1, SameAttempt, Zenon
        <3>. QED  BY <1>1, <3>1, Zenon
    <2>3. "wait" # "ack" /\ "wait" \in {"send", "wait"} /\ "wait" # "idle"
          /\ "ack" \in {"idle", "send", "wait", "ack"} /\ "accepted" # "retry"
        OBVIOUS
    <2>4. up /\ worker.claim \in claims' /\ claims \subseteq claims' /\ worker.pc # "ack"
          /\ \A t \in tasks : ~t.awaited
        BY <1>1, <2>1, <2>3, NoneAwaited, Zenon DEF Control, Owned, NothingRuns
    <2>5. worker.claim \in Claim
        BY <1>4
    <2>6. ASSUME NEW n \in 0 .. 599, worker' = [worker EXCEPT !.pc = "ack"],
                 tasks' = tasks \cup {[claim |-> worker.claim, status |-> n, awaited |-> TRUE]},
                 IF n = 0 THEN At(worker.claim) \in api' \/ ~worker.claim.record ELSE n >= 200
          PROVE  Side' /\ Control'
        <3>1. worker' \in [pc : {"idle", "send", "wait", "ack"}, claim : Claim] /\ worker'.pc = "ack"
            BY <1>4, <2>3, <2>5, <2>6, WorkerFields, Zenon
        <3>2. [claim |-> worker.claim, status |-> n, awaited |-> TRUE] \in Task
            BY <2>5, TaskFields, Zenon
        <3>3. Side'
            BY <1>4, <1>5, <2>6, <3>1, <3>2, Zenon
        <3>4. Control'
            BY <1>1, <1>3, <2>2, <2>4, <2>5, <2>6, <3>1, ControlSpawn, Zenon
        <3>. QED  BY <3>3, <3>4
    <2>7. HandleAnswer(code, echo)
        BY <1>1, <1>7, Zenon
    <2>8. CASE Disposition(code, echo) = "accepted"
        <3>1. At(worker.claim) \in api'
            <4>1. Commits(code, echo) = {TRUE}
                BY <2>8, AcceptedCommits
            <4>2. api' = api \cup {At(m)}
                BY <1>1, <4>1, Zenon
            <4>. QED  BY <2>1, <4>2, Zenon
        <3>2. /\ worker' = [worker EXCEPT !.pc = "ack"]
              /\ tasks' = tasks \cup {[claim |-> worker.claim, status |-> 0, awaited |-> TRUE]}
            BY <2>3, <2>7, <2>8 DEF HandleAnswer
        <3>3. 0 \in 0 .. 599
            OBVIOUS
        <3>4. IF 0 = 0 THEN At(worker.claim) \in api' \/ ~worker.claim.record ELSE 0 >= 200
            BY <3>1, Zenon
        <3>. QED  BY <2>6, <3>2, <3>3, <3>4, Zenon
    <2>9. CASE Disposition(code, echo) = "retry"
        <3>1. worker' = IdleWorker /\ tasks' = tasks
            BY <2>3, <2>7, <2>9 DEF HandleAnswer
        <3>2. worker' \in [pc : {"idle", "send", "wait", "ack"}, claim : Claim] /\ worker'.pc = "idle"
            BY <1>4, <2>3, <2>5, <3>1, WorkerFields, Zenon
        <3>3. Side'
            BY <1>4, <1>5, <3>1, <3>2, Zenon
        <3>4. \A t \in tasks' :
                 ~t.awaited /\ \E u \in tasks : t.claim = u.claim /\ t.status = u.status
            BY <2>4, <3>1, Zenon
        <3>5. Control'
            BY <1>1, <1>3, <2>2, <3>2, <3>4, ControlIdle, Zenon
        <3>. QED  BY <3>3, <3>5
    <2>10. CASE Disposition(code, echo) \notin {"accepted", "retry"}
        <3>1. /\ worker' = [worker EXCEPT !.pc = "ack"]
              /\ tasks' = tasks \cup {[claim |-> worker.claim, status |-> code, awaited |-> TRUE]}
            BY <2>7, <2>10 DEF HandleAnswer
        <3>2. code \in 0 .. 599 /\ code # 0 /\ code >= 200
            BY DeliveryAssumption
        <3>3. IF code = 0 THEN At(worker.claim) \in api' \/ ~worker.claim.record ELSE code >= 200
            BY <3>2, Zenon
        <3>. QED  BY <2>6, <3>1, <3>2, <3>3, Zenon
    <2>. QED  BY <2>8, <2>9, <2>10
<1>. QED  BY <1>6, <1>7

\* A task ends, however it ended.
LEMMA TaskDoneControl ==
    ASSUME Side, Control, NEW t \in tasks, TaskDone(t), UNCHANGED <<persisted, net, api, aborts>>,
           perm' \in {perm, QuarantinePermanent(t)}, DeliveryTyped, up' = up, claims' = claims
    PROVE  Side' /\ Control'
<1>1. /\ tasks' = tasks \ {t} /\ worker' = IF t.awaited THEN IdleWorker ELSE worker
      /\ persisted' = persisted /\ net' = net /\ api' = api /\ aborts' = aborts
    BY Zenon DEF TaskDone
<1>2. worker \in [pc : {"idle", "send", "wait", "ack"}, claim : Claim] /\ worker.claim \in Claim
      /\ "idle" \in {"idle", "send", "wait", "ack"} /\ "ack" # "wait"
    BY DEF Side
<1>3. IdleWorker \in [pc : {"idle", "send", "wait", "ack"}, claim : Claim] /\ IdleWorker.pc = "idle"
    BY <1>2, WorkerFields, Zenon
<1>4. perm' \subseteq [segment : Nat, offset : Nat, status : 200 .. 599]
    <2>1. Justified /\ perm \subseteq [segment : Nat, offset : Nat, status : 200 .. 599]
        BY DEF Control, Side
    <2>2. QuarantinePermanent(t) \subseteq [segment : Nat, offset : Nat, status : 200 .. 599]
        BY <2>1, QuarantineType
    <2>. QED  BY <2>1, <2>2
<1>5. worker' \in [pc : {"idle", "send", "wait", "ack"}, claim : Claim]
    <2>1. CASE t.awaited
        BY <1>1, <1>3, <2>1, Zenon
    <2>2. CASE ~t.awaited
        BY <1>1, <1>2, <2>2, Zenon
    <2>. QED  BY <2>1, <2>2
<1>6. Side'
    <2>1. /\ persisted' \subseteq Event /\ tasks' \subseteq Task /\ net' \subseteq Attempt
          /\ api' \subseteq Position /\ aborts' \in 0 .. MaxAborts
        BY <1>1 DEF Side
    <2>. QED  BY <1>4, <1>5, <2>1 DEF Side
<1>7. CASE t.awaited
    <2>1. worker'.pc = "idle"
        BY <1>1, <1>3, <1>7, Zenon
    <2>2. worker.pc = "ack" /\ \A m \in net' : ~m.awaited
        BY <1>1, <1>2, <1>7, NoneAwaited, Zenon DEF Control, OneAwaited
    <2>3. \A u \in tasks' : ~u.awaited /\ \E v \in tasks : u.claim = v.claim /\ u.status = v.status
        BY <1>1, <1>7, Zenon DEF Control, OneAwaited
    <2>4. Control'
        BY <1>1, <2>1, <2>2, <2>3, ControlIdle, Zenon
    <2>. QED  BY <1>6, <2>4
<1>8. CASE ~t.awaited
    <2>1. worker' = worker /\ tasks' \subseteq tasks /\ api \subseteq api' /\ claims \subseteq claims'
        BY <1>1, <1>8, Zenon
    <2>2. Control'
        BY <1>1, <2>1, ControlKept, Zenon
    <2>. QED  BY <1>6, <2>2
<1>. QED  BY <1>7, <1>8

\* A crash leaves nothing but what is on disk and on the network.
LEMMA ProcessCrashControl ==
    ASSUME TypeInv, Side, Control, ProcessCrash
    PROVE  Side' /\ Control'
<1>1. /\ persisted' = {} /\ worker' = IdleWorker /\ tasks' = {} /\ net' = Abandon(net)
      /\ api' = api /\ aborts' = aborts
    BY Zenon DEF ProcessCrash, WorkerGone
<1>2. ProcessGone /\ (perm' = perm \/ \E t \in tasks : perm' = QuarantinePermanent(t))
    BY Zenon DEF ProcessCrash, Crash, AppendCrash, AcknowledgeCrash
<1>3. claims' = {} /\ up' = FALSE
    BY <1>2, Zenon DEF ProcessGone
<1>4. DeliveryTyped /\ Justified
    BY SideOf, Zenon DEF ControlInv
<1>5. perm' \subseteq [segment : Nat, offset : Nat, status : 200 .. 599]
    <2>1. perm \subseteq [segment : Nat, offset : Nat, status : 200 .. 599]
        BY DEF Side
    <2>2. \A t \in tasks :
             QuarantinePermanent(t) \subseteq [segment : Nat, offset : Nat, status : 200 .. 599]
        BY <1>4, QuarantineType
    <2>. QED  BY <1>2, <2>1, <2>2
<1>6. worker \in [pc : {"idle", "send", "wait", "ack"}, claim : Claim] /\ worker.claim \in Claim
      /\ "idle" \in {"idle", "send", "wait", "ack"}
    BY DEF Side
<1>7. IdleWorker \in [pc : {"idle", "send", "wait", "ack"}, claim : Claim] /\ IdleWorker.pc = "idle"
    BY <1>6, WorkerFields, Zenon
<1>8. net' \subseteq Attempt /\ \A m \in net' : ~m.awaited
    BY <1>1, AbandonedAttempts, Zenon DEF Side
<1>9. Side'
    BY <1>1, <1>5, <1>7, <1>8, Zenon DEF Side
<1>10. Control'
    BY <1>1, <1>3, <1>7, <1>8, ControlIdle, Zenon
<1>. QED  BY <1>9, <1>10

\* The worker stops waiting, on a timeout or because it is aborted.
LEMMA AbandonControl ==
    ASSUME TypeInv, Side, Control, AttemptTimeout \/ AbortWorker
    PROVE  Side' /\ Control'
<1>1. /\ worker' = IdleWorker /\ net' = Abandon(net) /\ persisted' = persisted
      /\ api' = api /\ perm' = perm /\ up' = up /\ claims' = claims
    BY Zenon DEF AttemptTimeout, AbortWorker, walVars, memVars
<1>2. worker \in [pc : {"idle", "send", "wait", "ack"}, claim : Claim] /\ worker.claim \in Claim
      /\ "idle" \in {"idle", "send", "wait", "ack"} /\ "wait" # "ack"
    BY DEF Side
<1>3. IdleWorker \in [pc : {"idle", "send", "wait", "ack"}, claim : Claim] /\ IdleWorker.pc = "idle"
    BY <1>2, WorkerFields, Zenon
<1>4. net' \subseteq Attempt /\ \A m \in net' : ~m.awaited
    BY <1>1, AbandonedAttempts, Zenon DEF Side
<1>5. aborts' \in 0 .. MaxAborts
    <2>1. CASE AttemptTimeout
        BY <2>1, Zenon DEF AttemptTimeout, Side
    <2>2. CASE AbortWorker
        <3>1. aborts < MaxAborts /\ aborts' = aborts + 1 /\ aborts \in 0 .. MaxAborts
            BY <2>2, Zenon DEF AbortWorker, Side
        <3>. QED  BY <3>1, DeliveryAssumption
    <2>. QED  BY <2>1, <2>2
<1>6. tasks' \subseteq Task
      /\ \A t \in tasks' : ~t.awaited /\ \E u \in tasks : t.claim = u.claim /\ t.status = u.status
    <2>1. CASE AttemptTimeout
        <3>1. tasks' = tasks /\ worker.pc = "wait"
            BY <2>1, Zenon DEF AttemptTimeout
        <3>2. \A t \in tasks : ~t.awaited
            BY <1>2, <3>1, NoneAwaited, Zenon
        <3>. QED  BY <3>1, <3>2, Zenon DEF Side
    <2>2. CASE AbortWorker
        <3>1. tasks' = Abandon(tasks)
            BY <2>2, Zenon DEF AbortWorker
        <3>. QED  BY <3>1, AbandonedTasks, Zenon DEF Side
    <2>. QED  BY <2>1, <2>2
<1>7. Side'
    BY <1>1, <1>3, <1>4, <1>5, <1>6, Zenon DEF Side
<1>8. Control'
    BY <1>1, <1>3, <1>4, <1>6, ControlIdle, Zenon
<1>. QED  BY <1>7, <1>8

LEMMA ControlNext == ControlInv /\ [Next]_vars => ControlInv'
<1>. SUFFICES ASSUME ControlInv, [Next]_vars PROVE ControlInv'
    OBVIOUS
<1>0. TypeInv /\ Side /\ Control /\ DeliveryTyped
    BY SideOf, Zenon DEF ControlInv
<1>1. TypeInv'
    BY <1>0, DeliveryIsWal, TypeInvNext, Zenon DEF Control
<1>. SUFFICES Side' /\ Control'
    BY <1>1, Zenon DEF ControlInv, DeliveryTyped, DeliveryTypeOK, Side, Control, TypeInv
<1>2. CASE Restart
    <2>1. UNCHANGED deliveryVars /\ ~up /\ claims' = {} /\ up' = TRUE
        BY <1>2, Zenon DEF Restart, Open
    <2>2. /\ worker' = worker /\ tasks' = tasks /\ net' = net /\ api' = api
          /\ persisted' = persisted /\ perm' = perm /\ aborts' = aborts
        BY <2>1, Zenon DEF deliveryVars
    <2>3. worker'.pc = "idle" /\ tasks' = {}
        BY <1>0, <2>1, <2>2, Zenon DEF Control, NothingRuns
    <2>4. \A m \in net' : ~m.awaited
        <3>1. "idle" # "wait"
            OBVIOUS
        <3>. QED  BY <1>0, <2>2, <2>3, <3>1, NoneAwaited, Zenon
    <2>5. Side'
        BY <1>0, <2>2, Zenon DEF Side
    <2>6. Control'
        BY <1>0, <2>1, <2>2, <2>3, <2>4, ControlIdle, Zenon
    <2>. QED  BY <2>5, <2>6
<1>3. ASSUME NEW e \in Event, PersistDurableEvent(e) \/ PersistDurableDecisionLocal(e)
      PROVE  Side' /\ Control'
    <2>1. /\ worker' = worker /\ tasks' = tasks /\ net' = net /\ api' = api
          /\ perm' = perm /\ aborts' = aborts /\ up' = up /\ claims' = claims
        BY <1>3, PersistStep
    <2>2. persisted' = persisted \/ persisted' = persisted \cup {e}
        BY <1>3, PersistStep
    <2>3. Side'
        BY <1>0, <2>1, <2>2, Zenon DEF Side
    <2>4. Control'
        BY <1>0, <2>1, ControlKept, Zenon
    <2>. QED  BY <2>3, <2>4
<1>4. ASSUME NEW rec \in log, DeliverEnvelopeInline(rec) PROVE Side' /\ Control'
    <2>. DEFINE m == [segment |-> rec.segment, offset |-> rec.pos, awaited |-> FALSE]
    <2>1. /\ worker' = worker /\ tasks' = tasks /\ net' = net \cup {m} /\ api' = api
          /\ persisted' = persisted /\ perm' = perm /\ aborts' = aborts
          /\ up' = up /\ claims' = claims
        BY <1>4, Zenon DEF DeliverEnvelopeInline, walVars, memVars
    <2>2. rec.segment \in Nat /\ rec.pos \in Nat /\ FALSE \in BOOLEAN
        BY <1>0 DEF TypeInv, TypeOK, LogRecord
    <2>3. m \in Attempt /\ ~m.awaited
        BY <2>2, AttemptFields, Zenon
    <2>. HIDE DEF m
    <2>4. Side'
        BY <1>0, <2>1, <2>3, Zenon DEF Side
    <2>5. Control'
        BY <1>0, <2>1, <2>3, ControlKept, Zenon
    <2>. QED  BY <2>4, <2>5
<1>5. CASE ClaimNext
    BY <1>0, <1>5, ClaimNextControl
<1>6. CASE SendAttempt \/ RejectUnsent
    BY <1>0, <1>6, SendAttemptControl, RejectUnsentControl
<1>7. CASE AttemptTimeout \/ AbortWorker
    BY <1>0, <1>7, AbandonControl
<1>8. ASSUME NEW m \in net, NEW code \in Status, NEW echo \in BOOLEAN, ApiAnswer(m, code, echo)
      PROVE  Side' /\ Control'
    BY <1>0, <1>8, ApiAnswerControl
<1>9. ASSUME NEW t \in tasks, RunTask(t) \/ FailTask(t) PROVE Side' /\ Control'
    <2>1. /\ TaskDone(t) /\ UNCHANGED <<persisted, net, api, aborts>>
          /\ perm' \in {perm, QuarantinePermanent(t)} /\ up' = up /\ claims' = claims
        BY <1>9, Zenon DEF RunTask, FailTask, Acknowledge, AcknowledgeFails, walVars, memVars
    <2>. QED  BY <1>0, <2>1, TaskDoneControl, Zenon
<1>10. CASE Snapshot
    <2>1. UNCHANGED deliveryVars /\ claims \subseteq claims' /\ up' = up /\ up
        BY <1>0, <1>10, PendingClaim, Zenon DEF Snapshot
    <2>2. /\ worker' = worker /\ tasks' = tasks /\ net' = net /\ api' = api
          /\ persisted' = persisted /\ perm' = perm /\ aborts' = aborts
        BY <2>1, Zenon DEF deliveryVars
    <2>3. Side'
        BY <1>0, <2>2, Zenon DEF Side
    <2>4. Control'
        BY <1>0, <2>1, <2>2, ControlKept, Zenon
    <2>. QED  BY <2>3, <2>4
<1>11. CASE ProcessCrash
    BY <1>0, <1>11, ProcessCrashControl
<1>12. CASE UNCHANGED vars
    <2>1. /\ worker' = worker /\ tasks' = tasks /\ net' = net /\ api' = api
          /\ persisted' = persisted /\ perm' = perm /\ aborts' = aborts
          /\ up' = up /\ claims' = claims
        BY <1>12, Zenon DEF vars, deliveryVars, walVars, memVars
    <2>2. Side'
        BY <1>0, <2>1, Zenon DEF Side
    <2>3. Control'
        BY <1>0, <2>1, ControlKept, Zenon
    <2>. QED  BY <2>2, <2>3
<1>. QED  BY <1>2, <1>3, <1>4, <1>5, <1>6, <1>7, <1>8, <1>9, <1>10, <1>11, <1>12,
             DeliveryAssumption, Zenon DEF Next

LEMMA ControlAlways == Spec => []ControlInv
<1>1. Init => ControlInv
    <2>. SUFFICES ASSUME Init PROVE ControlInv
        OBVIOUS
    <2>1. TypeInv
        BY TypeInvInit DEF Init
    <2>2. IdleWorker \in [pc : {"idle", "send", "wait", "ack"}, claim : Claim] /\ IdleWorker.pc = "idle"
        BY DEF IdleWorker, NoClaim, Claim
    <2>3. /\ persisted = {} /\ worker = IdleWorker /\ tasks = {} /\ net = {} /\ api = {}
          /\ perm = {} /\ aborts = 0 /\ claims = {}
        BY Zenon DEF Init, WalInit
    <2>4. 0 \in 0 .. MaxAborts /\ "idle" \notin {"send", "wait"}
        BY DeliveryAssumption
    <2>5. Side
        BY <2>2, <2>3, <2>4, Zenon DEF Side
    <2>6. Control
        BY <2>2, <2>3, <2>4, Zenon DEF Control, NothingRuns, Owned, OneAwaited, Justified
    <2>. QED  BY <2>1, <2>5, <2>6, SideOf, Zenon
<1>. QED  BY <1>1, ControlNext, PTL DEF Spec

\* Every variable of delivery keeps its type: a worker holds an item of the
\* log whatever the network, an abort or a crash does to it.
THEOREM DeliveryTypeCorrect == Spec => []DeliveryTypeOK
<1>1. ControlInv => DeliveryTypeOK
    BY DEF ControlInv, DeliveryTyped
<1>. QED  BY <1>1, ControlAlways, PTL

\* Delivery uses the log as its readers may: every step of the sink, of the
\* worker, of a task that outlives its worker and of a crash is one step of
\* the log's own specification, or none.  What is proved of the log
\* (durability, reading back, capacity, the frontier) holds under delivery.
THEOREM DeliveryImplementsWal == Spec => WalSpec
<1>1. Init => WalInit
    BY DEF Init
<1>2. ControlInv /\ [Next]_vars => [WalNext]_walVars
    BY DeliveryIsWal, Zenon DEF ControlInv
<1>. QED  BY <1>1, <1>2, ControlAlways, PTL DEF Spec, WalSpec

-----------------------------------------------------------------------------
(* What a step of the log leaves as it was.                                *)

\* A new record goes to the end of the last segment.
LastPlace(rec) ==
    /\ rec.segment \in Nat
    /\ rec.pos = Len(File(disk, rec.segment))
    /\ \A s \in DOMAIN disk : s <= rec.segment
    /\ ckpt.segment <= rec.segment

LEMMA EntryLast ==
    ASSUME ReadBackInv, up, NEW e \in Event, NEW r
    PROVE  LastPlace(LogEntry(e, r))
<1>. DEFINE s == Target(e).segment
<1>1. s \in Nat /\ ckpt.segment <= s /\ \A t \in DOMAIN disk : t <= s
    BY TargetCursor DEF CursorAt
<1>2. TargetFile(e, r) = File(disk, s)
    <2>1. s >= ckpt.segment
        BY <1>1, ReadBackTypes
    <2>. QED  BY <1>1, <2>1, CompactedFiles DEF TargetFile
<1>3. LogEntry(e, r).segment = s /\ LogEntry(e, r).pos = Len(TargetFile(e, r))
    BY DEF LogEntry
<1>. HIDE DEF s
<1>. QED  BY <1>1, <1>2, <1>3, Zenon DEF LastPlace

\* Files are kept from the new frontier on.
LEMMA RemovedFrame ==
    ASSUME ReadBackInv, ckpt' \in Checkpoint, NEW S, disk' = RemoveFiles(disk, S),
           S \subseteq Obsolete(disk, ckpt')
    PROVE  \A s \in DOMAIN disk : s >= ckpt'.segment => Keeps(disk', s)
<1>. SUFFICES ASSUME NEW s \in DOMAIN disk, s >= ckpt'.segment PROVE Keeps(disk', s)
    OBVIOUS
<1>1. s \in Nat /\ ckpt'.segment \in Nat /\ TypeInv
    BY ReadBackTypes DEF Checkpoint
<1>2. s \notin S
    BY <1>1 DEF Obsolete
<1>. QED  BY <1>1, <1>2, RemovalKeeps

\* Every step: the frontier and the torn segments only advance, the files
\* from the new frontier on are kept, and a new record goes to the end.
LEMMA WalFrame ==
    ASSUME ReadBackInv, [WalNext]_walVars
    PROVE  /\ ckpt' \in Checkpoint
           /\ ~Precedes(ckpt'.segment, ckpt'.offset, ckpt.segment, ckpt.offset)
           /\ torn \subseteq torn'
           /\ \A s \in DOMAIN disk : s >= ckpt'.segment => Keeps(disk', s)
           /\ log \subseteq log'
           /\ \/ log' = log
              \/ ckpt' = ckpt /\ \E rec : log' = log \cup {rec} /\ LastPlace(rec)
           /\ claims' \subseteq claims \/ NextPending
<1>0. TypeInv /\ ckpt' \in Checkpoint /\ ckpt \in Checkpoint
    BY TypeInvNext, ReadBackTypes DEF TypeInv, TypeOK
<1>1. ckpt' = ckpt => ~Precedes(ckpt'.segment, ckpt'.offset, ckpt.segment, ckpt.offset)
    BY <1>0 DEF Precedes, Checkpoint
<1>. DEFINE Goal ==
           /\ ~Precedes(ckpt'.segment, ckpt'.offset, ckpt.segment, ckpt.offset)
           /\ torn \subseteq torn'
           /\ \A s \in DOMAIN disk : s >= ckpt'.segment => Keeps(disk', s)
           /\ log \subseteq log'
           /\ \/ log' = log
              \/ ckpt' = ckpt /\ \E rec : log' = log \cup {rec} /\ LastPlace(rec)
           /\ claims' \subseteq claims \/ NextPending
<1>2. ASSUME disk' = disk, ckpt' = ckpt, log' = log, torn' = torn,
             claims' \subseteq claims \/ NextPending
      PROVE  Goal
    <2>1. \A s \in DOMAIN disk : Keeps(disk', s)
        <3>1. \A s \in DOMAIN disk : Len(disk[s]) \in Nat
            BY ReadBackTypes, LenProperties
        <3>. QED  BY <1>2, <3>1 DEF Keeps
    <2>. QED  BY <1>1, <1>2, <2>1, Zenon
<1>3. ASSUME NEW e \in Event, NEW r, NEW k \in 0 .. Size[e], WritePrefix(e, r, k), up,
             ckpt' = ckpt, torn \subseteq torn', claims' \subseteq claims,
             log' = log \/ log' = log \cup {LogEntry(e, r)}
      PROVE  Goal
    <2>1. \A s \in DOMAIN disk : s >= ckpt'.segment => Keeps(disk', s)
        BY <1>0, <1>3, WriteKeeps
    <2>2. LastPlace(LogEntry(e, r))
        BY <1>3, EntryLast
    <2>. QED  BY <1>1, <1>3, <2>1, <2>2, Zenon
<1>4. ASSUME log' = log, torn' = torn, claims' \subseteq claims,
             NEW S, disk' = RemoveFiles(disk, S), S \subseteq Obsolete(disk, ckpt'),
             ~Precedes(ckpt'.segment, ckpt'.offset, ckpt.segment, ckpt.offset)
      PROVE  Goal
    <2>1. \A s \in DOMAIN disk : s >= ckpt'.segment => Keeps(disk', s)
        BY <1>0, <1>4, RemovedFrame
    <2>. QED  BY <1>4, <2>1, Zenon
<1>5. ASSUME NEW e \in Event, NEW r \in Request \cup {NoRequest}, AppendStep(e, r)
      PROVE  Goal
    <2>. HIDE DEF Goal
    <2>0. Size[e] \in Nat /\ Size[e] \in 0 .. Size[e] /\ 0 \in 0 .. Size[e] /\ up
        BY <1>5, SizeAssumption
        DEF AppendStep, AppendOk, AppendRefused, AppendCompactionFails, AppendNotOpened,
            AppendRolledBack, AppendTorn, AppendCrash, MayAppend
    <2>1. CASE AppendOk(e, r)
        BY <1>3, <2>0, <2>1 DEF AppendOk
    <2>2. CASE Unwritten(e, r)
        <3>1. CASE disk' = disk
            BY <1>2, <2>2, <3>1, UnwrittenStep
        <3>2. ASSUME NEW S, S \subseteq Obsolete(disk, ckpt), disk' = RemoveFiles(disk, S)
              PROVE  Goal
            BY <1>1, <1>4, <2>2, <3>2, UnwrittenStep
        <3>. QED  BY <2>2, <3>1, <3>2, UnwrittenStep, Zenon
    <2>3. CASE AppendRolledBack(e, r)
        BY <1>3, <2>0, <2>3 DEF AppendRolledBack, histVars
    <2>4. ASSUME NEW k \in 1 .. Size[e], AppendTorn(e, r, k) PROVE Goal
        BY <1>3, <2>0, <2>4 DEF AppendTorn
    <2>5. ASSUME NEW k \in 0 .. Size[e], AppendCrash(e, r, k) PROVE Goal
        <3>1. /\ WritePrefix(e, r, k) /\ ckpt' = ckpt /\ claims' = {}
              /\ log' = log \/ log' = log \cup {LogEntry(e, r)}
              /\ torn \subseteq torn'
            BY <2>5, Zenon DEF AppendCrash, ProcessGone
        <3>. QED  BY <1>3, <2>0, <3>1
    <2>. QED  BY <1>5, <2>1, <2>2, <2>3, <2>4, <2>5, Zenon DEF AppendStep, Unwritten
<1>6. ASSUME \/ Open \/ NextPending \/ UNCHANGED walVars
             \/ \E r \in Request : ReserveRequest(r) \/ DropReservation(r)
      PROVE  Goal
    <2>. HIDE DEF Goal
    <2>1. /\ disk' = disk /\ ckpt' = ckpt /\ log' = log /\ torn' = torn
          /\ claims' \subseteq claims \/ NextPending
        BY <1>6, Zenon
        DEF Open, ReserveRequest, DropReservation, NextPending, walVars, diskVars, memVars, histVars
    <2>. QED  BY <1>2, <2>1, Zenon
<1>7. ASSUME NEW c \in claims, Acked(c) PROVE Goal
    <2>. HIDE DEF Goal
    <2>1. ~Precedes(ckpt'.segment, ckpt'.offset, ckpt.segment, ckpt.offset)
        <3>1. MayAcknowledge(c) /\ ckpt' = AckedCheckpoint(c)
            BY <1>7, AckedStep, Zenon
        <3>2. ckpt'.segment = c.segment /\ ckpt'.offset = c.next
            BY <3>1 DEF AckedCheckpoint
        <3>. QED  BY <3>1, <3>2 DEF MayAcknowledge
    <2>. QED  BY <1>4, <1>7, <2>1, AckedStep
<1>8. ASSUME Crash PROVE Goal
    <2>. HIDE DEF Goal
    <2>1. ckpt' = ckpt /\ log' = log /\ torn' = torn /\ claims' = {}
        BY <1>8, Zenon DEF Crash, ProcessGone
    <2>2. CASE disk' = disk
        BY <1>2, <2>1, <2>2
    <2>3. CASE \E S \in SUBSET Obsolete(disk, ckpt) : disk' = RemoveFiles(disk, S)
        BY <1>1, <1>4, <2>1, <2>3
    <2>. QED  BY <1>8, <2>2, <2>3, Zenon DEF Crash
<1>9. Goal
    <2>. HIDE DEF Goal
    <2>. QED  BY <1>5, <1>6, <1>7, <1>8, Zenon DEF WalNext, Acked
<1>. QED  BY <1>0, <1>9

-----------------------------------------------------------------------------
(* What a claimed item still means when it is acknowledged.                *)

\* The item ends within its file, unless the file is behind the frontier and
\* may be gone; it is malformed only in a torn segment; and of the records
\* before its end, all are passed already or lie in it (in a segment that is
\* not torn, it is the only one), so none is skipped by its acknowledgement.
ClaimGood(c) ==
    /\ \/ c.segment \in DOMAIN disk /\ c.next <= Len(disk[c.segment])
       \/ c.segment < ckpt.segment
    /\ c.segment \notin torn => c.record
    /\ \A rec \in log :
          rec.segment \notin torn /\ Precedes(rec.segment, rec.pos, c.segment, c.next) =>
              Behind(rec, ckpt) \/ PosOf(rec) = At(c)
    /\ \A rec \in log :
          Precedes(rec.segment, rec.pos, c.segment, c.next) =>
              Behind(rec, ckpt) \/ (rec.segment = c.segment /\ c.offset <= rec.pos)

ClaimInv == \A c \in claims : ClaimGood(c)

LEMMA ClaimKept ==
    ASSUME ReadBackInv, [WalNext]_walVars, NEW c \in Claim, ClaimGood(c)
    PROVE  ClaimGood(c)'
<1>0. /\ c.segment \in Nat /\ c.next \in Nat /\ c.offset \in Nat
      /\ ckpt.segment \in Nat /\ ckpt.offset \in Nat
      /\ DOMAIN disk \subseteq Nat
      /\ \A s \in DOMAIN disk : Len(disk[s]) \in Nat
    BY ReadBackTypes, LenProperties DEF Claim
<1>1. /\ ckpt'.segment \in Nat /\ ckpt'.offset \in Nat
      /\ ~Precedes(ckpt'.segment, ckpt'.offset, ckpt.segment, ckpt.offset)
    BY WalFrame DEF Checkpoint
<1>2. ckpt.segment <= ckpt'.segment
    BY <1>0, <1>1 DEF Precedes
<1>3. \/ c.segment \in DOMAIN disk' /\ c.next <= Len(disk'[c.segment])
      \/ c.segment < ckpt'.segment
    <2>1. CASE c.segment < ckpt'.segment
        BY <2>1
    <2>2. CASE c.segment >= ckpt'.segment
        <3>1. c.segment \in DOMAIN disk /\ c.next <= Len(disk[c.segment])
            BY <1>0, <1>1, <1>2, <2>2 DEF ClaimGood
        <3>2. Keeps(disk', c.segment)
            BY <2>2, <3>1, WalFrame
        <3>3. disk' = disk' /\ c.segment \in DOMAIN disk'
              /\ Len(disk[c.segment]) <= Len(disk'[c.segment])
            BY <3>2 DEF Keeps
        <3>4. Len(disk'[c.segment]) \in Nat
            <4>1. TypeInv'
                BY TypeInvNext, ReadBackTypes
            <4>. QED  BY <3>3, <4>1, LenProperties DEF TypeInv, TypeOK
        <3>. QED  BY <1>0, <3>1, <3>3, <3>4
    <2>. QED  BY <1>0, <1>1, <2>1, <2>2
<1>4. c.segment \notin torn' => c.record
    BY WalFrame DEF ClaimGood
<1>5. ASSUME NEW rec \in log', Precedes(rec.segment, rec.pos, c.segment, c.next)
      PROVE  /\ rec.segment \notin torn' => Behind(rec, ckpt') \/ PosOf(rec) = At(c)
             /\ Behind(rec, ckpt') \/ (rec.segment = c.segment /\ c.offset <= rec.pos)
    <2>1. CASE rec \in log
        <3>1. /\ rec.segment \notin torn' => Behind(rec, ckpt) \/ PosOf(rec) = At(c)
              /\ Behind(rec, ckpt) \/ (rec.segment = c.segment /\ c.offset <= rec.pos)
            <4>1. torn \subseteq torn'
                BY WalFrame
            <4>. QED  BY <1>5, <2>1, <4>1, Zenon DEF ClaimGood
        <3>2. rec.segment \in Nat /\ rec.pos \in Nat
            BY <2>1, ReadBackTypes, RecordParts
        <3>3. Behind(rec, ckpt) => Behind(rec, ckpt')
            BY <1>0, <1>1, <3>2 DEF Behind, Precedes
        <3>. QED  BY <3>1, <3>3
    <2>2. CASE rec \notin log
        <3>1. LastPlace(rec)
            BY <2>2, WalFrame
        <3>2. rec.pos = Len(File(disk, rec.segment)) /\ rec.segment \in Nat
              /\ (\A s \in DOMAIN disk : s <= rec.segment) /\ ckpt.segment <= rec.segment
            BY <3>1 DEF LastPlace
        <3>3. CASE c.segment < ckpt.segment
            BY <1>0, <1>5, <3>2, <3>3 DEF Precedes
        <3>4. CASE c.segment \in DOMAIN disk /\ c.next <= Len(disk[c.segment])
            <4>1. c.segment <= rec.segment
                BY <3>2, <3>4
            <4>2. c.segment = rec.segment => rec.pos = Len(disk[c.segment])
                BY <3>2, <3>4 DEF File
            <4>. QED  BY <1>0, <1>5, <3>2, <3>4, <4>1, <4>2 DEF Precedes
        <3>. QED  BY <3>3, <3>4 DEF ClaimGood
    <2>. QED  BY <2>1, <2>2
<1>. QED  BY <1>3, <1>4, <1>5, Zenon DEF ClaimGood, Behind, PosOf, At

\* What next_pending hands out lies at the frontier.
LEMMA ClaimFresh ==
    ASSUME ReadBackInv, HasPending(disk, ckpt)
    PROVE  ClaimGood(Pending(disk, ckpt))
<1>. DEFINE s == Min(PendingSegments(disk, ckpt))
            o == StartOffset(ckpt, s)
            item == Pending(disk, ckpt)
<1>1. s \in PendingSegments(disk, ckpt) /\ \A y \in PendingSegments(disk, ckpt) : s <= y
    BY ReadBackTypes, MinNat DEF HasPending, PendingSegments
<1>2. /\ s \in DOMAIN disk /\ s >= ckpt.segment /\ o < Len(disk[s]) /\ o \in Nat
      /\ s \in Nat /\ disk[s] \in Seq(Byte) /\ Len(disk[s]) \in Nat
      /\ ckpt.segment \in Nat /\ ckpt.offset \in Nat
    BY <1>1, ReadBackTypes, LenProperties DEF PendingSegments, StartOffset
<1>3. /\ \A y \in DOMAIN disk : y >= ckpt.segment /\ StartOffset(ckpt, y) < Len(disk[y]) => s <= y
    BY <1>1 DEF PendingSegments
<1>4. o = IF s = ckpt.segment THEN ckpt.offset ELSE 0
    BY DEF StartOffset
<1>. HIDE DEF s, o
<1>5. item = [segment |-> s, offset |-> o, next |-> LineEnd(disk[s], o),
              record |-> IsRecordAt(disk[s], s, o)]
    BY Zenon DEF Pending, s, o
<1>6. item.segment = s /\ item.offset = o /\ item.next = LineEnd(disk[s], o)
    BY <1>5
<1>7. item.next <= Len(disk[s]) /\ item.next \in Nat
    <2>. DEFINE ends == {i \in o + 1 .. Len(disk[s]) : disk[s][i].nl}
    <2>1. CASE ends = {}
        <3>1. LineEnd(disk[s], o) = Len(disk[s])
            BY <2>1 DEF LineEnd
        <3>. QED  BY <1>2, <1>6, <3>1
    <2>2. CASE ends # {}
        <3>1. ends \subseteq Nat
            BY <1>2
        <3>2. Min(ends) \in ends
            BY <2>2, <3>1, MinNat
        <3>3. LineEnd(disk[s], o) = Min(ends)
            BY <2>2 DEF LineEnd
        <3>. QED  BY <1>2, <1>6, <3>2, <3>3
    <2>. QED  BY <2>1, <2>2
<1>8. s \notin torn => item.record
    BY <1>6, PendingReads, Zenon
<1>9. ASSUME NEW rec \in log,
             Precedes(rec.segment, rec.pos, item.segment, item.next), ~Behind(rec, ckpt)
      PROVE  /\ rec.segment \notin torn => PosOf(rec) = At(item)
             /\ rec.segment = item.segment /\ item.offset <= rec.pos
    <2>1. rec.segment \in Nat /\ rec.pos \in Nat /\ Size[rec.id] \in Nat /\ Size[rec.id] >= 2
          /\ rec \in LogRecord
        BY ReadBackTypes, RecordParts
    <2>2. /\ rec.segment \in DOMAIN disk
          /\ rec.pos + Size[rec.id] <= Len(disk[rec.segment])
          /\ Len(disk[rec.segment]) \in Nat
        BY <1>9, ReadBackTypes, LenProperties
        DEF ReadBackInv, DurableInv, DurableUntilAcknowledged, Intact
    <2>3. /\ rec.segment >= ckpt.segment
          /\ rec.segment = ckpt.segment => rec.pos >= ckpt.offset
        BY <1>2, <1>9, <2>1 DEF Behind, Precedes
    <2>4. StartOffset(ckpt, rec.segment) < Len(disk[rec.segment])
        BY <1>2, <2>1, <2>2, <2>3 DEF StartOffset
    <2>5. s <= rec.segment
        BY <1>3, <2>2, <2>3, <2>4
    <2>6. rec.segment = s /\ rec.pos < item.next
        BY <1>2, <1>6, <1>9, <2>1, <2>5 DEF Precedes
    <2>7. rec.pos >= o
        BY <1>4, <2>1, <2>3, <2>6
    <2>8. ASSUME rec.segment \notin torn PROVE PosOf(rec) = At(item)
        <3>1. PICK q \in log : /\ q.segment = item.segment /\ q.pos = item.offset
                               /\ Stands(disk, q) /\ item.next = q.pos + Size[q.id]
            BY <1>6, <2>6, <2>8, PendingReads
        <3>2. q \in LogRecord /\ q.pos \in Nat /\ Size[q.id] \in Nat
            BY ReadBackTypes, RecordParts
        <3>3. Stands(disk, rec)
            BY <1>9, <2>2, <2>8 DEF ReadBackInv, ReadInv, Readable
        <3>4. Covers(rec, s, rec.pos + 1) /\ Covers(q, s, rec.pos + 1) /\ rec.pos + 1 \in Nat
            BY <1>6, <2>1, <2>6, <2>7, <3>1, <3>2 DEF Covers
        <3>5. q.pos = rec.pos
            BY <2>1, <3>1, <3>2, <3>3, <3>4, SameStart
        <3>. QED  BY <1>6, <2>6, <3>1, <3>5 DEF PosOf, At
    <2>9. rec.segment = item.segment /\ item.offset <= rec.pos
        BY <1>2, <1>6, <2>1, <2>6, <2>7
    <2>. QED  BY <2>8, <2>9
<1>. HIDE DEF item
<1>10. item.segment \in DOMAIN disk /\ item.next <= Len(disk[item.segment])
    BY <1>2, <1>6, <1>7
<1>11. ClaimGood(item)
    BY <1>6, <1>8, <1>9, <1>10, Zenon DEF ClaimGood
<1>. QED  BY <1>11 DEF item

LEMMA ClaimInvNext ==
    ASSUME ReadBackInv, ClaimInv, [WalNext]_walVars
    PROVE  ClaimInv'
<1>1. claims \subseteq Claim
    BY ReadBackTypes DEF TypeInv, TypeOK
<1>2. \A c \in claims : ClaimGood(c)'
    BY <1>1, ClaimKept, Zenon DEF ClaimInv
<1>3. CASE claims' \subseteq claims
    BY <1>2, <1>3, Zenon DEF ClaimInv
<1>4. CASE NextPending
    <2>0. PICK item : item = Pending(disk, ckpt)
        OBVIOUS
    <2>1. claims' = claims \cup {item} /\ HasPending(disk, ckpt) /\ item \in Claim
        BY <1>4, <2>0, PendingClaim, ReadBackTypes DEF NextPending
    <2>2. ClaimGood(item)
        BY <2>0, <2>1, ClaimFresh
    <2>3. ClaimGood(item)'
        BY <2>1, <2>2, ClaimKept
    <2>. QED  BY <1>2, <2>1, <2>3, Zenon DEF ClaimInv
<1>. QED  BY <1>3, <1>4, WalFrame

\* A record that the frontier passes in one step lies in the acknowledged item.
LEMMA PassedByClaim ==
    ASSUME ReadBackInv, ClaimInv, NEW c \in claims, Acked(c),
           NEW rec \in log, ~Behind(rec, ckpt), Behind(rec, ckpt')
    PROVE  /\ c.segment = rec.segment
           /\ c.offset <= rec.pos /\ rec.pos < c.next
           /\ rec.segment \notin torn => c.offset = rec.pos
<1>1. ckpt' = AckedCheckpoint(c) /\ ClaimGood(c) /\ c \in Claim
    BY AckedStep, ReadBackTypes, Zenon DEF ClaimInv, TypeInv, TypeOK
<1>2. Precedes(rec.segment, rec.pos, c.segment, c.next)
    BY <1>1 DEF Behind, AckedCheckpoint
<1>3. /\ rec.segment = c.segment /\ c.offset <= rec.pos
      /\ rec.segment \notin torn => PosOf(rec) = At(c)
    BY <1>1, <1>2, Zenon DEF ClaimGood
<1>4. rec.segment \in Nat /\ rec.pos \in Nat
    BY ReadBackTypes, RecordParts
<1>5. rec.pos < c.next
    BY <1>1, <1>2, <1>3, <1>4 DEF Precedes, Claim
<1>6. PosOf(rec) = At(c) => c.offset = rec.pos
    BY DEF PosOf, At
<1>. QED  BY <1>3, <1>5, <1>6

\* The frontier moves by acknowledgements only.
LEMMA FrontierMoves ==
    ASSUME [WalNext]_walVars, ckpt' # ckpt
    PROVE  \E c \in claims : Acked(c)
<1>1. ASSUME NEW e, NEW r, AppendStep(e, r) PROVE ckpt' = ckpt
    BY <1>1, UnwrittenStep, Zenon
    DEF AppendStep, Unwritten, AppendOk, AppendRolledBack, AppendTorn, AppendCrash
<1>2. ASSUME \/ Open \/ NextPending \/ Crash \/ UNCHANGED walVars
             \/ \E r \in Request : ReserveRequest(r) \/ DropReservation(r)
      PROVE  ckpt' = ckpt
    BY <1>2, Zenon DEF Open, NextPending, Crash, ReserveRequest, DropReservation, walVars, diskVars
<1>. QED  BY <1>1, <1>2, Zenon DEF WalNext, Acked

\* The frontier passes a record only by the acknowledgement of the item that
\* next_pending handed out for it: no order of readers, rotations, failed
\* compactions and crashes steps over a record.
THEOREM PassesWhatWasRead == WalSpec => PassedOnlyWhenRead
<1>1. WalInit => ClaimInv
    BY DEF WalInit, ClaimInv
<1>2. ReadBackInv /\ ClaimInv /\ [WalNext]_walVars => ClaimInv'
    BY ClaimInvNext
<1>3. ReadBackInv /\ ClaimInv /\ [WalNext]_walVars =>
        \A rec \in log : ~Behind(rec, ckpt) /\ Behind(rec, ckpt') =>
          \E c \in claims :
             /\ c.segment = rec.segment
             /\ c.offset <= rec.pos /\ rec.pos < c.next
             /\ rec.segment \notin torn => c.offset = rec.pos
    <2>. SUFFICES ASSUME ReadBackInv, ClaimInv, [WalNext]_walVars, NEW rec \in log,
                         ~Behind(rec, ckpt), Behind(rec, ckpt')
                  PROVE  \E c \in claims :
                            /\ c.segment = rec.segment
                            /\ c.offset <= rec.pos /\ rec.pos < c.next
                            /\ rec.segment \notin torn => c.offset = rec.pos
        BY Zenon
    <2>1. PICK c \in claims : Acked(c)
        BY FrontierMoves, Zenon
    <2>. QED  BY <2>1, PassedByClaim, Zenon
<1>. QED  BY <1>1, <1>2, <1>3, ReadBackAlways, PTL DEF WalSpec, PassedOnlyWhenRead

-----------------------------------------------------------------------------
(* The frontier passes only what is settled.                               *)

\* What the API committed and what was quarantined stays, and the frontier
\* moves only to the end of the item of a task, which has quarantined it if
\* it was rejected.
LEMMA StepOutcome ==
    ASSUME ControlInv, [Next]_vars
    PROVE  /\ api \subseteq api' /\ perm \subseteq perm'
           /\ \/ ckpt' = ckpt
              \/ \E t \in tasks : /\ ckpt' = AckedCheckpoint(t.claim) /\ log' = log
                                  /\ perm' = QuarantinePermanent(t)
<1>0. \A t \in tasks : perm \subseteq QuarantinePermanent(t)
    BY QuarantineType DEF ControlInv
<1>1. CASE Restart \/ ClaimNext \/ Snapshot \/ UNCHANGED vars
           \/ \E rec \in log : DeliverEnvelopeInline(rec)
    BY <1>1, Zenon DEF Restart, ClaimNext, Snapshot, Open, NextPending, DeliverEnvelopeInline,
                       vars, deliveryVars, walVars, diskVars
<1>2. ASSUME NEW e \in Event, PersistDurableEvent(e) \/ PersistDurableDecisionLocal(e)
      PROVE  api' = api /\ perm' = perm /\ ckpt' = ckpt
    BY <1>2, PersistStep
<1>3. CASE SendAttempt \/ RejectUnsent \/ AttemptTimeout \/ AbortWorker
    BY <1>3, Zenon DEF SendAttempt, RejectUnsent, AttemptTimeout, AbortWorker, walVars, diskVars
<1>4. ASSUME NEW m \in net, NEW code \in Status, NEW echo \in BOOLEAN, ApiAnswer(m, code, echo)
      PROVE  api \subseteq api' /\ perm' = perm /\ ckpt' = ckpt
    <2>1. /\ perm' = perm /\ ckpt' = ckpt
          /\ \E commits \in Commits(code, echo) : api' = IF commits THEN api \cup {At(m)} ELSE api
        BY <1>4, Zenon DEF ApiAnswer, walVars, diskVars
    <2>. QED  BY <2>1, Zenon
<1>5. ASSUME NEW t \in tasks, RunTask(t)
      PROVE  /\ api' = api /\ ckpt' = AckedCheckpoint(t.claim) /\ log' = log
             /\ perm' = QuarantinePermanent(t)
    BY <1>5, Zenon DEF RunTask, Acknowledge, histVars
<1>6. ASSUME NEW t \in tasks, FailTask(t)
      PROVE  /\ api' = api
             /\ \/ perm' \in {perm, QuarantinePermanent(t)} /\ ckpt' = ckpt
                \/ /\ perm' = QuarantinePermanent(t) /\ log' = log
                   /\ ckpt' = AckedCheckpoint(t.claim)
    BY <1>6, Zenon DEF FailTask, AcknowledgeFails, walVars, diskVars, histVars
<1>7. CASE ProcessCrash
    <2>1. api' = api
        BY <1>7, Zenon DEF ProcessCrash
    <2>2. \/ perm' = perm /\ ckpt' = ckpt
          \/ \E t \in tasks : /\ perm' = QuarantinePermanent(t)
                              /\ \/ ckpt' = ckpt
                                 \/ ckpt' = AckedCheckpoint(t.claim) /\ log' = log
        BY <1>7, Zenon DEF ProcessCrash, Crash, AppendCrash, AcknowledgeCrash
    <2>. QED  BY <1>0, <2>1, <2>2, Zenon
<1>8. ASSUME NEW t \in tasks, RunTask(t) \/ FailTask(t)
      PROVE  /\ api \subseteq api' /\ perm \subseteq perm'
             /\ \/ ckpt' = ckpt
                \/ /\ ckpt' = AckedCheckpoint(t.claim) /\ log' = log
                   /\ perm' = QuarantinePermanent(t)
    BY <1>0, <1>5, <1>6, <1>8, Zenon
<1>9. ASSUME NEW e \in LocalEvent, PersistDurableDecisionLocal(e)
      PROVE  api' = api /\ perm' = perm /\ ckpt' = ckpt
    BY <1>2, <1>9, DeliveryAssumption
<1>. QED  BY <1>1, <1>2, <1>3, <1>4, <1>7, <1>8, <1>9, Zenon DEF Next

\* A record that has just been appended is ahead of the frontier.
LEMMA NewAhead ==
    ASSUME ReadBackInv, NEW rec, LastPlace(rec), rec.segment \notin torn
    PROVE  ~Behind(rec, ckpt)
<1>1. /\ rec.segment \in Nat /\ rec.pos = Len(File(disk, rec.segment))
      /\ ckpt.segment <= rec.segment /\ ckpt.segment \in Nat /\ ckpt.offset \in Nat
    BY ReadBackTypes DEF LastPlace
<1>2. File(disk, rec.segment) \in Seq(Byte)
    BY ReadBackTypes, FileType
<1>3. rec.pos \in Nat
    BY <1>1, <1>2, LenProperties
<1>4. ASSUME ckpt.segment = rec.segment PROVE ckpt.offset <= rec.pos
    <2>1. CheckpointValid(disk, ckpt)
        BY <1>4 DEF ReadBackInv, ReadInv
    <2>2. CASE ckpt = DefaultCheckpoint
        BY <1>3, <2>2 DEF DefaultCheckpoint
    <2>3. CASE ckpt # DefaultCheckpoint
        BY <1>1, <1>4, <2>1, <2>3 DEF CheckpointValid, IsBoundary, File
    <2>. QED  BY <2>2, <2>3
<1>. QED  BY <1>1, <1>3, <1>4 DEF Behind, Precedes

SettledInv == ControlInv /\ ReadBackInv /\ ClaimInv /\ SettledBehindFrontier

LEMMA SettledNext == SettledInv /\ [Next]_vars => SettledBehindFrontier'
<1>. SUFFICES ASSUME SettledInv, [Next]_vars, NEW rec \in log', rec.segment \notin torn',
                     Behind(rec, ckpt')
              PROVE  PosOf(rec) \in api' \/ \E doc \in perm' : At(doc) = PosOf(rec)
    BY Zenon DEF SettledBehindFrontier, Settled, Behind, PosOf, At
<1>0. ControlInv /\ ReadBackInv /\ ClaimInv /\ [WalNext]_walVars
    BY DeliveryIsWal DEF SettledInv, ControlInv
<1>1. torn \subseteq torn' /\ api \subseteq api' /\ perm \subseteq perm'
    BY <1>0, WalFrame, StepOutcome
<1>2. ASSUME rec \in log, Behind(rec, ckpt)
      PROVE  PosOf(rec) \in api' \/ \E doc \in perm' : At(doc) = PosOf(rec)
    <2>1. Settled(rec)
        BY <1>1, <1>2 DEF SettledInv, SettledBehindFrontier
    <2>. QED  BY <1>1, <2>1, Zenon DEF Settled
<1>3. CASE ckpt' = ckpt
    <2>1. CASE rec \in log
        BY <1>2, <1>3, <2>1, Zenon
    <2>2. CASE rec \notin log
        <3>1. LastPlace(rec)
            BY <1>0, <2>2, WalFrame
        <3>2. ~Behind(rec, ckpt)
            BY <1>0, <1>1, <3>1, NewAhead
        <3>. QED  BY <1>3, <3>2
    <2>. QED  BY <2>1, <2>2
<1>4. ASSUME NEW t \in tasks, ckpt' = AckedCheckpoint(t.claim), log' = log,
             perm' = QuarantinePermanent(t)
      PROVE  PosOf(rec) \in api' \/ \E doc \in perm' : At(doc) = PosOf(rec)
    <2>1. t.claim \in claims /\ (t.status = 0 => At(t.claim) \in api \/ ~t.claim.record)
        BY <1>0, Zenon DEF ControlInv, Owned, Justified
    <2>2. ClaimGood(t.claim)
        BY <1>0, <2>1 DEF ClaimInv
    <2>3. Precedes(rec.segment, rec.pos, t.claim.segment, t.claim.next)
        BY <1>4 DEF Behind, AckedCheckpoint
    <2>4. Behind(rec, ckpt) \/ PosOf(rec) = At(t.claim)
        BY <1>1, <1>4, <2>2, <2>3 DEF ClaimGood
    <2>5. CASE Behind(rec, ckpt)
        BY <1>2, <1>4, <2>5
    <2>6. CASE PosOf(rec) = At(t.claim)
        <3>1. CASE t.status # 0
            <4>1. \E doc \in QuarantinePermanent(t) : At(doc) = At(t.claim)
                BY <1>0, <3>1, QuarantineType DEF ControlInv
            <4>. QED  BY <1>4, <2>6, <4>1
        <3>2. CASE t.status = 0
            <4>1. rec.segment = t.claim.segment
                BY <2>6 DEF PosOf, At
            <4>2. t.claim.record
                BY <1>1, <2>2, <4>1 DEF ClaimGood
            <4>. QED  BY <1>1, <2>1, <2>6, <3>2, <4>2, Zenon
        <3>. QED  BY <3>1, <3>2
    <2>. QED  BY <2>4, <2>5, <2>6
<1>. QED  BY <1>0, <1>3, <1>4, StepOutcome

LEMMA SettledAlways == Spec => []SettledInv
<1>1. Init => ClaimInv /\ SettledBehindFrontier
    BY DEF Init, WalInit, ClaimInv, SettledBehindFrontier
<1>2. ControlInv /\ ReadBackInv /\ ClaimInv /\ SettledBehindFrontier /\ [Next]_vars
      => ClaimInv' /\ SettledBehindFrontier'
    <2>. SUFFICES ASSUME SettledInv, [Next]_vars PROVE ClaimInv' /\ SettledBehindFrontier'
        BY DEF SettledInv
    <2>1. [WalNext]_walVars
        BY DeliveryIsWal DEF SettledInv, ControlInv
    <2>. QED  BY <2>1, ClaimInvNext, SettledNext DEF SettledInv
<1>3. SettledInv <=> ControlInv /\ ReadBackInv /\ ClaimInv /\ SettledBehindFrontier
    BY DEF SettledInv
<1>. QED  BY <1>1, <1>2, <1>3, ControlAlways, DeliveryImplementsWal, ReadBackAlways, PTL DEF Spec

\* The frontier passes a record of a segment that is not torn only when the
\* API has committed it or it lies in permanent quarantine: whatever is lost,
\* answered late, answered by something else, aborted or restarted.
THEOREM FrontierPassesSettled == Spec => []SettledBehindFrontier
<1>1. SettledInv => SettledBehindFrontier
    BY DEF SettledInv
<1>. QED  BY <1>1, SettledAlways, PTL

-----------------------------------------------------------------------------
(* Duplicates.                                                             *)

Copies(L, e) == {rec \in L : rec.id = e}

\* A process that has not persisted an event has not appended it either, so
\* that earlier processes account for every copy but one.
AppendInv ==
    /\ IsFiniteSet(log)
    /\ \A e \in Event \ LocalEvent :
          Cardinality(Copies(log, e)) <= crashes + (IF e \in persisted THEN 1 ELSE 0)

LEMMA CopiesCounted ==
    ASSUME NEW L, IsFiniteSet(L), NEW e
    PROVE  IsFiniteSet(Copies(L, e)) /\ Cardinality(Copies(L, e)) \in Nat
<1>1. Copies(L, e) \subseteq L
    BY DEF Copies
<1>. QED  BY <1>1, FS_Subset, FS_CardinalityType

\* One record more.
LEMMA CopiesGrow ==
    ASSUME NEW L, IsFiniteSet(L), NEW rec
    PROVE  /\ IsFiniteSet(L \cup {rec})
           /\ \A e : /\ Cardinality(Copies(L \cup {rec}, e)) <= Cardinality(Copies(L, e)) + 1
                     /\ e # rec.id => Copies(L \cup {rec}, e) = Copies(L, e)
<1>1. IsFiniteSet(L \cup {rec})
    BY FS_AddElement
<1>2. ASSUME NEW e
      PROVE  /\ Cardinality(Copies(L \cup {rec}, e)) <= Cardinality(Copies(L, e)) + 1
             /\ e # rec.id => Copies(L \cup {rec}, e) = Copies(L, e)
    <2>1. CASE rec.id = e
        <3>1. Copies(L \cup {rec}, e) = Copies(L, e) \cup {rec}
            BY <2>1 DEF Copies
        <3>2. IsFiniteSet(Copies(L, e)) /\ Cardinality(Copies(L, e)) \in Nat
            BY CopiesCounted
        <3>. DEFINE n == Cardinality(Copies(L, e))
        <3>3. Cardinality(Copies(L, e) \cup {rec}) \in {n, n + 1}
            <4>1. CASE rec \in Copies(L, e)
                <5>1. Copies(L, e) \cup {rec} = Copies(L, e)
                    BY <4>1
                <5>. QED  BY <5>1, Zenon
            <4>2. CASE rec \notin Copies(L, e)
                BY <3>2, <4>2, FS_AddElement
            <4>. QED  BY <4>1, <4>2
        <3>4. n \in Nat
            BY <3>2
        <3>. HIDE DEF n
        <3>5. Cardinality(Copies(L \cup {rec}, e)) <= n + 1
            BY <3>1, <3>3, <3>4
        <3>. QED  BY <2>1, <3>5, Zenon DEF n
    <2>2. CASE rec.id # e
        <3>1. Copies(L \cup {rec}, e) = Copies(L, e)
            BY <2>2 DEF Copies
        <3>2. Cardinality(Copies(L, e)) \in Nat
            BY CopiesCounted
        <3>. DEFINE n == Cardinality(Copies(L, e))
        <3>3. Cardinality(Copies(L \cup {rec}, e)) = n
            BY <3>1, Zenon
        <3>. HIDE DEF n
        <3>4. n <= n + 1
            BY <3>2 DEF n
        <3>. QED  BY <3>1, <3>3, <3>4, Zenon DEF n
    <2>. QED  BY <2>1, <2>2
<1>. QED  BY <1>1, <1>2, Zenon

LEMMA AppendInvNext ==
    ASSUME ControlInv, AppendInv, [Next]_vars
    PROVE  AppendInv'
<1>0. /\ IsFiniteSet(log) /\ crashes \in Nat
      /\ \A e \in Event : Cardinality(Copies(log, e)) \in Nat
      /\ \A e \in Event \ LocalEvent :
            Cardinality(Copies(log, e)) <= crashes + (IF e \in persisted THEN 1 ELSE 0)
    <2>1. crashes \in Nat
        BY BoundAssumption DEF ControlInv, DeliveryTyped, TypeInv, TypeOK
    <2>. QED  BY <2>1, CopiesCounted DEF AppendInv
<1>1. ASSUME log' = log, crashes' = crashes, persisted' = persisted PROVE AppendInv'
    BY <1>1, Zenon DEF AppendInv, Copies
\* The records of a crashed process are the crash's to answer for.
<1>2. ASSUME crashes' = crashes + 1, persisted' = {},
             \/ log' = log
             \/ \E rec : log' = log \cup {rec} /\ rec.id \notin persisted \ LocalEvent
      PROVE  AppendInv'
    <2>1. IsFiniteSet(log')
        BY <1>0, <1>2, FS_AddElement
    <2>2. ASSUME NEW e \in Event \ LocalEvent PROVE Cardinality(Copies(log', e)) <= crashes + 1
        <3>1. CASE log' = log
            <4>1. Copies(log', e) = Copies(log, e)
                BY <3>1
            <4>2. CASE e \in persisted
                BY <1>0, <4>1, <4>2
            <4>3. CASE e \notin persisted
                BY <1>0, <4>1, <4>3
            <4>. QED  BY <4>2, <4>3
        <3>2. ASSUME NEW rec, log' = log \cup {rec}, rec.id \notin persisted \ LocalEvent
              PROVE  Cardinality(Copies(log', e)) <= crashes + 1
            <4>1. CASE e = rec.id
                <5>1. Cardinality(Copies(log', e)) <= Cardinality(Copies(log, e)) + 1
                    BY <1>0, <3>2, CopiesGrow
                <5>2. Cardinality(Copies(log, e)) <= crashes + 0
                    BY <1>0, <3>2, <4>1
                <5>3. Cardinality(Copies(log', e)) \in Nat /\ Cardinality(Copies(log, e)) \in Nat
                    BY <1>0, <2>1, CopiesCounted
                <5>. QED  BY <1>0, <5>1, <5>2, <5>3
            <4>2. CASE e # rec.id
                <5>1. Copies(log', e) = Copies(log, e)
                    BY <1>0, <3>2, <4>2, CopiesGrow
                <5>2. CASE e \in persisted
                    BY <1>0, <5>1, <5>2
                <5>3. CASE e \notin persisted
                    BY <1>0, <5>1, <5>3
                <5>. QED  BY <5>2, <5>3
            <4>. QED  BY <4>1, <4>2
        <3>. QED  BY <1>2, <3>1, <3>2
    <2>3. ASSUME NEW e \in Event \ LocalEvent
          PROVE  Cardinality(Copies(log', e)) <= crashes' + (IF e \in persisted' THEN 1 ELSE 0)
        BY <1>0, <1>2, <2>2
    <2>. QED  BY <2>1, <2>3, Zenon DEF AppendInv, Copies
\* persist_durable_event remembers what it appended.
<1>3. ASSUME NEW f \in Event, NEW rec, f \notin persisted, rec.id = f, log' = log \cup {rec},
             crashes' = crashes, persisted' = persisted \cup {f}
      PROVE  AppendInv'
    <2>1. IsFiniteSet(log')
        BY <1>0, <1>3, FS_AddElement
    <2>2. ASSUME NEW e \in Event \ LocalEvent
          PROVE  Cardinality(Copies(log', e)) <= crashes' + (IF e \in persisted' THEN 1 ELSE 0)
        <3>1. CASE e = f
            <4>1. Cardinality(Copies(log', e)) <= Cardinality(Copies(log, e)) + 1
                BY <1>0, <1>3, CopiesGrow
            <4>2. Cardinality(Copies(log, e)) <= crashes + 0 /\ e \in persisted'
                BY <1>0, <1>3, <3>1
            <4>3. Cardinality(Copies(log', e)) \in Nat /\ Cardinality(Copies(log, e)) \in Nat
                BY <1>0, <2>1, CopiesCounted
            <4>. QED  BY <1>0, <1>3, <4>1, <4>2, <4>3
        <3>2. CASE e # f
            <4>1. Copies(log', e) = Copies(log, e) /\ (e \in persisted' <=> e \in persisted)
                BY <1>0, <1>3, <3>2, CopiesGrow
            <4>. QED  BY <1>0, <1>3, <4>1
        <3>. QED  BY <3>1, <3>2
    <2>. QED  BY <2>1, <2>2, Zenon DEF AppendInv, Copies
<1>4. ASSUME NEW e \in Event \ LocalEvent, PersistDurableEvent(e) PROVE AppendInv'
    <2>1. \/ /\ log' = log \cup {LogEntry(e, NoRequest)} /\ crashes' = crashes
             /\ persisted' = persisted \cup {e} /\ e \notin persisted
          \/ log' = log /\ crashes' = crashes /\ persisted' = persisted
        BY <1>4, UnwrittenStep, Zenon
        DEF PersistDurableEvent, AppendErrs, Unwritten, AppendOk, AppendRolledBack, AppendTorn, histVars
    <2>2. LogEntry(e, NoRequest).id = e
        BY DEF LogEntry
    <2>. QED  BY <1>1, <1>3, <2>1, <2>2
<1>5. CASE ProcessCrash
    <2>1. persisted' = {} /\ crashes' = crashes + 1
        BY <1>5, Zenon DEF ProcessCrash, WorkerGone, Crash, AppendCrash, AcknowledgeCrash, ProcessGone
    <2>2. \/ log' = log
          \/ \E e \in (Event \ persisted) \cup LocalEvent : log' = log \cup {LogEntry(e, NoRequest)}
        BY <1>5, Zenon DEF ProcessCrash, Crash, AppendCrash, AcknowledgeCrash
    <2>3. \A e : LogEntry(e, NoRequest).id = e
        BY DEF LogEntry
    <2>. QED  BY <1>2, <2>1, <2>2, <2>3, Zenon
<1>6. CASE \/ Restart \/ ClaimNext \/ Snapshot \/ UNCHANGED vars
           \/ SendAttempt \/ RejectUnsent \/ AttemptTimeout \/ AbortWorker
           \/ \E rec \in log : DeliverEnvelopeInline(rec)
           \/ \E m \in net, code \in Status, echo \in BOOLEAN : ApiAnswer(m, code, echo)
           \/ \E t \in tasks : RunTask(t) \/ FailTask(t)
    <2>1. log' = log /\ crashes' = crashes /\ persisted' = persisted
        BY <1>6, Zenon DEF Restart, ClaimNext, Snapshot, Open, NextPending, SendAttempt, RejectUnsent,
            AttemptTimeout, AbortWorker, DeliverEnvelopeInline, ApiAnswer, RunTask, FailTask,
            Acknowledge, AcknowledgeFails, vars, deliveryVars, walVars, histVars
    <2>. QED  BY <1>1, <2>1
\* What the local path appends is no other event's.
<1>7. ASSUME NEW f \in LocalEvent, PersistDurableDecisionLocal(f) PROVE AppendInv'
    <2>1. /\ persisted' = persisted /\ crashes' = crashes
          /\ log' = log \/ log' = log \cup {LogEntry(f, NoRequest)}
        BY <1>7, UnwrittenStep, Zenon
        DEF PersistDurableDecisionLocal, AppendErrs, Unwritten, AppendOk, AppendRolledBack,
            AppendTorn, histVars, deliveryVars
    <2>2. LogEntry(f, NoRequest).id = f
        BY DEF LogEntry
    <2>3. ASSUME log' = log \cup {LogEntry(f, NoRequest)} PROVE AppendInv'
        <3>1. IsFiniteSet(log')
            BY <1>0, <2>3, FS_AddElement
        <3>2. \A e \in Event \ LocalEvent : Copies(log', e) = Copies(log, e)
            BY <1>0, <1>7, <2>2, <2>3, CopiesGrow
        <3>. QED  BY <1>0, <2>1, <3>1, <3>2, Zenon DEF AppendInv, Copies
    <2>. QED  BY <1>1, <2>1, <2>3
<1>. QED  BY <1>4, <1>5, <1>6, <1>7, Zenon DEF Next

\* One process appends an event of the sink at most once, an append that a
\* crash cut off included: such an event is in the log at most once more than
\* there were crashes, whatever the local path appends beside it.
THEOREM AppendedOncePerProcess == Spec => []OncePerProcess
<1>1. Init => AppendInv
    <2>. SUFFICES ASSUME Init PROVE AppendInv
        OBVIOUS
    <2>1. log = {} /\ crashes = 0 /\ \A e : Copies(log, e) = {}
        BY DEF Init, WalInit, Copies
    <2>2. \A e : Cardinality(Copies(log, e)) = 0
        BY <2>1, FS_EmptySet, Zenon
    <2>3. IsFiniteSet(log)
        BY <2>1, FS_EmptySet
    <2>. QED  BY <2>1, <2>2, <2>3 DEF AppendInv
<1>2. ControlInv /\ AppendInv /\ [Next]_vars => AppendInv'
    BY AppendInvNext
<1>3. ControlInv /\ AppendInv => OncePerProcess
    <2>. SUFFICES ASSUME ControlInv, AppendInv, NEW e \in Event \ LocalEvent
                  PROVE  Cardinality({rec \in log : rec.id = e}) <= crashes + 1
        BY DEF OncePerProcess
    <2>1. crashes \in Nat
        BY BoundAssumption DEF ControlInv, DeliveryTyped, TypeInv, TypeOK
    <2>2. Cardinality(Copies(log, e)) \in Nat
          /\ Cardinality(Copies(log, e)) <= crashes + (IF e \in persisted THEN 1 ELSE 0)
        BY CopiesCounted DEF AppendInv
    <2>3. Cardinality(Copies(log, e)) <= crashes + 1
        BY <2>1, <2>2
    <2>. QED  BY <2>3 DEF Copies
<1>. QED  BY <1>1, <1>2, <1>3, ControlAlways, PTL DEF Spec

-----------------------------------------------------------------------------
(* Records in order.                                                       *)

\* q lists the records of S in the order the frontier meets them.
Lists(q, S) ==
    /\ q \in Seq(LogRecord)
    /\ \A i \in DOMAIN q : q[i] \in S
    /\ \A rec \in S : \E i \in DOMAIN q : q[i] = rec
    /\ \A i, j \in DOMAIN q : i < j => Before(q[i], q[j])

LEMMA BeforeStrict ==
    ASSUME NEW a \in LogRecord, NEW b \in LogRecord
    PROVE  ~Before(a, a) /\ ~(Before(a, b) /\ Before(b, a))
BY RecordParts DEF Before, Precedes

\* A list has one entry for each record.
LEMMA ListLength ==
    ASSUME NEW q, NEW S, Lists(q, S)
    PROVE  Len(q) \in Nat /\ DOMAIN q = 1 .. Len(q) /\ IsFiniteSet(S) /\ Cardinality(S) = Len(q)
           /\ q \in [1 .. Cardinality(S) -> S]
<1>1. q \in Seq(LogRecord) /\ Len(q) \in Nat /\ DOMAIN q = 1 .. Len(q) /\ q \in [1 .. Len(q) -> LogRecord]
    <2>1. q \in Seq(LogRecord)
        BY DEF Lists
    <2>. QED  BY <2>1, LenProperties
<1>2. \A i \in 1 .. Len(q) : q[i] \in S
    BY <1>1 DEF Lists
<1>3. q \in [1 .. Len(q) -> S]
    BY <1>1, <1>2
<1>4. \A i, j \in 1 .. Len(q) : q[i] = q[j] => i = j
    <2>. SUFFICES ASSUME NEW i \in 1 .. Len(q), NEW j \in 1 .. Len(q), q[i] = q[j] PROVE i = j
        OBVIOUS
    <2>1. q[i] \in LogRecord
        BY <1>1
    <2>2. ~Before(q[i], q[i])
        BY <2>1, BeforeStrict
    <2>3. ~(i < j) /\ ~(j < i)
        BY <1>1, <2>2 DEF Lists
    <2>. QED  BY <1>1, <2>3
<1>5. q \in Bijection(1 .. Len(q), S)
    <2>1. q \in Injection(1 .. Len(q), S)
        BY <1>3, <1>4 DEF Injection, IsInjective
    <2>2. q \in Surjection(1 .. Len(q), S)
        BY <1>1, <1>3 DEF Surjection, Lists
    <2>. QED  BY <2>1, <2>2 DEF Bijection
<1>6. ExistsBijection(1 .. Len(q), S)
    BY <1>5 DEF ExistsBijection
<1>7. Cardinality(S) = Len(q)
    BY <1>1, <1>6, FS_CountingElements
<1>8. IsFiniteSet(S)
    <2>1. IsFiniteSet(1 .. Len(q))
        BY <1>1, FS_Interval
    <2>. QED  BY <1>6, <2>1, FS_Bijection DEF ExistsBijection
<1>. QED  BY <1>1, <1>3, <1>7, <1>8

\* There is one such list.
LEMMA OneList ==
    ASSUME NEW S, NEW q, NEW p, Lists(q, S), Lists(p, S)
    PROVE  q = p
<1>1. /\ Len(q) \in Nat /\ Len(p) = Len(q) /\ DOMAIN q = 1 .. Len(q) /\ DOMAIN p = 1 .. Len(q)
      /\ q \in Seq(LogRecord) /\ p \in Seq(LogRecord)
    BY ListLength DEF Lists
<1>2. /\ \A i \in 1 .. Len(q) : q[i] \in S /\ p[i] \in S /\ q[i] \in LogRecord /\ p[i] \in LogRecord
      /\ \A rec \in S : (\E i \in 1 .. Len(q) : q[i] = rec) /\ (\E i \in 1 .. Len(q) : p[i] = rec)
      /\ \A i, j \in 1 .. Len(q) : i < j => Before(q[i], q[j]) /\ Before(p[i], p[j])
    BY <1>1, ElementOfSeq DEF Lists
<1>. DEFINE D == {i \in 1 .. Len(q) : q[i] # p[i]}
<1>3. D = {}
    <2>. SUFFICES ASSUME D # {} PROVE FALSE
        OBVIOUS
    <2>1. D \subseteq Nat
        BY <1>1
    <2>2. PICK k \in D : \A i \in D : k <= i
        BY <2>1, MinNat
    <2>3. k \in 1 .. Len(q) /\ q[k] # p[k] /\ \A i \in 1 .. Len(q) : i < k => q[i] = p[i]
        BY <1>1, <2>2
    <2>4. Before(p[k], q[k])
        <3>1. PICK j \in 1 .. Len(q) : p[j] = q[k]
            BY <1>2, <2>3
        <3>2. ~(j < k)
            <4>. SUFFICES ASSUME j < k PROVE FALSE
                OBVIOUS
            <4>1. q[j] = q[k] /\ Before(q[j], q[k]) /\ q[k] \in LogRecord
                BY <1>2, <2>3, <3>1
            <4>. QED  BY <4>1, BeforeStrict
        <3>3. k < j
            BY <1>1, <2>3, <3>1, <3>2
        <3>. QED  BY <1>2, <2>3, <3>1, <3>3
    <2>5. Before(q[k], p[k])
        <3>1. PICK j \in 1 .. Len(q) : q[j] = p[k]
            BY <1>2, <2>3
        <3>2. ~(j < k)
            <4>. SUFFICES ASSUME j < k PROVE FALSE
                OBVIOUS
            <4>1. p[j] = p[k] /\ Before(p[j], p[k]) /\ p[k] \in LogRecord
                BY <1>2, <2>3, <3>1
            <4>. QED  BY <4>1, BeforeStrict
        <3>3. k < j
            BY <1>1, <2>3, <3>1, <3>2
        <3>. QED  BY <1>2, <2>3, <3>1, <3>3
    <2>. QED  BY <1>2, <2>3, <2>4, <2>5, BeforeStrict
<1>4. \A i \in 1 .. Len(q) : q[i] = p[i]
    BY <1>3
<1>. QED  BY <1>1, <1>4, SeqEqual

\* InOrder finds it.
LEMMA InOrderLists ==
    ASSUME NEW S, S \subseteq LogRecord, NEW q, Lists(q, S)
    PROVE  InOrder(S) = q
<1>. DEFINE P(x) == /\ \A rec \in S : \E i \in DOMAIN x : x[i] = rec
                    /\ \A i, j \in DOMAIN x : i < j => Before(x[i], x[j])
            F == [1 .. Cardinality(S) -> S]
<1>1. q \in F /\ P(q) /\ Cardinality(S) \in Nat
    BY ListLength DEF Lists
<1>2. InOrder(S) = CHOOSE x \in F : P(x)
    BY Zenon DEF InOrder
<1>3. InOrder(S) \in F /\ P(InOrder(S))
    <2>. HIDE DEF P, F
    <2>. QED  BY <1>1, <1>2, Zenon
<1>4. InOrder(S) \in Seq(LogRecord) /\ \A i \in DOMAIN InOrder(S) : InOrder(S)[i] \in S
    <2>1. \A x \in F : x \in Seq(LogRecord) /\ \A i \in DOMAIN x : x[i] \in S
        <3>. TAKE x \in F
        <3>1. x \in [1 .. Cardinality(S) -> LogRecord]
            OBVIOUS
        <3>. QED  BY <1>1, <3>1, SeqDef
    <2>. QED  BY <1>3, <2>1
<1>5. Lists(InOrder(S), S)
    BY <1>3, <1>4, Zenon DEF Lists
<1>. QED  BY <1>5, OneList

\* A record behind all others joins at the back.
LEMMA ListAppended ==
    ASSUME NEW S, NEW q, Lists(q, S), NEW rec \in LogRecord, \A a \in S : Before(a, rec)
    PROVE  Lists(Append(q, rec), S \cup {rec})
<1>. DEFINE n == Len(q)
            p == Append(q, rec)
<1>1. n \in Nat /\ DOMAIN q = 1 .. n /\ q \in Seq(LogRecord)
    BY ListLength DEF Lists
<1>2. /\ p \in Seq(LogRecord) /\ DOMAIN p = 1 .. n + 1 /\ p[n + 1] = rec
      /\ \A i \in 1 .. n : p[i] = q[i]
    BY <1>1, AppendProperties
<1>. HIDE DEF p, n
<1>3. \A i \in 1 .. n + 1 : i \in 1 .. n \/ i = n + 1
    BY <1>1
<1>4. \A i \in DOMAIN p : p[i] \in S \cup {rec}
    BY <1>1, <1>2, <1>3 DEF Lists
<1>5. \A a \in S \cup {rec} : \E i \in DOMAIN p : p[i] = a
    <2>1. \A a \in S : \E i \in DOMAIN p : p[i] = a
        <3>1. \A a \in S : \E i \in 1 .. n : q[i] = a
            BY <1>1 DEF Lists
        <3>2. 1 .. n \subseteq 1 .. n + 1
            BY <1>1
        <3>. QED  BY <1>2, <3>1, <3>2
    <2>2. n + 1 \in DOMAIN p
        BY <1>1, <1>2
    <2>. QED  BY <1>2, <2>1, <2>2
<1>6. ASSUME NEW i \in DOMAIN p, NEW j \in DOMAIN p, i < j PROVE Before(p[i], p[j])
    <2>1. i \in 1 .. n
        BY <1>1, <1>2, <1>6
    <2>2. CASE j \in 1 .. n
        BY <1>1, <1>2, <1>6, <2>1, <2>2 DEF Lists
    <2>3. CASE j = n + 1
        <3>1. q[i] \in S
            BY <1>1, <2>1 DEF Lists
        <3>. QED  BY <1>2, <2>1, <2>3, <3>1
    <2>. QED  BY <1>2, <1>3, <2>2, <2>3
<1>7. Lists(p, S \cup {rec})
    BY <1>2, <1>4, <1>5, <1>6 DEF Lists
<1>. QED  BY <1>7 DEF p

\* The record that no other is before leaves from the front.
LEMMA ListTail ==
    ASSUME NEW S, NEW q, Lists(q, S), NEW x \in S, \A a \in S \ {x} : ~Before(a, x)
    PROVE  q # << >> /\ Head(q) = x /\ Lists(Tail(q), S \ {x})
<1>. DEFINE n == Len(q)
            p == Tail(q)
<1>1. n \in Nat /\ DOMAIN q = 1 .. n /\ q \in Seq(LogRecord)
    BY ListLength DEF Lists
<1>2. PICK k \in 1 .. n : q[k] = x
    BY <1>1 DEF Lists
<1>3. q # << >> /\ n # 0 /\ 1 \in 1 .. n
    BY <1>1, <1>2, EmptySeq
<1>4. q[1] = x
    <2>. SUFFICES ASSUME q[1] # x PROVE FALSE
        OBVIOUS
    <2>1. 1 < k /\ q[1] \in S
        BY <1>1, <1>2, <1>3 DEF Lists
    <2>2. Before(q[1], q[k])
        BY <1>1, <1>2, <1>3, <2>1 DEF Lists
    <2>. QED  BY <1>2, <2>1, <2>2
<1>5. Head(q) = x /\ p \in Seq(LogRecord) /\ Len(p) = n - 1 /\ DOMAIN p = 1 .. n - 1
      /\ \A i \in 1 .. n - 1 : p[i] = q[i + 1]
    <2>1. Head(q) = q[1]
        BY <1>1, <1>3
    <2>2. p \in Seq(LogRecord) /\ Len(p) = n - 1 /\ \A i \in 1 .. n - 1 : p[i] = q[i + 1]
        BY <1>1, <1>3, HeadTailProperties
    <2>. QED  BY <1>4, <2>1, <2>2, LenProperties
<1>. HIDE DEF p, n
<1>6. \A i \in 1 .. n - 1 : i + 1 \in 1 .. n /\ 1 < i + 1
    BY <1>1
<1>7. ASSUME NEW i \in DOMAIN p PROVE p[i] \in S \ {x}
    <2>1. i + 1 \in 1 .. n /\ 1 < i + 1 /\ p[i] = q[i + 1]
        BY <1>5, <1>6
    <2>2. q[i + 1] \in S /\ Before(q[1], q[i + 1]) /\ q[1] \in LogRecord
        BY <1>1, <1>3, <2>1, ElementOfSeq DEF Lists
    <2>3. q[i + 1] # x
        BY <1>4, <2>2, BeforeStrict
    <2>. QED  BY <2>1, <2>2, <2>3
<1>8. ASSUME NEW a \in S \ {x} PROVE \E i \in DOMAIN p : p[i] = a
    <2>1. PICK j \in 1 .. n : q[j] = a
        BY <1>1 DEF Lists
    <2>2. j # 1
        BY <1>4, <1>8, <2>1
    <2>3. j - 1 \in 1 .. n - 1 /\ (j - 1) + 1 = j
        BY <1>1, <2>1, <2>2
    <2>. QED  BY <1>5, <2>1, <2>3
<1>9. ASSUME NEW i \in DOMAIN p, NEW j \in DOMAIN p, i < j PROVE Before(p[i], p[j])
    <2>1. i + 1 \in 1 .. n /\ j + 1 \in 1 .. n /\ i + 1 < j + 1
        BY <1>1, <1>5, <1>9
    <2>. QED  BY <1>1, <1>5, <2>1 DEF Lists
<1>10. Lists(p, S \ {x})
    BY <1>5, <1>7, <1>8, <1>9 DEF Lists
<1>. QED  BY <1>3, <1>5, <1>10 DEF p

-----------------------------------------------------------------------------
(* Delivery is a queue as long as no segment is torn.                      *)

LogPositions == {PosOf(rec) : rec \in log}

\* Only logged records are claimed, sent, committed and quarantined.
Sent ==
    /\ api \subseteq LogPositions
    /\ \A doc \in perm : At(doc) \in LogPositions
    /\ \A m \in net : At(m) \in LogPositions
    /\ \A c \in claims : At(c) \in LogPositions /\ c.offset < c.next

\* No two records are in one place.
OnePlace == \A a \in log : \A b \in log : PosOf(a) = PosOf(b) => a = b

Waiting(L, c) == {rec \in L : ~Behind(rec, c)}

\* The records the frontier has not passed can be listed.
Listed == \E q : Lists(q, Waiting(log, ckpt))

QueueInv == torn = {} => Sent /\ OnePlace /\ Listed

\* A new record is after every other.
LEMMA NewAfterAll ==
    ASSUME ReadBackInv, torn = {}, NEW rec, LastPlace(rec), NEW q \in log
    PROVE  Before(q, rec)
<1>1. /\ rec.segment \in Nat /\ rec.pos = Len(File(disk, rec.segment))
      /\ ckpt.segment <= rec.segment /\ ckpt.segment \in Nat /\ ckpt.offset \in Nat
      /\ \A s \in DOMAIN disk : s <= rec.segment
    BY ReadBackTypes DEF LastPlace
<1>2. q.segment \in Nat /\ q.pos \in Nat /\ Size[q.id] \in Nat /\ Size[q.id] >= 2
    BY ReadBackTypes, RecordParts
<1>3. CASE q.segment \in DOMAIN disk
    <2>1. q.pos + Size[q.id] <= Len(disk[q.segment]) /\ Len(disk[q.segment]) \in Nat
        BY <1>3, ReadBackTypes, LenProperties DEF ReadBackInv, ReadInv, Readable, Stands
    <2>2. q.segment <= rec.segment
        BY <1>1, <1>3
    <2>3. q.segment = rec.segment => rec.pos = Len(disk[q.segment])
        BY <1>1, <1>3 DEF File
    <2>. QED  BY <1>1, <1>2, <2>1, <2>2, <2>3 DEF Before, Precedes
<1>4. CASE q.segment \notin DOMAIN disk
    <2>1. Behind(q, ckpt)
        BY <1>4 DEF ReadBackInv, DurableInv, DurableUntilAcknowledged, Intact
    <2>2. q.segment < ckpt.segment \/ (q.segment = ckpt.segment /\ q.pos < ckpt.offset)
        BY <2>1 DEF Behind, Precedes
    <2>3. CASE q.segment = ckpt.segment
        <3>1. ckpt = DefaultCheckpoint
            BY <1>4, <2>3 DEF ReadBackInv, ReadInv
        <3>. QED  BY <1>2, <2>2, <2>3, <3>1 DEF DefaultCheckpoint
    <2>4. CASE q.segment < ckpt.segment
        BY <1>1, <1>2, <2>4 DEF Before, Precedes
    <2>. QED  BY <2>2, <2>3, <2>4
<1>. QED  BY <1>3, <1>4

\* The ways in which a step touches what the queue is made of.
LEMMA QueueOutcome ==
    ASSUME SettledInv, [Next]_vars
    PROVE  \/ log' = log /\ ckpt' = ckpt /\ api' = api /\ perm' = perm
           \/ /\ ckpt' = ckpt /\ api' = api /\ perm' = perm
              /\ \E rec : log' = log \cup {rec} /\ LastPlace(rec)
           \/ /\ log' = log /\ ckpt' = ckpt /\ perm' = perm
              /\ \E m \in net : api' = api \cup {At(m)}
           \/ /\ log' = log /\ ckpt' = ckpt /\ api' = api
              /\ \E t \in tasks : perm' = QuarantinePermanent(t)
           \/ /\ log' = log /\ api' = api
              /\ \E t \in tasks : /\ ckpt' = AckedCheckpoint(t.claim)
                                  /\ perm' = QuarantinePermanent(t)
<1>0. ReadBackInv /\ [WalNext]_walVars /\ (log' = log \/ \E rec : log' = log \cup {rec} /\ LastPlace(rec))
    BY DeliveryIsWal, WalFrame DEF SettledInv, ControlInv
<1>1. CASE Restart \/ ClaimNext \/ Snapshot \/ UNCHANGED vars
           \/ SendAttempt \/ RejectUnsent \/ AttemptTimeout \/ AbortWorker
           \/ \E rec \in log : DeliverEnvelopeInline(rec)
    <2>1. log' = log /\ ckpt' = ckpt /\ api' = api /\ perm' = perm
        BY <1>1, Zenon DEF Restart, ClaimNext, Snapshot, Open, NextPending, DeliverEnvelopeInline,
            SendAttempt, RejectUnsent, AttemptTimeout, AbortWorker,
            vars, deliveryVars, walVars, diskVars, histVars
    <2>. QED  BY <2>1
<1>2. ASSUME NEW e \in Event, PersistDurableEvent(e) \/ PersistDurableDecisionLocal(e)
      PROVE  api' = api /\ perm' = perm /\ ckpt' = ckpt
    BY <1>2, PersistStep
<1>3. ASSUME NEW m \in net, NEW code \in Status, NEW echo \in BOOLEAN, ApiAnswer(m, code, echo)
      PROVE  log' = log /\ ckpt' = ckpt /\ perm' = perm /\ api' \in {api, api \cup {At(m)}}
    <2>1. /\ perm' = perm /\ ckpt' = ckpt /\ log' = log
          /\ \E commits \in Commits(code, echo) : api' = IF commits THEN api \cup {At(m)} ELSE api
        BY <1>3, Zenon DEF ApiAnswer, walVars, diskVars, histVars
    <2>. QED  BY <2>1, Zenon
<1>4. ASSUME NEW t \in tasks, RunTask(t)
      PROVE  /\ api' = api /\ ckpt' = AckedCheckpoint(t.claim) /\ log' = log
             /\ perm' = QuarantinePermanent(t)
    BY <1>4, Zenon DEF RunTask, Acknowledge, histVars
<1>5. ASSUME NEW t \in tasks, FailTask(t)
      PROVE  /\ api' = api /\ log' = log
             /\ \/ ckpt' = ckpt /\ perm' \in {perm, QuarantinePermanent(t)}
                \/ ckpt' = AckedCheckpoint(t.claim) /\ perm' = QuarantinePermanent(t)
    BY <1>5, Zenon DEF FailTask, AcknowledgeFails, walVars, diskVars, histVars
<1>6. ASSUME ProcessCrash
      PROVE  /\ api' = api
             /\ \/ perm' = perm /\ ckpt' = ckpt
                \/ \E t \in tasks :
                      /\ perm' = QuarantinePermanent(t) /\ log' = log
                      /\ ckpt' = ckpt \/ ckpt' = AckedCheckpoint(t.claim)
    BY <1>6, Zenon DEF ProcessCrash, Crash, AppendCrash, AcknowledgeCrash
<1>7. CASE \E e \in Event : PersistDurableEvent(e) \/ PersistDurableDecisionLocal(e)
    BY <1>0, <1>2, <1>7, Zenon
<1>8. CASE \E m \in net, code \in Status, echo \in BOOLEAN : ApiAnswer(m, code, echo)
    BY <1>3, <1>8, Zenon
<1>9. CASE \E t \in tasks : RunTask(t) \/ FailTask(t)
    BY <1>4, <1>5, <1>9, Zenon
<1>10. CASE ProcessCrash
    BY <1>0, <1>6, <1>10, Zenon
<1>. QED  BY <1>1, <1>7, <1>8, <1>9, <1>10, DeliveryAssumption, Zenon DEF Next

\* What a task quarantines is the item it holds.
LEMMA QuarantineAdds ==
    ASSUME NEW t, NEW doc \in QuarantinePermanent(t)
    PROVE  doc \in perm \/ At(doc) = At(t.claim)
<1>. DEFINE q == [segment |-> t.claim.segment, offset |-> t.claim.offset, status |-> t.status]
<1>1. QuarantinePermanent(t) = perm \/ QuarantinePermanent(t) = perm \cup {q}
    BY Zenon DEF QuarantinePermanent
<1>2. At(q) = At(t.claim)
    BY DEF At
<1>. HIDE DEF q
<1>. QED  BY <1>1, <1>2, Zenon

\* Attempts point at what their sender claimed or logged.
LEMMA NetGrows ==
    ASSUME ControlInv, [Next]_vars, NEW m \in net'
    PROVE  \/ \E n \in net : At(m) = At(n)
           \/ \E rec \in log : At(m) = PosOf(rec)
           \/ \E c \in claims : At(m) = At(c)
<1>1. CASE net' \subseteq net
    BY <1>1
<1>2. CASE net' = Abandon(net)
    <2>1. PICK n \in net : m = [n EXCEPT !.awaited = FALSE]
        BY <1>2, Zenon DEF Abandon
    <2>2. n \in Attempt
        BY DEF ControlInv, DeliveryTyped, DeliveryTypeOK
    <2>3. m.segment = n.segment /\ m.offset = n.offset
        BY <2>1, <2>2 DEF Attempt
    <2>. QED  BY <2>3 DEF At
<1>3. ASSUME NEW rec \in log, DeliverEnvelopeInline(rec)
      PROVE  m \in net \/ At(m) = PosOf(rec)
    <2>. DEFINE x == [segment |-> rec.segment, offset |-> rec.pos, awaited |-> FALSE]
    <2>1. m \in net \/ m = x
        BY <1>3, Zenon DEF DeliverEnvelopeInline
    <2>2. At(x) = PosOf(rec)
        BY DEF At, PosOf
    <2>. HIDE DEF x
    <2>. QED  BY <2>1, <2>2, Zenon
<1>4. ASSUME SendAttempt PROVE m \in net \/ (At(m) = At(worker.claim) /\ worker.claim \in claims)
    <2>. DEFINE x == [segment |-> worker.claim.segment, offset |-> worker.claim.offset,
                      awaited |-> TRUE]
    <2>1. m \in net \/ m = x
        BY <1>4, Zenon DEF SendAttempt
    <2>2. At(x) = At(worker.claim)
        BY DEF At
    <2>. HIDE DEF x
    <2>3. worker.claim \in claims
        <3>1. "send" \in {"send", "wait"}
            OBVIOUS
        <3>. QED  BY <1>4, <3>1, Zenon DEF SendAttempt, ControlInv, Owned
    <2>. QED  BY <2>1, <2>2, <2>3, Zenon
<1>5. \/ net' \subseteq net \/ net' = Abandon(net) \/ SendAttempt
      \/ \E rec \in log : DeliverEnvelopeInline(rec)
    BY Zenon DEF Next, Restart, PersistDurableEvent, PersistDurableDecisionLocal, ClaimNext, RejectUnsent, AttemptTimeout,
        ApiAnswer, RunTask, FailTask, AbortWorker, Snapshot, ProcessCrash, WorkerGone,
        vars, deliveryVars
<1>. QED  BY <1>1, <1>2, <1>3, <1>4, <1>5, Zenon

\* An item of a log without torn segments is a logged record.
LEMMA PendingLogged ==
    ASSUME ReadBackInv, torn = {}, HasPending(disk, ckpt)
    PROVE  LET item == Pending(disk, ckpt)
           IN  At(item) \in LogPositions /\ item.offset < item.next
<1>1. PICK rec \in log : /\ rec.segment = Pending(disk, ckpt).segment
                         /\ rec.pos = Pending(disk, ckpt).offset
                         /\ Pending(disk, ckpt).next = rec.pos + Size[rec.id]
    BY PendingReads
<1>2. rec.pos \in Nat /\ Size[rec.id] \in Nat /\ Size[rec.id] >= 2
    BY ReadBackTypes, RecordParts
<1>3. Pending(disk, ckpt).offset < Pending(disk, ckpt).next
    BY <1>1, <1>2
<1>4. At(Pending(disk, ckpt)) = PosOf(rec)
    BY <1>1 DEF At, PosOf
<1>. QED  BY <1>3, <1>4, Zenon DEF LogPositions

LEMMA SentNext ==
    ASSUME SettledInv, Sent, torn = {}, [Next]_vars
    PROVE  Sent'
<1>0. ControlInv /\ ReadBackInv /\ [WalNext]_walVars
    BY DeliveryIsWal DEF SettledInv, ControlInv
<1>1. log \subseteq log' /\ (claims' \subseteq claims \/ NextPending)
    BY <1>0, WalFrame
<1>2. LogPositions \subseteq LogPositions'
    BY <1>1, Zenon DEF LogPositions, PosOf
<1>3. \A t \in tasks : t.claim \in claims
    BY <1>0 DEF ControlInv, Owned
<1>4. api' \subseteq LogPositions'
    <2>1. api' = api \/ \E m \in net : api' = api \cup {At(m)}
        BY QueueOutcome, Zenon
    <2>. QED  BY <1>2, <2>1 DEF Sent
<1>5. ASSUME NEW doc \in perm' PROVE At(doc) \in LogPositions'
    <2>1. perm' = perm \/ \E t \in tasks : perm' = QuarantinePermanent(t)
        BY QueueOutcome, Zenon
    <2>2. doc \in perm \/ \E t \in tasks : At(doc) = At(t.claim)
        BY <1>5, <2>1, QuarantineAdds, Zenon
    <2>. QED  BY <1>2, <1>3, <2>2 DEF Sent
<1>6. ASSUME NEW m \in net' PROVE At(m) \in LogPositions'
    <2>1. \/ \E n \in net : At(m) = At(n)
          \/ \E rec \in log : At(m) = PosOf(rec)
          \/ \E c \in claims : At(m) = At(c)
        BY <1>0, <1>6, NetGrows
    <2>2. \A rec \in log : PosOf(rec) \in LogPositions
        BY DEF LogPositions
    <2>. QED  BY <1>2, <2>1, <2>2 DEF Sent
<1>7. ASSUME NEW c \in claims' PROVE At(c) \in LogPositions' /\ c.offset < c.next
    <2>1. CASE c \in claims
        BY <1>2, <2>1 DEF Sent
    <2>2. CASE c \notin claims
        <3>1. c = Pending(disk, ckpt) /\ HasPending(disk, ckpt)
            BY <1>1, <1>7, <2>2 DEF NextPending
        <3>2. At(c) \in LogPositions /\ c.offset < c.next
            BY <1>0, <3>1, PendingLogged, Zenon
        <3>. QED  BY <1>2, <3>2
    <2>. QED  BY <2>1, <2>2
<1>. QED  BY <1>4, <1>5, <1>6, <1>7, Zenon DEF Sent, At

LEMMA OnePlaceNext ==
    ASSUME SettledInv, OnePlace, torn = {}, [Next]_vars
    PROVE  OnePlace'
<1>0. ControlInv /\ ReadBackInv /\ log \subseteq LogRecord
    BY ReadBackTypes DEF SettledInv
<1>1. CASE log' = log
    BY <1>1, Zenon DEF OnePlace, PosOf
<1>2. ASSUME NEW rec, log' = log \cup {rec}, LastPlace(rec) PROVE OnePlace'
    <2>1. \A q \in log : PosOf(q) # PosOf(rec)
        <3>. SUFFICES ASSUME NEW q \in log, PosOf(q) = PosOf(rec) PROVE FALSE
            OBVIOUS
        <3>1. Before(q, rec) /\ q.segment \in Nat /\ q.pos \in Nat
            BY <1>0, <1>2, NewAfterAll, RecordParts
        <3>2. q.segment = rec.segment /\ q.pos = rec.pos
            BY DEF PosOf
        <3>. QED  BY <3>1, <3>2 DEF Before, Precedes
    <2>. QED  BY <1>2, <2>1, Zenon DEF OnePlace, PosOf
<1>3. log' = log \/ \E rec : log' = log \cup {rec} /\ LastPlace(rec)
    BY QueueOutcome, Zenon
<1>. QED  BY <1>1, <1>2, <1>3

\* PendingRecords is the list.
LEMMA PendingIs ==
    ASSUME NEW L, L \subseteq LogRecord, NEW c, NEW q, Lists(q, Waiting(L, c))
    PROVE  InOrder({rec \in L : ~Behind(rec, c)}) = q
<1>1. Waiting(L, c) \subseteq LogRecord
    BY DEF Waiting
<1>. QED  BY <1>1, InOrderLists, Zenon DEF Waiting

\* A record is settled that was not, or was already.
LEMMA SettleStep ==
    ASSUME SettledInv, QueueInv, torn = {}, log' = log, ckpt' = ckpt,
           NEW pos \in LogPositions,
           {rec \in log : Settled(rec)}' =
               {rec \in log : Settled(rec)} \cup {rec \in log : PosOf(rec) = pos}
    PROVE  [Queue!QueueNext]_(Queue!queueVars)
<1>. DEFINE S == {rec \in log : Settled(rec)}
<1>1. PICK r \in log : PosOf(r) = pos
    BY DEF LogPositions
<1>2. {rec \in log : PosOf(rec) = pos} = {r}
    BY <1>1 DEF QueueInv, OnePlace
<1>3. S' = S \cup {r}
    BY <1>2, Zenon
<1>4. PendingRecords' = PendingRecords
    BY DEF PendingRecords, Behind
<1>5. CASE Behind(r, ckpt)
    <2>1. r \in S
        BY <1>1, <1>5 DEF SettledInv, SettledBehindFrontier
    <2>2. S' = S
        BY <1>3, <2>1
    <2>. QED  BY <1>4, <2>2, Zenon DEF Queue!queueVars
<1>6. CASE ~Behind(r, ckpt)
    <2>1. PICK q : Lists(q, Waiting(log, ckpt))
        BY DEF QueueInv, Listed
    <2>2. log \subseteq LogRecord
        BY ReadBackTypes DEF SettledInv
    <2>3. PendingRecords = q
        BY <2>1, <2>2, PendingIs, Zenon DEF PendingRecords
    <2>4. r \in Waiting(log, ckpt)
        BY <1>6 DEF Waiting
    <2>5. PICK i \in DOMAIN q : q[i] = r
        BY <2>1, <2>4 DEF Lists
    <2>6. \E k \in DOMAIN PendingRecords : S' = S \cup {PendingRecords[k]}
        BY <1>3, <2>3, <2>5
    <2>. QED  BY <1>4, <2>6, Zenon DEF Queue!QueueNext, Queue!Settle
<1>. QED  BY <1>5, <1>6

\* A record joins at the back.
LEMMA EnqueueStep ==
    ASSUME SettledInv, QueueInv, torn = {}, ckpt' = ckpt, api' = api, perm' = perm,
           NEW rec \in LogRecord, log' = log \cup {rec}, LastPlace(rec)
    PROVE  Listed' /\ Queue!Enqueue
<1>. DEFINE S == {x \in log : Settled(x)}
<1>1. ReadBackInv /\ log \subseteq LogRecord /\ Sent
    BY ReadBackTypes DEF SettledInv, QueueInv
<1>2. \A a \in log : Before(a, rec)
    BY <1>1, NewAfterAll
<1>3. rec \notin log /\ PosOf(rec) \notin LogPositions
    <2>1. ~Before(rec, rec)
        BY BeforeStrict
    <2>2. ASSUME NEW a \in log, PosOf(a) = PosOf(rec) PROVE FALSE
        <3>1. a.segment = rec.segment /\ a.pos = rec.pos
            BY <2>2 DEF PosOf
        <3>2. Before(a, rec)
            BY <1>2
        <3>. QED  BY <2>1, <3>1, <3>2 DEF Before
    <2>. QED  BY <1>2, <2>1, <2>2 DEF LogPositions
<1>4. PICK q : Lists(q, Waiting(log, ckpt))
    BY DEF QueueInv, Listed
<1>5. Waiting(log', ckpt') = Waiting(log, ckpt) \cup {rec}
    <2>1. ~Behind(rec, ckpt)
        BY <1>1, NewAhead
    <2>. QED  BY <2>1 DEF Waiting
<1>6. Lists(Append(q, rec), Waiting(log', ckpt'))
    <2>1. \A a \in Waiting(log, ckpt) : Before(a, rec)
        BY <1>2 DEF Waiting
    <2>. QED  BY <1>4, <1>5, <2>1, ListAppended
<1>7. Listed'
    <2>1. \E p : Lists(p, Waiting(log', ckpt'))
        BY <1>6
    <2>. QED  BY <2>1, Zenon DEF Listed, Lists, Waiting, Before, Precedes, Behind
<1>8. PendingRecords = q
    BY <1>1, <1>4, PendingIs, Zenon DEF PendingRecords
<1>9. PendingRecords' = Append(q, rec)
    <2>1. InOrder({x \in log' : ~Behind(x, ckpt')}) = Append(q, rec)
        <3>1. log' \subseteq LogRecord
            BY <1>1
        <3>. QED  BY <1>6, <3>1, PendingIs
    <2>. QED  BY <2>1 DEF PendingRecords, Behind
<1>10. S' = S
    <2>1. \A x \in log : (PosOf(x) \in api' \/ \E doc \in perm' : At(doc) = PosOf(x)) <=> Settled(x)
        BY Zenon DEF Settled
    <2>2. ~(PosOf(rec) \in api' \/ \E doc \in perm' : At(doc) = PosOf(rec))
        BY <1>1, <1>3 DEF Sent
    <2>3. \A x : Settled(x)' <=> (PosOf(x) \in api' \/ \E doc \in perm' : At(doc) = PosOf(x))
        BY Zenon DEF Settled, PosOf, At
    <2>. QED  BY <2>1, <2>2, <2>3, Zenon
<1>11. /\ q \in Seq(LogRecord) /\ Append(q, rec) # << >>
       /\ Append(q, rec)[Len(Append(q, rec))] = rec
    <2>1. q \in Seq(LogRecord) /\ Len(q) \in Nat
        BY <1>4, ListLength DEF Lists
    <2>2. Len(Append(q, rec)) = Len(q) + 1 /\ Append(q, rec)[Len(q) + 1] = rec
          /\ Append(q, rec) \in Seq(LogRecord)
        BY <2>1, AppendProperties
    <2>. QED  BY <2>1, <2>2, EmptySeq
<1>12. \A i \in DOMAIN q : q[i] # rec
    BY <1>3, <1>4 DEF Lists, Waiting
<1>13. rec \notin S
    BY <1>3
<1>14. Queue!Enqueue
    <2>. HIDE DEF S
    <2>1. /\ PendingRecords' # << >>
          /\ PendingRecords'[Len(PendingRecords')] = rec
          /\ \A i \in DOMAIN PendingRecords : PendingRecords[i] # rec
          /\ PendingRecords' = Append(PendingRecords, rec)
        BY <1>8, <1>9, <1>11, <1>12
    <2>. QED  BY <1>10, <1>13, <2>1, Zenon DEF Queue!Enqueue, S
<1>. QED  BY <1>7, <1>14

\* The item that is acknowledged is the record at the front, or one that has
\* been acknowledged before.
LEMMA AckStep ==
    ASSUME SettledInv, QueueInv, torn = {}, torn' = {}, [Next]_vars, log' = log, api' = api,
           NEW t \in tasks, ckpt' = AckedCheckpoint(t.claim), perm' = QuarantinePermanent(t)
    PROVE  Listed' /\ [Queue!QueueNext]_(Queue!queueVars)
<1>. DEFINE S == {x \in log : Settled(x)}
            W == Waiting(log, ckpt)
<1>1. ControlInv /\ ReadBackInv /\ ClaimInv /\ Sent /\ OnePlace /\ log \subseteq LogRecord
    BY ReadBackTypes DEF SettledInv, QueueInv
<1>2. t.claim \in claims /\ ClaimGood(t.claim)
    BY <1>1 DEF ControlInv, Owned, ClaimInv
<1>3. t.claim.segment \in Nat /\ t.claim.offset \in Nat /\ t.claim.next \in Nat
      /\ t.claim.offset < t.claim.next
    <2>1. t.claim \in Claim
        BY <1>1 DEF ControlInv, DeliveryTyped, DeliveryTypeOK, Task
    <2>. QED  BY <1>1, <1>2, <2>1 DEF Claim, Sent
<1>4. PICK r \in log : PosOf(r) = At(t.claim)
    BY <1>1, <1>2 DEF Sent, LogPositions
<1>5. r.segment = t.claim.segment /\ r.pos = t.claim.offset
    BY <1>4 DEF PosOf, At
<1>6. ckpt'.segment = t.claim.segment /\ ckpt'.offset = t.claim.next
    BY DEF AckedCheckpoint
<1>7. Behind(r, ckpt')
    BY <1>3, <1>5, <1>6 DEF Behind, Precedes
<1>8. ~Precedes(ckpt'.segment, ckpt'.offset, ckpt.segment, ckpt.offset)
    <2>1. [WalNext]_walVars
        BY <1>1, DeliveryIsWal DEF ControlInv
    <2>. QED  BY <1>1, <2>1, WalFrame
<1>9. ASSUME NEW x \in log, Behind(x, ckpt) PROVE Behind(x, ckpt')
    <2>1. x.segment \in Nat /\ x.pos \in Nat /\ ckpt.segment \in Nat /\ ckpt.offset \in Nat
        BY <1>1, ReadBackTypes, RecordParts
    <2>. QED  BY <1>3, <1>6, <1>8, <1>9, <2>1 DEF Behind, Precedes
<1>10. ASSUME NEW x \in log, Precedes(x.segment, x.pos, t.claim.segment, t.claim.next)
       PROVE  Behind(x, ckpt) \/ x = r
    <2>1. Behind(x, ckpt) \/ PosOf(x) = At(t.claim)
        BY <1>2, <1>10 DEF ClaimGood
    <2>. QED  BY <1>1, <1>4, <2>1 DEF OnePlace
<1>11. Waiting(log', ckpt') = W \ {r}
    <2>1. ASSUME NEW x \in log, ~Behind(x, ckpt), x # r PROVE ~Behind(x, ckpt')
        BY <1>6, <1>10, <2>1 DEF Behind
    <2>. QED  BY <1>7, <1>9, <2>1, Zenon DEF Waiting
<1>12. S' = S \cup {r}
    <2>1. \A x : Settled(x)' <=> (PosOf(x) \in api' \/ \E doc \in perm' : At(doc) = PosOf(x))
        BY Zenon DEF Settled, PosOf, At
    <2>2. perm \subseteq perm' /\ \A doc \in perm' : doc \in perm \/ At(doc) = PosOf(r)
        BY <1>1, <1>4, QuarantineType, QuarantineAdds DEF ControlInv
    <2>3. Settled(r)'
        <3>1. SettledBehindFrontier'
            BY SettledNext
        <3>2. \A x \in log' : x.segment \notin torn' /\ Behind(x, ckpt') => Settled(x)'
            BY <3>1, Zenon DEF SettledBehindFrontier, Behind
        <3>. QED  BY <1>7, <3>2
    <2>4. ASSUME NEW x \in log, Settled(x)' PROVE Settled(x) \/ x = r
        <3>2. PosOf(x) = PosOf(r) => x = r
            BY <1>1, Zenon DEF OnePlace
        <3>3. CASE Settled(x)
            BY <3>3
        <3>4. CASE ~Settled(x)
            <4>1. PosOf(x) \notin api /\ \A doc \in perm : At(doc) # PosOf(x)
                BY <3>4, Zenon DEF Settled
            <4>2. \E doc \in perm' : At(doc) = PosOf(x)
                BY <2>1, <2>4, <4>1, Zenon
            <4>. QED  BY <2>2, <3>2, <4>1, <4>2, Zenon
        <3>. QED  BY <3>3, <3>4
    <2>5. ASSUME NEW x \in log, Settled(x) PROVE Settled(x)'
        BY <2>1, <2>2, <2>5, Zenon DEF Settled
    <2>. QED  BY <2>3, <2>4, <2>5, Zenon
<1>13. PICK q : Lists(q, W)
    BY DEF QueueInv, Listed
<1>14. PendingRecords = q
    BY <1>1, <1>13, PendingIs, Zenon DEF PendingRecords
<1>15. ASSUME NEW p, Lists(p, Waiting(log', ckpt')) PROVE Listed' /\ PendingRecords' = p
    <2>1. InOrder({x \in log' : ~Behind(x, ckpt')}) = p
        BY <1>1, <1>15, PendingIs
    <2>2. PendingRecords' = p
        BY <2>1 DEF PendingRecords, Behind
    <2>3. \E y : Lists(y, Waiting(log', ckpt'))
        BY <1>15
    <2>4. Listed'
        BY <2>3, Zenon DEF Listed, Lists, Waiting, Before, Precedes, Behind
    <2>. QED  BY <2>2, <2>4
<1>16. CASE Behind(r, ckpt)
    <2>1. r \notin W
        BY <1>16 DEF Waiting
    <2>2. Waiting(log', ckpt') = W
        BY <1>11, <2>1
    <2>3. Listed' /\ PendingRecords' = PendingRecords
        BY <1>13, <1>14, <1>15, <2>2
    <2>4. r \in S
        BY <1>16 DEF SettledInv, SettledBehindFrontier
    <2>5. S' = S
        BY <1>12, <2>4
    <2>. QED  BY <2>3, <2>5, Zenon DEF Queue!queueVars
<1>17. CASE ~Behind(r, ckpt)
    <2>1. r \in W
        BY <1>17 DEF Waiting
    <2>2. \A a \in W \ {r} : ~Before(a, r)
        <3>. SUFFICES ASSUME NEW a \in W \ {r}, Before(a, r) PROVE FALSE
            OBVIOUS
        <3>1. a \in log /\ ~Behind(a, ckpt) /\ a # r
            BY DEF Waiting
        <3>2. a.segment \in Nat /\ a.pos \in Nat
            BY <1>1, <3>1, RecordParts
        <3>3. Precedes(a.segment, a.pos, t.claim.segment, t.claim.next)
            BY <1>3, <1>5, <3>2 DEF Before, Precedes
        <3>. QED  BY <1>10, <3>1, <3>3
    <2>. HIDE DEF W
    <2>3. q # << >> /\ Head(q) = r /\ Lists(Tail(q), W \ {r})
        BY <1>13, <2>1, <2>2, ListTail
    <2>4. Listed' /\ PendingRecords' = Tail(q)
        BY <1>11, <1>15, <2>3
    <2>5. /\ PendingRecords # << >> /\ PendingRecords' = Tail(PendingRecords)
          /\ S' = S \cup {Head(PendingRecords)}
        BY <1>12, <1>14, <2>3, <2>4
    <2>6. Queue!Reject
        BY <2>5, Zenon DEF Queue!Reject
    <2>. QED  BY <2>4, <2>6, Zenon DEF Queue!QueueNext
<1>. QED  BY <1>16, <1>17

LEMMA QueueStep ==
    ASSUME SettledInv, QueueInv, torn' = {}, [Next]_vars
    PROVE  Sent' /\ OnePlace' /\ Listed' /\ [Queue!QueueNext]_(Queue!queueVars)
<1>. DEFINE S == {x \in log : Settled(x)}
<1>0. ControlInv /\ ReadBackInv /\ [WalNext]_walVars
    BY DeliveryIsWal DEF SettledInv, ControlInv
<1>1. torn = {} /\ Sent /\ OnePlace /\ Listed
    <2>1. torn \subseteq torn'
        BY <1>0, WalFrame
    <2>2. torn = {}
        BY <2>1
    <2>. QED  BY <2>2 DEF QueueInv
<1>2. Sent' /\ OnePlace'
    BY <1>1, SentNext, OnePlaceNext
<1>3. \A x : Settled(x)' <=> (PosOf(x) \in api' \/ \E doc \in perm' : At(doc) = PosOf(x))
    BY Zenon DEF Settled, PosOf, At
<1>4. ASSUME log' = log, ckpt' = ckpt PROVE Listed' /\ PendingRecords' = PendingRecords
    <2>1. Listed'
        <3>1. \E p : Lists(p, Waiting(log', ckpt'))
            BY <1>1, <1>4 DEF Listed
        <3>. QED  BY <3>1, Zenon DEF Listed, Lists, Waiting, Before, Precedes, Behind
    <2>2. PendingRecords' = PendingRecords
        BY <1>4 DEF PendingRecords, Behind
    <2>. QED  BY <2>1, <2>2
<1>5. ASSUME log' = log, ckpt' = ckpt, api' = api, perm' = perm
      PROVE  Listed' /\ [Queue!QueueNext]_(Queue!queueVars)
    <2>1. \A x : Settled(x)' <=> Settled(x)
        BY <1>3, <1>5, Zenon DEF Settled
    <2>2. S' = S
        BY <1>5, <2>1, Zenon
    <2>. QED  BY <1>4, <1>5, <2>2, Zenon DEF Queue!queueVars
<1>6. ASSUME ckpt' = ckpt, api' = api, perm' = perm,
             NEW rec, log' = log \cup {rec}, LastPlace(rec)
      PROVE  Listed' /\ [Queue!QueueNext]_(Queue!queueVars)
    <2>1. log' \subseteq LogRecord
        BY <1>0, TypeInvNext, ReadBackTypes DEF TypeInv, TypeOK
    <2>2. Listed' /\ Queue!Enqueue
        BY <1>1, <1>6, <2>1, EnqueueStep
    <2>. QED  BY <2>2, Zenon DEF Queue!QueueNext
<1>7. ASSUME log' = log, ckpt' = ckpt, perm' = perm, NEW m \in net, api' = api \cup {At(m)}
      PROVE  Listed' /\ [Queue!QueueNext]_(Queue!queueVars)
    <2>1. PICK pos : pos = At(m)
        OBVIOUS
    <2>2. pos \in LogPositions
        BY <1>1, <2>1 DEF Sent
    <2>3. \A x : Settled(x)' <=> (Settled(x) \/ PosOf(x) = pos)
        BY <1>3, <1>7, <2>1, Zenon DEF Settled
    <2>4. S' = S \cup {x \in log : PosOf(x) = pos}
        BY <1>7, <2>3, Zenon
    <2>. QED  BY <1>1, <1>4, <1>7, <2>2, <2>4, SettleStep
<1>8. ASSUME log' = log, ckpt' = ckpt, api' = api, NEW t \in tasks,
             perm' = QuarantinePermanent(t)
      PROVE  Listed' /\ [Queue!QueueNext]_(Queue!queueVars)
    <2>1. CASE perm' = perm
        BY <1>5, <1>8, <2>1
    <2>2. CASE perm' # perm
        <3>1. PICK pos : pos = At(t.claim)
            OBVIOUS
        <3>2. pos \in LogPositions
            BY <1>0, <1>1, <3>1 DEF Sent, ControlInv, Owned
        <3>3. /\ perm \subseteq perm' /\ (\A doc \in perm' : doc \in perm \/ At(doc) = pos)
              /\ \E doc \in perm' : At(doc) = pos
            <4>1. perm \subseteq perm'
                BY <1>0, <1>8, QuarantineType DEF ControlInv
            <4>2. \A doc \in perm' : doc \in perm \/ At(doc) = pos
                BY <1>8, <3>1, QuarantineAdds
            <4>. QED  BY <2>2, <4>1, <4>2
        <3>4. \A x : Settled(x)' <=> (Settled(x) \/ PosOf(x) = pos)
            BY <1>3, <1>8, <3>3, Zenon DEF Settled
        <3>5. S' = S \cup {x \in log : PosOf(x) = pos}
            BY <1>8, <3>4, Zenon
        <3>. QED  BY <1>1, <1>4, <1>8, <3>2, <3>5, SettleStep
    <2>. QED  BY <2>1, <2>2
<1>9. ASSUME log' = log, api' = api, NEW t \in tasks, ckpt' = AckedCheckpoint(t.claim),
             perm' = QuarantinePermanent(t)
      PROVE  Listed' /\ [Queue!QueueNext]_(Queue!queueVars)
    BY <1>1, <1>9, AckStep
<1>10. Listed' /\ [Queue!QueueNext]_(Queue!queueVars)
    <2>1. \/ log' = log /\ ckpt' = ckpt /\ api' = api /\ perm' = perm
          \/ /\ ckpt' = ckpt /\ api' = api /\ perm' = perm
             /\ \E rec : log' = log \cup {rec} /\ LastPlace(rec)
          \/ /\ log' = log /\ ckpt' = ckpt /\ perm' = perm
             /\ \E m \in net : api' = api \cup {At(m)}
          \/ /\ log' = log /\ ckpt' = ckpt /\ api' = api
             /\ \E t \in tasks : perm' = QuarantinePermanent(t)
          \/ /\ log' = log /\ api' = api
             /\ \E t \in tasks : /\ ckpt' = AckedCheckpoint(t.claim)
                                 /\ perm' = QuarantinePermanent(t)
        BY QueueOutcome
    <2>. QED  BY <1>5, <1>6, <1>7, <1>8, <1>9, <2>1, Zenon
<1>. QED  BY <1>2, <1>10

\* As long as no write leaves a torn segment behind, the sink, the worker,
\* the network and the crashes together are the queue that callers were
\* promised: records are acknowledged in append order, none is skipped, and
\* none leaves before it is committed or quarantined.
THEOREM DeliveryImplementsQueue == Spec /\ [](torn = {}) => ImplementsQueue
<1>1. Init => QueueInv /\ Queue!QueueInit
    <2>. SUFFICES ASSUME Init PROVE QueueInv /\ Queue!QueueInit
        OBVIOUS
    <2>1. log = {} /\ api = {} /\ perm = {} /\ net = {} /\ claims = {}
        BY DEF Init, WalInit
    <2>2. Waiting(log, ckpt) = {}
        BY <2>1 DEF Waiting
    <2>3. Lists(<< >>, {})
        BY DEF Lists
    <2>4. QueueInv
        BY <2>1, <2>2, <2>3 DEF QueueInv, Sent, OnePlace, Listed
    <2>5. PendingRecords = << >>
        BY <2>1, <2>2, <2>3, PendingIs DEF PendingRecords
    <2>6. {rec \in log : Settled(rec)} = {}
        BY <2>1
    <2>. QED  BY <2>4, <2>5, <2>6 DEF Queue!QueueInit
<1>2. SettledInv /\ QueueInv /\ [Next]_vars => QueueInv'
    <2>. SUFFICES ASSUME SettledInv, QueueInv, [Next]_vars, torn' = {}
                  PROVE  Sent' /\ OnePlace' /\ Listed'
        BY Zenon DEF QueueInv
    <2>. QED  BY QueueStep
<1>3. SettledInv /\ QueueInv /\ [Next]_vars /\ (torn = {})' => [Queue!QueueNext]_(Queue!queueVars)
    BY QueueStep
<1>. QED  BY <1>1, <1>2, <1>3, SettledAlways, PTL DEF Spec, ImplementsQueue, Queue!QueueSpec
=============================================================================
