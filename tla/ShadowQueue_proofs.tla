------------------------- MODULE ShadowQueue_proofs -------------------------
(***************************************************************************)
(* Theorems about the shadow queue, for any number of callers and workers, *)
(* any payloads and limits.                                                *)
(*                                                                         *)
(* The counters are exact because every step changes a counter by as much  *)
(* as it changes what the counter counts.  For bytes this needs more: a    *)
(* release loads the counter and subtracts what it loaded later, so what   *)
(* was loaded must be the whole payload, and no job may be counted twice.  *)
(* Control says where callers and workers can be, who holds the mutex, and *)
(* that a worker that was told of a job finds one.                         *)
(***************************************************************************)
EXTENDS ShadowQueue, FiniteSetTheorems, TLAPS

CallerPlace == {"new", "item", "bytes", "undo", "send", "count", "accepted",
                "drop", "dropped"} \cup Releasing
WorkerPlace == {"top", "lock", "select", "recv", "check", "claim", "run", "exit"}
               \cup Releasing \cup {"cancelled", "completed", "tally cancelled", "tally completed"}

\* Callers and workers are where their code can be.
Placed ==
    /\ \A j \in Job : pc[j] \in CallerPlace
    /\ \A w \in Worker : pc[w] \in WorkerPlace

\* The flag and the signal follow shutdown; before it nobody has left or was
\* cancelled.
InOrder ==
    /\ flag <=> shut # "no"
    /\ signal <=> shut \notin {"no", "flagged"}
    /\ ~flag => \A w \in Worker : pc[w] \notin {"exit", "cancelled", "tally cancelled"}

\* Only the holder of the mutex selects or receives, and what it was told of
\* is still in the channel.
Locked ==
    \A w \in Worker :
        /\ pc[w] \in {"select", "recv"} <=> lock = w
        /\ pc[w] = "recv" => chan # << >>

\* A job in the channel or with a worker has left try_send behind.
Sent ==
    /\ \A j \in Queued : pc[j] \in {"count", "accepted"}
    /\ \A w \in Worker : HasJob(w) => pc[job[w]] \in {"count", "accepted"}

\* Shutdown has not reset the counters and the channel is open.
Early == shut \in {"no", "flagged", "signalled"} /\ Alive # {}

Counters == {"item", "byte", "shutdown"}

\* The types, but for the number of active workers.
Fixed ==
    /\ flag \in BOOLEAN /\ signal \in BOOLEAN
    /\ shut \in {"no", "flagged", "signalled", "items", "done"}
    /\ items \in 0 .. Word - 1
    /\ bytes \in 0 .. Word - 1
    /\ chan \in Seq(Job)
    /\ lock \in Worker \cup {Nobody}
    /\ pc \in [Proc -> CallerPlace \cup WorkerPlace]
    /\ job \in [Worker -> Job]
    /\ take \in [Proc -> Nat]
    /\ why \in [Job -> Counters]
    /\ drops \in [item : Nat, byte : Nat, shutdown : Nat]
    /\ ran \in [enqueued : Nat, completed : Nat, cancelled : Nat]

Control == Fixed /\ Placed /\ InOrder /\ Locked

-----------------------------------------------------------------------------
(* Where everybody is.                                                     *)

LEMMA Tallies == /\ Tally["cancelled"] = "tally cancelled"
                 /\ Tally["completed"] = "tally completed"
BY DEF Tally

LEMMA MinusType == ASSUME NEW a \in Nat, NEW b \in Nat PROVE Minus(a, b) \in 0 .. Word - 1
BY ShadowAssumption DEF Minus

\* The smaller of two numbers.
LEMMA MinPair ==
    ASSUME NEW a \in Nat, NEW b \in Nat
    PROVE  Min({a, b}) = (IF a <= b THEN a ELSE b)
BY DEF Min

\* Counting on in one of the totals.
LEMMA DropsTo ==
    ASSUME NEW r \in [item : Nat, byte : Nat, shutdown : Nat], NEW n \in Nat
    PROVE  /\ [r EXCEPT !.item = n] = [item |-> n, byte |-> r.byte, shutdown |-> r.shutdown]
           /\ [r EXCEPT !.byte = n] = [item |-> r.item, byte |-> n, shutdown |-> r.shutdown]
           /\ [r EXCEPT !.shutdown = n] = [item |-> r.item, byte |-> r.byte, shutdown |-> n]
OBVIOUS

LEMMA RanTo ==
    ASSUME NEW r \in [enqueued : Nat, completed : Nat, cancelled : Nat], NEW n \in Nat
    PROVE  /\ [r EXCEPT !.enqueued = n]
                = [enqueued |-> n, completed |-> r.completed, cancelled |-> r.cancelled]
           /\ [r EXCEPT !.completed = n]
                = [enqueued |-> r.enqueued, completed |-> n, cancelled |-> r.cancelled]
           /\ [r EXCEPT !.cancelled = n]
                = [enqueued |-> r.enqueued, completed |-> r.completed, cancelled |-> n]
OBVIOUS

\* The three totals of drops, and what counting one more does to them.
DropTotal(r) == r.item + r.byte + r.shutdown

LEMMA DropCounted ==
    ASSUME NEW r \in [item : Nat, byte : Nat, shutdown : Nat], NEW c \in Counters
    PROVE  /\ [r EXCEPT ![c] = @ + 1] \in [item : Nat, byte : Nat, shutdown : Nat]
           /\ DropTotal([r EXCEPT ![c] = @ + 1]) = DropTotal(r) + 1
<1>1. r.item \in Nat /\ r.byte \in Nat /\ r.shutdown \in Nat
    OBVIOUS
<1>2. CASE c = "item"
    <2>1. PICK n \in Nat : n = r.item + 1
        BY <1>1
    <2>2. [r EXCEPT ![c] = @ + 1] = [item |-> n, byte |-> r.byte, shutdown |-> r.shutdown]
        BY <1>2, <2>1, DropsTo
    <2>. QED  BY <1>1, <2>1, <2>2 DEF DropTotal
<1>3. CASE c = "byte"
    <2>1. PICK n \in Nat : n = r.byte + 1
        BY <1>1
    <2>2. [r EXCEPT ![c] = @ + 1] = [item |-> r.item, byte |-> n, shutdown |-> r.shutdown]
        BY <1>3, <2>1, DropsTo
    <2>. QED  BY <1>1, <2>1, <2>2 DEF DropTotal
<1>4. CASE c = "shutdown"
    <2>1. PICK n \in Nat : n = r.shutdown + 1
        BY <1>1
    <2>2. [r EXCEPT ![c] = @ + 1] = [item |-> r.item, byte |-> r.byte, shutdown |-> n]
        BY <1>4, <2>1, DropsTo
    <2>. QED  BY <1>1, <2>1, <2>2 DEF DropTotal
<1>. QED  BY <1>2, <1>3, <1>4 DEF Counters

LEMMA RanCounted ==
    ASSUME NEW r \in [enqueued : Nat, completed : Nat, cancelled : Nat]
    PROVE  /\ [r EXCEPT !.enqueued = @ + 1]
                = [enqueued |-> r.enqueued + 1, completed |-> r.completed, cancelled |-> r.cancelled]
           /\ [r EXCEPT !.completed = @ + 1]
                = [enqueued |-> r.enqueued, completed |-> r.completed + 1, cancelled |-> r.cancelled]
           /\ [r EXCEPT !.cancelled = @ + 1]
                = [enqueued |-> r.enqueued, completed |-> r.completed, cancelled |-> r.cancelled + 1]
<1>1. r.enqueued + 1 \in Nat /\ r.completed + 1 \in Nat /\ r.cancelled + 1 \in Nat
    OBVIOUS
<1>. QED  BY <1>1, RanTo

LEMMA Appended ==
    ASSUME NEW q \in Seq(Job), NEW j \in Job
    PROVE  /\ Append(q, j) \in Seq(Job)
           /\ Len(Append(q, j)) = Len(q) + 1
           /\ \A i \in 1 .. Len(q) : Append(q, j)[i] = q[i]
           /\ Append(q, j)[Len(q) + 1] = j
           /\ Append(q, j) # << >>
<1>1. /\ Append(q, j) \in Seq(Job)
      /\ Len(Append(q, j)) = Len(q) + 1
      /\ \A i \in 1 .. Len(q) : Append(q, j)[i] = q[i]
      /\ Append(q, j)[Len(q) + 1] = j
    OBVIOUS
<1>2. Len(q) \in Nat
    OBVIOUS
<1>3. Append(q, j) # << >>
    <2>. SUFFICES ASSUME Append(q, j) = << >> PROVE FALSE
        OBVIOUS
    <2>1. Len(<< >>) = Len(q) + 1
        BY <1>1
    <2>. QED  BY <1>2, <2>1
<1>. QED  BY <1>1, <1>3

LEMMA Taken ==
    ASSUME NEW q \in Seq(Job), q # << >>
    PROVE  /\ Head(q) = q[1] /\ Head(q) \in Job /\ Len(q) \in Nat \ {0}
           /\ Tail(q) \in Seq(Job) /\ Len(Tail(q)) = Len(q) - 1
           /\ \A i \in 1 .. Len(q) - 1 : Tail(q)[i] = q[i + 1]
OBVIOUS

\* A caller moves.
LEMMA CallerMoves ==
    ASSUME Control, NEW j \in Job, NEW t \in CallerPlace, Goto(j, t),
           UNCHANGED <<flag, signal, shut, lock>>, chan' = chan \/ chan' # << >>
    PROVE  pc' \in [Proc -> CallerPlace \cup WorkerPlace] /\ Placed' /\ InOrder' /\ Locked'
<1>1. /\ pc' \in [Proc -> CallerPlace \cup WorkerPlace]
      /\ pc'[j] = t
      /\ \A p \in Proc : p # j => pc'[p] = pc[p]
      /\ \A w \in Worker : pc'[w] = pc[w]
    BY ShadowAssumption DEF Control, Fixed, Goto, Proc
<1>2. Placed'
    BY <1>1 DEF Control, Placed, Proc
<1>3. InOrder'
    BY <1>1 DEF Control, InOrder
<1>4. Locked'
    BY <1>1 DEF Control, Locked
<1>. QED  BY <1>1, <1>2, <1>3, <1>4

LEMMA TryEnqueueControl ==
    ASSUME Control, NEW j \in Job, TryEnqueue(j)
    PROVE  Control'
<1>1. CASE CheckShutdown(j)
    <2>1. \E t \in CallerPlace : Goto(j, t)
        BY <1>1 DEF CheckShutdown, CallerPlace
    <2>2. UNCHANGED <<flag, signal, shut, lock, chan, items, bytes, job, take, drops, ran>>
        BY <1>1 DEF CheckShutdown
    <2>3. why' \in [Job -> Counters]
        BY <1>1 DEF CheckShutdown, Control, Fixed, Counters
    <2>. QED  BY <2>1, <2>2, <2>3, CallerMoves DEF Control, Fixed
<1>2. CASE ReserveItem(j)
    <2>1. \E t \in CallerPlace : Goto(j, t)
        BY <1>2 DEF ReserveItem, CallerPlace
    <2>2. UNCHANGED <<flag, signal, shut, lock, chan, bytes, job, take, drops, ran>>
        BY <1>2 DEF ReserveItem
    <2>3. why' \in [Job -> Counters]
        BY <1>2 DEF ReserveItem, Control, Fixed, Counters
    <2>4. items' \in 0 .. Word - 1
        BY <1>2, ShadowAssumption DEF ReserveItem, Control, Fixed
    <2>. QED  BY <2>1, <2>2, <2>3, <2>4, CallerMoves DEF Control, Fixed
<1>3. CASE ReserveBytes(j)
    <2>1. \E t \in CallerPlace : Goto(j, t)
        BY <1>3 DEF ReserveBytes, CallerPlace
    <2>2. UNCHANGED <<flag, signal, shut, lock, chan, items, why, job, take, drops, ran>>
        BY <1>3 DEF ReserveBytes
    <2>3. bytes' \in 0 .. Word - 1
        BY <1>3, ShadowAssumption DEF ReserveBytes, Control, Fixed
    <2>. QED  BY <2>1, <2>2, <2>3, CallerMoves DEF Control, Fixed
<1>4. CASE UndoItem(j)
    <2>1. \E t \in CallerPlace : Goto(j, t)
        BY <1>4 DEF UndoItem, CallerPlace
    <2>2. UNCHANGED <<flag, signal, shut, lock, chan, bytes, job, take, drops, ran>>
        BY <1>4 DEF UndoItem
    <2>3. why' \in [Job -> Counters]
        BY <1>4 DEF UndoItem, Control, Fixed, Counters
    <2>4. items' \in 0 .. Word - 1
        BY <1>4, MinusType DEF UndoItem, Control, Fixed
    <2>. QED  BY <2>1, <2>2, <2>3, <2>4, CallerMoves DEF Control, Fixed
<1>5. CASE TrySend(j)
    <2>1. \E t \in CallerPlace : Goto(j, t)
        BY <1>5 DEF TrySend, CallerPlace, Releasing
    <2>2. UNCHANGED <<flag, signal, shut, lock, items, bytes, job, take, drops, ran>>
        BY <1>5 DEF TrySend
    <2>3. why' \in [Job -> Counters]
        BY <1>5 DEF TrySend, Control, Fixed, Counters
    <2>4. chan' = chan \/ (chan' \in Seq(Job) /\ chan' # << >>)
        <3>1. Append(chan, j) \in Seq(Job) /\ Append(chan, j) # << >>
            BY Appended DEF Control, Fixed
        <3>. QED  BY <1>5, <3>1 DEF TrySend
    <2>. QED  BY <2>1, <2>2, <2>3, <2>4, CallerMoves DEF Control, Fixed
<1>6. CASE CountEnqueued(j)
    <2>1. \E t \in CallerPlace : Goto(j, t)
        BY <1>6 DEF CountEnqueued, CallerPlace
    <2>2. UNCHANGED <<flag, signal, shut, lock, chan, items, bytes, why, job, take, drops>>
        BY <1>6 DEF CountEnqueued
    <2>3. ran' \in [enqueued : Nat, completed : Nat, cancelled : Nat]
        <3>1. ran \in [enqueued : Nat, completed : Nat, cancelled : Nat]
            BY DEF Control, Fixed
        <3>. QED  BY <1>6, <3>1, RanCounted DEF CountEnqueued
    <2>. QED  BY <2>1, <2>2, <2>3, CallerMoves DEF Control, Fixed
<1>7. CASE CountDrop(j)
    <2>1. \E t \in CallerPlace : Goto(j, t)
        BY <1>7 DEF CountDrop, CallerPlace
    <2>2. UNCHANGED <<flag, signal, shut, lock, chan, items, bytes, why, job, take, ran>>
        BY <1>7 DEF CountDrop
    <2>3. why[j] \in Counters
        BY DEF Control, Fixed
    <2>4. drops' \in [item : Nat, byte : Nat, shutdown : Nat]
        BY <1>7, <2>3, DropCounted DEF CountDrop, Control, Fixed
    <2>. QED  BY <2>1, <2>2, <2>4, CallerMoves DEF Control, Fixed
<1>. QED  BY <1>1, <1>2, <1>3, <1>4, <1>5, <1>6, <1>7 DEF TryEnqueue
\* A worker moves: the mutex and the channel are as its new place says, and
\* the others find them as they left them.
LEMMA WorkerMoves ==
    ASSUME Control, NEW v \in Worker, NEW t \in WorkerPlace, Goto(v, t),
           UNCHANGED <<flag, signal, shut>>,
           t \in {"exit", "cancelled", "tally cancelled"} => flag,
           t \in {"select", "recv"} <=> lock' = v,
           t = "recv" => chan' # << >>,
           \A w \in Worker \ {v} : /\ lock' = w <=> lock = w
                                   /\ pc[w] = "recv" => chan' # << >>
    PROVE  pc' \in [Proc -> CallerPlace \cup WorkerPlace] /\ Placed' /\ InOrder' /\ Locked'
<1>1. /\ pc' \in [Proc -> CallerPlace \cup WorkerPlace]
      /\ pc'[v] = t
      /\ \A w \in Worker : w # v => pc'[w] = pc[w]
      /\ \A j \in Job : pc'[j] = pc[j]
    BY ShadowAssumption DEF Control, Fixed, Goto, Proc
<1>2. Placed'
    BY <1>1 DEF Control, Placed
<1>3. InOrder'
    BY <1>1 DEF Control, InOrder
<1>4. Locked'
    <2>. SUFFICES ASSUME NEW w \in Worker
                  PROVE  /\ pc'[w] \in {"select", "recv"} <=> lock' = w
                         /\ pc'[w] = "recv" => chan' # << >>
        BY DEF Locked
    <2>1. CASE w = v
        BY <1>1, <2>1
    <2>2. CASE w # v
        <3>1. pc'[w] = pc[w] /\ (lock' = w <=> lock = w) /\ (pc[w] = "recv" => chan' # << >>)
            BY <1>1, <2>2
        <3>2. pc[w] \in {"select", "recv"} <=> lock = w
            BY DEF Control, Locked
        <3>. QED  BY <3>1, <3>2
    <2>. QED  BY <2>1, <2>2
<1>. QED  BY <1>1, <1>2, <1>3, <1>4

\* A worker moves on without the mutex and leaves the channel alone.
LEMMA WorkerGoesOn ==
    ASSUME Control, NEW v \in Worker, NEW t \in WorkerPlace, Goto(v, t),
           UNCHANGED <<flag, signal, shut, lock, chan>>,
           pc[v] \notin {"select", "recv"}, t \notin {"select", "recv"},
           t \in {"exit", "cancelled", "tally cancelled"} => flag
    PROVE  pc' \in [Proc -> CallerPlace \cup WorkerPlace] /\ Placed' /\ InOrder' /\ Locked'
<1>1. lock # v
    BY DEF Control, Locked
<1>2. \A w \in Worker : pc[w] = "recv" => chan # << >>
    BY DEF Control, Locked
<1>. QED  BY <1>1, <1>2, WorkerMoves

LEMMA ReleaseControl ==
    ASSUME Control, NEW p \in Proc, Release(p)
    PROVE  Control'
<1>1. Payload[JobOf(p)] \in Nat
    BY ShadowAssumption DEF JobOf, Control, Fixed, Proc
<1>2. take[p] \in Nat /\ bytes \in Nat /\ items \in Nat
    BY DEF Control, Fixed
<1>3. /\ UNCHANGED <<flag, signal, shut, lock, chan, job, why, drops, ran>>
      /\ \E t \in {"load", "subtract", "drop", "check"} :
            /\ Goto(p, t)
            /\ t = "drop" => p \in Job
            /\ t = "check" => p \notin Job
      /\ pc[p] \in Releasing
    BY DEF Release, ReleaseItem, LoadBytes, SubtractBytes, Releasing
<1>4. items' \in 0 .. Word - 1
    <2>1. Minus(items, 1) \in 0 .. Word - 1 /\ items \in 0 .. Word - 1
        BY <1>2, MinusType DEF Control, Fixed
    <2>. QED  BY <2>1 DEF Release, ReleaseItem, LoadBytes, SubtractBytes
<1>5. bytes' \in 0 .. Word - 1
    <2>1. Minus(bytes, take[p]) \in 0 .. Word - 1 /\ bytes \in 0 .. Word - 1
        BY <1>2, MinusType DEF Control, Fixed
    <2>. QED  BY <2>1 DEF Release, ReleaseItem, LoadBytes, SubtractBytes
<1>6. take' \in [Proc -> Nat]
    <2>1. Min({Payload[JobOf(p)], bytes}) \in Nat
        BY <1>1, <1>2, MinPair
    <2>. QED  BY <2>1 DEF Release, ReleaseItem, LoadBytes, SubtractBytes, Control, Fixed
<1>7. pc' \in [Proc -> CallerPlace \cup WorkerPlace] /\ Placed' /\ InOrder' /\ Locked'
    <2>1. CASE p \in Job
        <3>1. \E t \in CallerPlace : Goto(p, t)
            BY <1>3, <2>1 DEF CallerPlace, Releasing
        <3>. QED  BY <1>3, <2>1, <3>1, CallerMoves
    <2>2. CASE p \in Worker
        <3>1. \E t \in WorkerPlace : Goto(p, t) /\ t \in {"load", "subtract", "check"}
            BY <1>3, <2>2, ShadowAssumption DEF WorkerPlace, Releasing
        <3>2. pc[p] \notin {"select", "recv"}
            BY <1>3 DEF Releasing
        <3>. QED  BY <1>3, <2>2, <3>1, <3>2, WorkerGoesOn
    <2>. QED  BY <2>1, <2>2 DEF Proc
<1>. QED  BY <1>3, <1>4, <1>5, <1>6, <1>7 DEF Control, Fixed

LEMMA WorkerControl ==
    ASSUME Control, NEW v \in Worker, WorkerLoop(v)
    PROVE  Control'
<1>0. v \in Proc /\ pc[v] \in WorkerPlace
    BY DEF Proc, Control, Placed
<1>1. CASE LoopTop(v)
    <2>1. UNCHANGED <<flag, signal, shut, lock, items, bytes, why, job, take, drops, ran>>
        BY <1>1 DEF LoopTop
    <2>2. chan' \in Seq(Job)
        BY <1>1 DEF LoopTop, Control, Fixed
    <2>3. PICK t \in WorkerPlace : Goto(v, t) /\ t \in {"exit", "lock"} /\ (t = "exit" => flag)
        <3>1. "exit" \in WorkerPlace /\ "lock" \in WorkerPlace
            BY DEF WorkerPlace
        <3>2. (flag /\ Goto(v, "exit")) \/ Goto(v, "lock")
            BY <1>1 DEF LoopTop
        <3>. QED  BY <3>1, <3>2, Zenon
    <2>4. lock # v
        BY <1>0, <1>1 DEF LoopTop, Control, Locked
    <2>5. \A w \in Worker \ {v} : pc[w] = "recv" => chan' # << >>
        <3>. SUFFICES ASSUME NEW w \in Worker \ {v}, pc[w] = "recv" PROVE chan' # << >>
            OBVIOUS
        <3>1. chan # << >> /\ w \in Alive
            BY DEF Control, Locked, Alive
        <3>. QED  BY <1>1, <3>1 DEF LoopTop
    <2>6. pc' \in [Proc -> CallerPlace \cup WorkerPlace] /\ Placed' /\ InOrder' /\ Locked'
        BY <2>1, <2>3, <2>4, <2>5, WorkerMoves
    <2>. QED  BY <2>1, <2>2, <2>6 DEF Control, Fixed
<1>2. CASE Lock(v)
    <2>1. UNCHANGED <<flag, signal, shut, chan, items, bytes, why, job, take, drops, ran>>
        BY <1>2 DEF Lock
    <2>2. lock' = v /\ lock = Nobody /\ Goto(v, "select") /\ "select" \in WorkerPlace
        BY <1>2 DEF Lock, WorkerPlace
    <2>3. \A w \in Worker \ {v} : lock' # w /\ lock # w /\ (pc[w] = "recv" => chan' # << >>)
        BY <2>1, <2>2, ShadowAssumption DEF Control, Locked
    <2>4. pc' \in [Proc -> CallerPlace \cup WorkerPlace] /\ Placed' /\ InOrder' /\ Locked'
        BY <2>1, <2>2, <2>3, WorkerMoves
    <2>. QED  BY <2>1, <2>2, <2>4 DEF Control, Fixed
<1>3. CASE Select(v)
    <2>1. UNCHANGED <<flag, signal, shut, items, bytes, why, job, take, drops, ran>>
        BY <1>3 DEF Select
    <2>2. lock = v /\ \A w \in Worker \ {v} : lock # w /\ pc[w] # "recv"
        BY <1>3 DEF Select, Control, Locked
    <2>3. CASE signal /\ Goto(v, "exit") /\ lock' = Nobody /\ chan' \in {<< >>, chan}
        <3>1. flag /\ "exit" \in WorkerPlace
            BY <2>3 DEF Control, InOrder, WorkerPlace
        <3>2. pc' \in [Proc -> CallerPlace \cup WorkerPlace] /\ Placed' /\ InOrder' /\ Locked'
            BY <2>1, <2>2, <2>3, <3>1, ShadowAssumption, WorkerMoves
        <3>3. chan' \in Seq(Job)
            <4>1. chan \in Seq(Job) /\ << >> \in Seq(Job)
                BY DEF Control, Fixed
            <4>. QED  BY <2>3, <4>1, Zenon
        <3>. QED  BY <2>1, <2>3, <3>2, <3>3 DEF Control, Fixed
    <2>4. CASE chan # << >> /\ Goto(v, "recv") /\ UNCHANGED <<lock, chan>>
        <3>1. "recv" \in WorkerPlace
            BY DEF WorkerPlace
        <3>2. pc' \in [Proc -> CallerPlace \cup WorkerPlace] /\ Placed' /\ InOrder' /\ Locked'
            BY <2>1, <2>2, <2>4, <3>1, WorkerMoves
        <3>. QED  BY <2>1, <2>4, <3>2 DEF Control, Fixed
    <2>. QED  BY <1>3, <2>3, <2>4 DEF Select
<1>4. CASE Receive(v)
    <2>1. UNCHANGED <<flag, signal, shut, items, bytes, why, take, drops, ran>>
        BY <1>4 DEF Receive
    <2>2. lock = v /\ chan # << >> /\ \A w \in Worker \ {v} : lock # w /\ pc[w] # "recv"
        BY <1>4 DEF Receive, Control, Locked
    <2>3. Head(chan) \in Job /\ Tail(chan) \in Seq(Job)
        BY <2>2, Taken DEF Control, Fixed
    <2>4. /\ chan' \in Seq(Job) /\ job' \in [Worker -> Job]
          /\ lock' = Nobody /\ Goto(v, "release") /\ "release" \in WorkerPlace
        BY <1>4, <2>3 DEF Receive, Control, Fixed, WorkerPlace, Releasing
    <2>5. pc' \in [Proc -> CallerPlace \cup WorkerPlace] /\ Placed' /\ InOrder' /\ Locked'
        BY <2>1, <2>2, <2>4, ShadowAssumption, WorkerMoves
    <2>. QED  BY <2>1, <2>4, <2>5 DEF Control, Fixed
<1>5. CASE StartOrDrop(v)
    <2>1. UNCHANGED <<flag, signal, shut, lock, chan, items, bytes, why, job, take, ran>>
        BY <1>5 DEF StartOrDrop
    <2>2. \E t \in WorkerPlace : Goto(v, t) /\ t \in {"top", "claim"}
        BY <1>5 DEF StartOrDrop, WorkerPlace
    <2>3. drops' \in [item : Nat, byte : Nat, shutdown : Nat]
        <3>1. "shutdown" \in Counters
            BY DEF Counters
        <3>. QED  BY <1>5, <3>1, DropCounted DEF StartOrDrop, Control, Fixed
    <2>4. pc' \in [Proc -> CallerPlace \cup WorkerPlace] /\ Placed' /\ InOrder' /\ Locked'
        BY <1>5, <2>1, <2>2, WorkerGoesOn DEF StartOrDrop
    <2>. QED  BY <2>1, <2>3, <2>4 DEF Control, Fixed
<1>6. CASE ClaimWorker(v)
    <2>1. UNCHANGED <<flag, signal, shut, lock, chan, items, bytes, why, job, take, drops, ran>>
        BY <1>6 DEF ClaimWorker
    <2>2. pc[v] = "claim" /\ Goto(v, "run") /\ "run" \in WorkerPlace
        BY <1>6 DEF ClaimWorker, WorkerPlace
    <2>3. pc' \in [Proc -> CallerPlace \cup WorkerPlace] /\ Placed' /\ InOrder' /\ Locked'
        BY <2>1, <2>2, WorkerGoesOn
    <2>. QED  BY <2>1, <2>3 DEF Control, Fixed
<1>7. CASE RunJob(v)
    <2>1. UNCHANGED <<flag, signal, shut, lock, chan, items, bytes, why, job, take, drops, ran>>
        BY <1>7 DEF RunJob
    <2>2. \E t \in WorkerPlace : /\ Goto(v, t) /\ t \in {"cancelled", "completed"}
                                 /\ t = "cancelled" => flag
        <3>1. "cancelled" \in WorkerPlace /\ "completed" \in WorkerPlace
            BY DEF WorkerPlace
        <3>2. (flag /\ Goto(v, "cancelled")) \/ Goto(v, "completed")
            BY <1>7 DEF RunJob
        <3>. QED  BY <3>1, <3>2, Zenon
    <2>3. pc' \in [Proc -> CallerPlace \cup WorkerPlace] /\ Placed' /\ InOrder' /\ Locked'
        BY <1>7, <2>1, <2>2, WorkerGoesOn DEF RunJob
    <2>. QED  BY <2>1, <2>3 DEF Control, Fixed
<1>8. CASE FreeWorker(v)
    <2>1. UNCHANGED <<flag, signal, shut, lock, chan, items, bytes, why, job, take, drops, ran>>
        BY <1>8 DEF FreeWorker
    <2>2. \E t \in WorkerPlace : /\ Goto(v, t) /\ t \in {"tally cancelled", "tally completed"}
                                 /\ t = "tally cancelled" => pc[v] = "cancelled"
        BY <1>8, Tallies DEF FreeWorker, WorkerPlace, Outcome
    <2>3. pc[v] = "cancelled" => flag
        BY DEF Control, InOrder
    <2>4. pc' \in [Proc -> CallerPlace \cup WorkerPlace] /\ Placed' /\ InOrder' /\ Locked'
        BY <1>8, <2>1, <2>2, <2>3, WorkerGoesOn DEF FreeWorker, Outcome
    <2>. QED  BY <2>1, <2>4 DEF Control, Fixed
<1>9. CASE CountOutcome(v)
    <2>1. UNCHANGED <<flag, signal, shut, lock, chan, items, bytes, why, job, take, drops>>
        BY <1>9 DEF CountOutcome
    <2>2. pc[v] \notin {"select", "recv"} /\ Goto(v, "top") /\ "top" \in WorkerPlace
        BY <1>9, Tallies DEF CountOutcome, WorkerPlace, Outcome
    <2>3. ran' \in [enqueued : Nat, completed : Nat, cancelled : Nat]
        <3>1. ran \in [enqueued : Nat, completed : Nat, cancelled : Nat]
            BY DEF Control, Fixed
        <3>. QED  BY <1>9, <3>1, RanCounted DEF CountOutcome, Outcome
    <2>4. pc' \in [Proc -> CallerPlace \cup WorkerPlace] /\ Placed' /\ InOrder' /\ Locked'
        BY <2>1, <2>2, WorkerGoesOn
    <2>. QED  BY <2>1, <2>3, <2>4 DEF Control, Fixed
<1>. QED  BY <1>1, <1>2, <1>3, <1>4, <1>5, <1>6, <1>7, <1>8, <1>9 DEF WorkerLoop

LEMMA ShutdownControl ==
    ASSUME Control, Shutdown
    PROVE  Control'
<1>1. UNCHANGED <<lock, chan, pc, why, job, take, ran>>
    BY DEF Shutdown, SetFlag, SendSignal, SwapItems, SwapBytes
<1>2. Placed' /\ Locked'
    BY <1>1 DEF Control, Placed, Locked
<1>3. InOrder' /\ flag' \in BOOLEAN /\ signal' \in BOOLEAN
      /\ shut' \in {"no", "flagged", "signalled", "items", "done"}
    <2>1. CASE SetFlag
        <3>1. flag' = TRUE /\ signal' = signal /\ shut = "no" /\ shut' = "flagged" /\ signal = FALSE
            BY <2>1 DEF SetFlag, Control, InOrder, Fixed
        <3>. QED  BY <1>1, <3>1 DEF Control, InOrder, Fixed
    <2>2. CASE SendSignal
        <3>1. flag' = TRUE /\ signal' = TRUE /\ shut = "flagged" /\ shut' = "signalled"
            BY <2>2 DEF SendSignal, Control, InOrder, Fixed
        <3>. QED  BY <1>1, <3>1 DEF Control, InOrder, Fixed
    <2>3. CASE SwapItems \/ SwapBytes
        <3>1. /\ flag' = flag /\ signal' = signal /\ flag = TRUE /\ signal = TRUE
              /\ shut' \in {"items", "done"}
            BY <2>3 DEF SwapItems, SwapBytes, Control, InOrder, Fixed
        <3>. QED  BY <1>1, <3>1 DEF Control, InOrder, Fixed
    <2>. QED  BY <2>1, <2>2, <2>3 DEF Shutdown
<1>4. items' \in 0 .. Word - 1 /\ bytes' \in 0 .. Word - 1
    BY ShadowAssumption DEF Control, Fixed, Shutdown, SetFlag, SendSignal, SwapItems, SwapBytes
<1>5. drops' \in [item : Nat, byte : Nat, shutdown : Nat]
    <2>1. drops \in [item : Nat, byte : Nat, shutdown : Nat] /\ items \in Nat
        BY DEF Control, Fixed
    <2>2. PICK n \in Nat : n = drops.shutdown + items
        BY <2>1
    <2>3. [drops EXCEPT !.shutdown = n] \in [item : Nat, byte : Nat, shutdown : Nat]
        BY <2>1, DropsTo
    <2>. QED  BY <2>1, <2>2, <2>3 DEF Shutdown, SetFlag, SendSignal, SwapItems, SwapBytes
<1>. QED  BY <1>1, <1>2, <1>3, <1>4, <1>5 DEF Control, Fixed

LEMMA ControlStep ==
    ASSUME Control, [Next]_vars
    PROVE  Control'
<1>1. CASE UNCHANGED vars
    BY <1>1 DEF vars, Control, Fixed, Placed, InOrder, Locked
<1>. QED
    BY <1>1, TryEnqueueControl, ReleaseControl, WorkerControl, ShutdownControl DEF Next

-----------------------------------------------------------------------------
(* A job is in one place.                                                  *)

Past == {"count", "accepted"}

LEMMA HoldersNotPast ==
    \A p : (pc[p] \in Past => ~HoldsBytes(p)) /\ (pc'[p] \in Past => ~HoldsBytes(p)')
BY DEF Past, HoldsBytes, Releasing

\* Nothing is sent or received.
LEMMA PlaceKept ==
    ASSUME Control, Sent, OnePlace, chan' \in {chan, << >>}, job' = job,
           \A j \in Job : pc[j] \in Past => pc'[j] \in Past,
           \A w \in Worker : HasJob(w)' => HasJob(w)
    PROVE  Sent' /\ OnePlace'
<1>1. chan \in Seq(Job) /\ job \in [Worker -> Job] /\ Queued \subseteq Job
    BY DEF Control, Fixed, Queued
<1>2. /\ Queued' \subseteq Queued
      /\ \A i, k \in DOMAIN chan' : chan'[i] = chan'[k] => i = k
    <2>1. CASE chan' = chan
        BY <2>1 DEF Queued, OnePlace
    <2>2. CASE chan' = << >>
        <3>1. DOMAIN chan' = {}
            BY <2>2
        <3>. QED  BY <3>1 DEF Queued
    <2>. QED  BY <2>1, <2>2
<1>3. Sent'
    <2>1. \A j \in Queued' : pc'[j] \in Past
        BY <1>1, <1>2 DEF Sent, Past
    <2>2. \A w \in Worker : HasJob(w)' => pc'[job'[w]] \in Past
        BY <1>1 DEF Sent, Past
    <2>. QED  BY <2>1, <2>2 DEF Sent, Past
<1>4. \A j \in Job : HoldsBytes(j)' => j \notin Queued'
    BY <1>3, HoldersNotPast DEF Sent, Past
<1>5. \A w \in Worker : HasJob(w)' => job'[w] \notin Queued' /\ ~HoldsBytes(job[w])'
    <2>. SUFFICES ASSUME NEW w \in Worker, HasJob(w)'
                  PROVE  job'[w] \notin Queued' /\ ~HoldsBytes(job[w])'
        OBVIOUS
    <2>1. HasJob(w) /\ job[w] \notin Queued
        BY DEF OnePlace
    <2>2. pc'[job[w]] \in Past
        BY <1>3 DEF Sent, Past
    <2>. QED  BY <1>2, <2>1, <2>2, HoldersNotPast
<1>6. \A v, w \in Worker : HasJob(v)' /\ HasJob(w)' /\ job'[v] = job'[w] => v = w
    BY DEF OnePlace
<1>. QED  BY <1>2, <1>3, <1>4, <1>5, <1>6 DEF OnePlace, HoldsBytes

\* A step of a caller that sends nothing.
LEMMA PlaceCaller ==
    ASSUME Control, Sent, OnePlace, chan' = chan, job' = job, NEW j \in Job, NEW t,
           Goto(j, t), pc[j] \notin Past \/ t \in Past
    PROVE  Sent' /\ OnePlace'
<1>1. /\ pc'[j] = t
      /\ \A p \in Proc : p # j => pc'[p] = pc[p]
    BY DEF Control, Fixed, Goto, Proc
<1>2. \A i \in Job : pc[i] \in Past => pc'[i] \in Past
    BY <1>1 DEF Proc
<1>3. \A w \in Worker : pc'[w] = pc[w]
    BY <1>1, ShadowAssumption DEF Proc
<1>4. \A w \in Worker : HasJob(w)' => HasJob(w)
    BY <1>3 DEF HasJob
<1>. QED  BY <1>2, <1>4, PlaceKept

\* A step of a worker that receives nothing.
LEMMA PlaceWorker ==
    ASSUME Control, Sent, OnePlace, chan' \in {chan, << >>}, job' = job, NEW v \in Worker, NEW t,
           Goto(v, t),
           \/ HasJob(v)
           \/ t \in {"top", "lock", "select", "recv", "exit"}
    PROVE  Sent' /\ OnePlace'
<1>1. /\ pc'[v] = t
      /\ \A p \in Proc : p # v => pc'[p] = pc[p]
    BY DEF Control, Fixed, Goto, Proc
<1>2. \A i \in Job : pc[i] \in Past => pc'[i] \in Past
    BY <1>1, ShadowAssumption DEF Proc
<1>4. \A w \in Worker : HasJob(w)' => HasJob(w)
    BY <1>1 DEF HasJob, Proc
<1>. QED  BY <1>2, <1>4, PlaceKept

LEMMA PlaceSent ==
    ASSUME Control, Sent, OnePlace, NEW j \in Job, pc[j] = "send",
           chan' = Append(chan, j), Goto(j, "count"), job' = job
    PROVE  Sent' /\ OnePlace'
<1>1. chan \in Seq(Job) /\ job \in [Worker -> Job] /\ Queued \subseteq Job /\ Len(chan) \in Nat
    BY DEF Control, Fixed, Queued
<1>2. /\ pc'[j] = "count"
      /\ \A p \in Proc : p # j => pc'[p] = pc[p]
    BY DEF Control, Fixed, Goto, Proc
<1>3. /\ j \notin Queued
      /\ \A w \in Worker : HasJob(w) => job[w] # j
    BY DEF Sent
<1>4. \A w \in Worker : HasJob(w)' <=> HasJob(w)
    BY <1>2, ShadowAssumption DEF HasJob, Proc
<1>5. /\ DOMAIN chan = 1 .. Len(chan) /\ DOMAIN chan' = 1 .. Len(chan) + 1
      /\ \A i \in 1 .. Len(chan) : chan'[i] = chan[i]
      /\ chan'[Len(chan) + 1] = j
    BY <1>1, Appended
<1>6. Queued' = Queued \cup {j}
    <2>1. \A x : x \in Queued' <=> \E i \in 1 .. Len(chan) + 1 : x = chan'[i]
        BY <1>5 DEF Queued
    <2>2. \A x : x \in Queued <=> \E i \in 1 .. Len(chan) : x = chan[i]
        BY <1>5 DEF Queued
    <2>. QED  BY <1>1, <1>5, <2>1, <2>2
<1>7. \A i, k \in DOMAIN chan' : chan'[i] = chan'[k] => i = k
    <2>1. \A i \in 1 .. Len(chan) : chan'[i] # j
        BY <1>3, <1>5 DEF Queued
    <2>2. \A i, k \in 1 .. Len(chan) : chan[i] = chan[k] => i = k
        BY <1>5 DEF OnePlace
    <2>. QED  BY <1>1, <1>5, <2>1, <2>2
<1>8. \A i \in Job : pc[i] \in Past => pc'[i] \in Past
    BY <1>2 DEF Past, Proc
<1>9. Sent'
    <2>1. \A i \in Queued' : pc'[i] \in Past
        BY <1>1, <1>2, <1>6, <1>8 DEF Sent, Past
    <2>2. \A w \in Worker : HasJob(w)' => pc'[job'[w]] \in Past
        BY <1>1, <1>4, <1>8 DEF Sent, Past
    <2>. QED  BY <2>1, <2>2 DEF Sent, Past
<1>10. \A i \in Job : HoldsBytes(i)' => i \notin Queued'
    BY <1>9, HoldersNotPast DEF Sent, Past
<1>11. \A w \in Worker : HasJob(w)' => job'[w] \notin Queued' /\ ~HoldsBytes(job[w])'
    <2>. SUFFICES ASSUME NEW w \in Worker, HasJob(w)'
                  PROVE  job'[w] \notin Queued' /\ ~HoldsBytes(job[w])'
        OBVIOUS
    <2>1. HasJob(w) /\ job[w] \notin Queued
        BY <1>4 DEF OnePlace
    <2>2. pc'[job[w]] \in Past
        BY <1>9 DEF Sent, Past
    <2>. QED  BY <1>3, <1>6, <2>1, <2>2, HoldersNotPast
<1>12. \A v, w \in Worker : HasJob(v)' /\ HasJob(w)' /\ job'[v] = job'[w] => v = w
    BY <1>4 DEF OnePlace
<1>. QED  BY <1>7, <1>9, <1>10, <1>11, <1>12 DEF OnePlace, HoldsBytes

\* What a worker receives is taken out of the channel.
LEMMA Received ==
    ASSUME Control, OnePlace, chan # << >>, chan' = Tail(chan)
    PROVE  /\ Head(chan) \in Queued /\ Head(chan) \in Job
           /\ Queued' = Queued \ {Head(chan)}
           /\ \A i, k \in DOMAIN chan' : chan'[i] = chan'[k] => i = k
<1>1. chan \in Seq(Job)
    BY DEF Control, Fixed
<1>2. /\ Head(chan) = chan[1] /\ Head(chan) \in Job
      /\ DOMAIN chan = 1 .. Len(chan) /\ DOMAIN chan' = 1 .. Len(chan) - 1
      /\ \A i \in 1 .. Len(chan) - 1 : chan'[i] = chan[i + 1]
      /\ Len(chan) \in Nat \ {0}
    BY <1>1, Taken
<1>3. \A i, k \in 1 .. Len(chan) : chan[i] = chan[k] => i = k
    BY <1>2 DEF OnePlace
<1>4. \A i, k \in DOMAIN chan' : chan'[i] = chan'[k] => i = k
    BY <1>2, <1>3
<1>5. Head(chan) \in Queued
    BY <1>2 DEF Queued
<1>6. Queued' = Queued \ {Head(chan)}
    <2>1. \A x : x \in Queued' <=> \E i \in 1 .. Len(chan) - 1 : x = chan[i + 1]
        BY <1>2 DEF Queued
    <2>2. \A x : x \in Queued <=> \E i \in 1 .. Len(chan) : x = chan[i]
        BY <1>2 DEF Queued
    <2>3. \A i \in 1 .. Len(chan) - 1 : i + 1 \in 1 .. Len(chan) /\ chan[i + 1] # chan[1]
        BY <1>2, <1>3
    <2>4. \A i \in 1 .. Len(chan) : i = 1 \/ (i - 1 \in 1 .. Len(chan) - 1 /\ (i - 1) + 1 = i)
        BY <1>2
    <2>5. \A x : x \in Queued' => x \in Queued /\ x # chan[1]
        BY <2>1, <2>2, <2>3
    <2>6. \A x : x \in Queued /\ x # chan[1] => x \in Queued'
        <3>. SUFFICES ASSUME NEW x, x \in Queued, x # chan[1] PROVE x \in Queued'
            OBVIOUS
        <3>1. PICK i \in 1 .. Len(chan) : x = chan[i]
            BY <2>2
        <3>2. i - 1 \in 1 .. Len(chan) - 1 /\ x = chan[(i - 1) + 1]
            BY <2>4, <3>1
        <3>. QED  BY <2>1, <3>2
    <2>. QED  BY <1>2, <2>5, <2>6
<1>. QED  BY <1>2, <1>4, <1>5, <1>6

LEMMA PlaceReceived ==
    ASSUME Control, Sent, OnePlace, NEW v \in Worker, Receive(v)
    PROVE  Sent' /\ OnePlace'
<1>0. chan # << >>
    BY DEF Control, Locked, Receive
<1>1. PICK h \in Job : h = Head(chan)
    BY <1>0, Received DEF Receive
<1>2. /\ h \in Queued /\ Queued' = Queued \ {h} /\ Queued \subseteq Job
      /\ \A i, k \in DOMAIN chan' : chan'[i] = chan'[k] => i = k
    <2>1. chan' = Tail(chan)
        BY DEF Receive
    <2>2. Queued \subseteq Job
        BY DEF Control, Fixed, Queued
    <2>. QED  BY <1>0, <1>1, <2>1, <2>2, Received
<1>3. /\ job' \in [Worker -> Job] /\ job \in [Worker -> Job]
      /\ job'[v] = h /\ \A w \in Worker : w # v => job'[w] = job[w]
    BY <1>1 DEF Receive, Control, Fixed
<1>4. /\ pc'[v] = "release"
      /\ \A w \in Worker : w # v => pc'[w] = pc[w]
      /\ \A j \in Job : pc'[j] = pc[j]
    BY ShadowAssumption DEF Control, Fixed, Receive, Goto, Proc
<1>5. \A w \in Worker : w # v => (HasJob(w)' <=> HasJob(w))
    BY <1>4 DEF HasJob
<1>6. Sent'
    <2>1. \A j \in Queued' : pc'[j] \in Past
        BY <1>2, <1>4 DEF Sent, Past
    <2>2. \A w \in Worker : HasJob(w)' => pc'[job'[w]] \in Past
        <3>. SUFFICES ASSUME NEW w \in Worker, HasJob(w)' PROVE pc'[job'[w]] \in Past
            OBVIOUS
        <3>1. CASE w = v
            BY <1>2, <1>3, <1>4, <3>1 DEF Sent, Past
        <3>2. CASE w # v
            BY <1>3, <1>4, <1>5, <3>2 DEF Sent, Past
        <3>. QED  BY <3>1, <3>2
    <2>. QED  BY <2>1, <2>2 DEF Sent, Past
<1>7. \A j \in Job : HoldsBytes(j)' => j \notin Queued'
    BY <1>6, HoldersNotPast DEF Sent, Past
<1>8. \A w \in Worker : HasJob(w) => job[w] # h /\ job[w] \notin Queued
    BY <1>2 DEF OnePlace
<1>9. \A w \in Worker : HasJob(w)' => job'[w] \notin Queued'
    <2>. SUFFICES ASSUME NEW w \in Worker, HasJob(w)' PROVE job'[w] \notin Queued'
        OBVIOUS
    <2>1. CASE w = v
        BY <1>2, <1>3, <2>1
    <2>2. CASE w # v
        BY <1>2, <1>3, <1>5, <1>8, <2>2
    <2>. QED  BY <2>1, <2>2
<1>10. \A w \in Worker : HasJob(w)' => pc'[job'[w]] \notin {"send"} \cup Releasing
    BY <1>6 DEF Sent, Releasing
<1>11. \A u, w \in Worker : HasJob(u)' /\ HasJob(w)' /\ job'[u] = job'[w] => u = w
    <2>. SUFFICES ASSUME NEW u \in Worker, NEW w \in Worker, HasJob(u)', HasJob(w)',
                         job'[u] = job'[w], u # w
                  PROVE  FALSE
        OBVIOUS
    <2>1. CASE u = v
        BY <1>3, <1>5, <1>8, <2>1
    <2>2. CASE w = v
        BY <1>3, <1>5, <1>8, <2>2
    <2>3. CASE u # v /\ w # v
        BY <1>3, <1>5, <2>3 DEF OnePlace
    <2>. QED  BY <2>1, <2>2, <2>3
<1>. QED  BY <1>2, <1>6, <1>7, <1>9, <1>10, <1>11 DEF OnePlace, HoldsBytes

LEMMA PlaceStep ==
    ASSUME Control, Sent, OnePlace, [Next]_vars
    PROVE  Sent' /\ OnePlace'
<1>1. ASSUME NEW j \in Job, TryEnqueue(j)
      PROVE  Sent' /\ OnePlace'
    <2>1. CASE pc[j] = "send" /\ chan' = Append(chan, j)
        BY <2>1, <1>1, PlaceSent
           DEF TryEnqueue, CheckShutdown, ReserveItem, ReserveBytes, UndoItem, TrySend, CountEnqueued,
               CountDrop
    <2>2. CASE ~ (pc[j] = "send" /\ chan' = Append(chan, j))
        <3>1. chan' = chan /\ job' = job
            BY <1>1, <2>2 DEF TryEnqueue, CheckShutdown, ReserveItem, ReserveBytes, UndoItem, TrySend,
                              CountEnqueued, CountDrop
        <3>2. \E t : Goto(j, t) /\ (pc[j] \notin Past \/ t \in Past)
            BY <1>1 DEF TryEnqueue, CheckShutdown, ReserveItem, ReserveBytes, UndoItem, TrySend,
                        CountEnqueued, CountDrop, Past
        <3>. QED  BY <3>1, <3>2, PlaceCaller
    <2>. QED  BY <2>1, <2>2
<1>2. ASSUME NEW p \in Proc, Release(p)
      PROVE  Sent' /\ OnePlace'
    <2>1. chan' = chan /\ job' = job /\ pc[p] \in Releasing /\ \E t : Goto(p, t)
        BY <1>2 DEF Release, ReleaseItem, LoadBytes, SubtractBytes, Releasing
    <2>2. CASE p \in Job
        <3>1. pc[p] \notin Past
            BY <2>1 DEF Releasing, Past
        <3>. QED  BY <2>1, <2>2, <3>1, PlaceCaller
    <2>3. CASE p \in Worker
        <3>1. HasJob(p)
            BY <2>1 DEF Releasing, HasJob
        <3>. QED  BY <2>1, <2>3, <3>1, PlaceWorker
    <2>. QED  BY <2>2, <2>3 DEF Proc
<1>3. ASSUME NEW v \in Worker, WorkerLoop(v)
      PROVE  Sent' /\ OnePlace'
    <2>1. CASE Receive(v)
        BY <2>1, PlaceReceived
    <2>2. CASE LoopTop(v) \/ Lock(v) \/ Select(v)
        <3>1. chan' \in {chan, << >>} /\ job' = job
            BY <2>2 DEF LoopTop, Lock, Select
        <3>2. \E t \in {"top", "lock", "select", "recv", "exit"} : Goto(v, t)
            BY <2>2 DEF LoopTop, Lock, Select
        <3>. QED  BY <3>1, <3>2, PlaceWorker
    <2>3. CASE \/ StartOrDrop(v) \/ ClaimWorker(v) \/ RunJob(v) \/ FreeWorker(v) \/ CountOutcome(v)
        <3>1. chan' = chan /\ job' = job /\ \E t : Goto(v, t)
            BY <2>3 DEF StartOrDrop, ClaimWorker, RunJob, FreeWorker, CountOutcome
        <3>2. HasJob(v)
            BY <2>3, Tallies DEF StartOrDrop, ClaimWorker, RunJob, FreeWorker, CountOutcome, Outcome, HasJob
        <3>. QED  BY <3>1, <3>2, PlaceWorker
    <2>. QED  BY <1>3, <2>1, <2>2, <2>3 DEF WorkerLoop
<1>4. ASSUME Shutdown \/ UNCHANGED vars
      PROVE  Sent' /\ OnePlace'
    <2>1. chan' = chan /\ job' = job /\ pc' = pc
        BY <1>4 DEF Shutdown, SetFlag, SendSignal, SwapItems, SwapBytes, vars
    <2>. QED  BY <2>1, PlaceKept DEF HasJob
<1>. QED  BY <1>1, <1>2, <1>3, <1>4 DEF Next

-----------------------------------------------------------------------------
(* Counting those that are somewhere.                                      *)

\* Sets that differ at most in p.
LEMMA CountMove ==
    ASSUME NEW F, IsFiniteSet(F), NEW G, NEW p, \A x : x # p => (x \in F <=> x \in G)
    PROVE  /\ IsFiniteSet(G) /\ Cardinality(F) \in Nat /\ Cardinality(G) \in Nat
           /\ (p \in F <=> p \in G) => Cardinality(G) = Cardinality(F)
           /\ p \notin F /\ p \in G => Cardinality(G) = Cardinality(F) + 1
           /\ p \in F /\ p \notin G => Cardinality(F) = Cardinality(G) + 1
<1>1. CASE p \in F <=> p \in G
    <2>1. F = G
        BY <1>1
    <2>. QED  BY <1>1, <2>1, FS_CardinalityType
<1>2. CASE p \notin F /\ p \in G
    <2>1. G = F \cup {p}
        BY <1>2
    <2>. QED  BY <1>2, <2>1, FS_AddElement, FS_CardinalityType
<1>3. CASE p \in F /\ p \notin G
    <2>1. G = F \ {p}
        BY <1>3
    <2>2. IsFiniteSet(G) /\ Cardinality(G) = Cardinality(F) - 1
        BY <1>3, <2>1, FS_RemoveElement
    <2>3. Cardinality(F) \in Nat /\ Cardinality(G) \in Nat
        BY <2>2, FS_CardinalityType
    <2>4. ASSUME NEW a \in Nat, NEW b \in Nat, b = a - 1 PROVE a = b + 1
        BY <2>4
    <2>. QED  BY <1>3, <2>2, <2>3, <2>4
<1>. QED  BY <1>1, <1>2, <1>3

SlotPlace == {"bytes", "undo", "send", "release"}
RunPlace == {"run", "cancelled", "completed"}
LeftPlace == {"accepted", "dropped"}
FreePlace == {"top", "lock", "select", "recv", "exit"}

Slots == Cardinality({p \in Proc : pc[p] \in SlotPlace})
Running == Cardinality({w \in Worker : pc[w] \in RunPlace})
Gone == Cardinality({j \in Job : pc[j] \in LeftPlace})
Counting == Cardinality({j \in Job : pc[j] = "count"})
Working == Cardinality({w \in Worker : pc[w] \notin FreePlace})

LEMMA Finite ==
    /\ IsFiniteSet(Proc) /\ IsFiniteSet(Job) /\ IsFiniteSet(Worker)
    /\ Slots \in Nat /\ Running \in Nat /\ Gone \in Nat /\ Counting \in Nat /\ Working \in Nat
    /\ Running <= Cardinality(Worker) /\ Cardinality(Worker) \in Nat
<1>1. IsFiniteSet(Proc) /\ IsFiniteSet(Job) /\ IsFiniteSet(Worker)
    BY ShadowAssumption, FS_Union DEF Proc
<1>2. Slots \in Nat /\ Running \in Nat /\ Gone \in Nat /\ Counting \in Nat /\ Working \in Nat
    BY <1>1, FS_Subset, FS_CardinalityType DEF Slots, Running, Gone, Counting, Working
<1>3. Running <= Cardinality(Worker) /\ Cardinality(Worker) \in Nat
    BY <1>1, FS_Subset, FS_CardinalityType DEF Running
<1>. QED  BY <1>1, <1>2, <1>3

\* A caller moves.
LEMMA CallerCounts ==
    ASSUME Control, NEW j \in Job, NEW t, Goto(j, t)
    PROVE  /\ Slots' \in Nat /\ Gone' \in Nat /\ Counting' \in Nat
           /\ Running' = Running /\ Working' = Working
           /\ (pc[j] \in SlotPlace <=> t \in SlotPlace) => Slots' = Slots
           /\ pc[j] \notin SlotPlace /\ t \in SlotPlace => Slots' = Slots + 1
           /\ pc[j] \in SlotPlace /\ t \notin SlotPlace => Slots = Slots' + 1
           /\ (pc[j] \in LeftPlace <=> t \in LeftPlace) => Gone' = Gone
           /\ pc[j] \notin LeftPlace /\ t \in LeftPlace => Gone' = Gone + 1
           /\ pc[j] # "count" /\ t # "count" => Counting' = Counting
           /\ pc[j] # "count" /\ t = "count" => Counting' = Counting + 1
           /\ pc[j] = "count" /\ t # "count" => Counting = Counting' + 1
<1>1. /\ j \in Proc /\ pc'[j] = t
      /\ \A p \in Proc : p # j => pc'[p] = pc[p]
      /\ \A w \in Worker : pc'[w] = pc[w]
    BY ShadowAssumption DEF Control, Fixed, Goto, Proc
<1>2. Running' = Running /\ Working' = Working
    BY <1>1 DEF Running, Working
<1>3. /\ Slots' \in Nat
      /\ (pc[j] \in SlotPlace <=> t \in SlotPlace) => Slots' = Slots
      /\ pc[j] \notin SlotPlace /\ t \in SlotPlace => Slots' = Slots + 1
      /\ pc[j] \in SlotPlace /\ t \notin SlotPlace => Slots = Slots' + 1
    <2>. DEFINE F == {p \in Proc : pc[p] \in SlotPlace}
    <2>. DEFINE G == {p \in Proc : pc'[p] \in SlotPlace}
    <2>1. IsFiniteSet(F)
        BY Finite, FS_Subset
    <2>2. \A x : x # j => (x \in F <=> x \in G)
        BY <1>1
    <2>3. (j \in F <=> pc[j] \in SlotPlace) /\ (j \in G <=> t \in SlotPlace)
        BY <1>1
    <2>4. Slots = Cardinality(F) /\ Slots' = Cardinality(G)
        BY DEF Slots
    <2>. HIDE DEF F, G
    <2>. QED  BY <2>1, <2>2, <2>3, <2>4, CountMove
<1>4. /\ Gone' \in Nat
      /\ (pc[j] \in LeftPlace <=> t \in LeftPlace) => Gone' = Gone
      /\ pc[j] \notin LeftPlace /\ t \in LeftPlace => Gone' = Gone + 1
    <2>. DEFINE F == {i \in Job : pc[i] \in LeftPlace}
    <2>. DEFINE G == {i \in Job : pc'[i] \in LeftPlace}
    <2>1. IsFiniteSet(F)
        BY Finite, FS_Subset
    <2>2. \A x : x # j => (x \in F <=> x \in G)
        BY <1>1 DEF Proc
    <2>3. (j \in F <=> pc[j] \in LeftPlace) /\ (j \in G <=> t \in LeftPlace)
        BY <1>1
    <2>4. Gone = Cardinality(F) /\ Gone' = Cardinality(G)
        BY DEF Gone
    <2>. HIDE DEF F, G
    <2>. QED  BY <2>1, <2>2, <2>3, <2>4, CountMove
<1>5. /\ Counting' \in Nat
      /\ pc[j] # "count" /\ t # "count" => Counting' = Counting
      /\ pc[j] # "count" /\ t = "count" => Counting' = Counting + 1
      /\ pc[j] = "count" /\ t # "count" => Counting = Counting' + 1
    <2>. DEFINE F == {i \in Job : pc[i] = "count"}
    <2>. DEFINE G == {i \in Job : pc'[i] = "count"}
    <2>1. IsFiniteSet(F)
        BY Finite, FS_Subset
    <2>2. \A x : x # j => (x \in F <=> x \in G)
        BY <1>1 DEF Proc
    <2>3. (j \in F <=> pc[j] = "count") /\ (j \in G <=> t = "count")
        BY <1>1
    <2>4. Counting = Cardinality(F) /\ Counting' = Cardinality(G)
        BY DEF Counting
    <2>. HIDE DEF F, G
    <2>. QED  BY <2>1, <2>2, <2>3, <2>4, CountMove
<1>. QED  BY <1>2, <1>3, <1>4, <1>5

\* A worker moves.
LEMMA WorkerCounts ==
    ASSUME Control, NEW v \in Worker, NEW t, Goto(v, t)
    PROVE  /\ Slots' \in Nat /\ Running' \in Nat /\ Working' \in Nat
           /\ Gone' = Gone /\ Counting' = Counting
           /\ (pc[v] \in SlotPlace <=> t \in SlotPlace) => Slots' = Slots
           /\ pc[v] \notin SlotPlace /\ t \in SlotPlace => Slots' = Slots + 1
           /\ pc[v] \in SlotPlace /\ t \notin SlotPlace => Slots = Slots' + 1
           /\ (pc[v] \in RunPlace <=> t \in RunPlace) => Running' = Running
           /\ pc[v] \notin RunPlace /\ t \in RunPlace => Running' = Running + 1
           /\ pc[v] \in RunPlace /\ t \notin RunPlace => Running = Running' + 1
           /\ (pc[v] \in FreePlace <=> t \in FreePlace) => Working' = Working
           /\ pc[v] \in FreePlace /\ t \notin FreePlace => Working' = Working + 1
           /\ pc[v] \notin FreePlace /\ t \in FreePlace => Working = Working' + 1
<1>1. /\ v \in Proc /\ pc'[v] = t
      /\ \A p \in Proc : p # v => pc'[p] = pc[p]
      /\ \A j \in Job : pc'[j] = pc[j]
    BY ShadowAssumption DEF Control, Fixed, Goto, Proc
<1>2. Gone' = Gone /\ Counting' = Counting
    BY <1>1 DEF Gone, Counting
<1>3. /\ Slots' \in Nat
      /\ (pc[v] \in SlotPlace <=> t \in SlotPlace) => Slots' = Slots
      /\ pc[v] \notin SlotPlace /\ t \in SlotPlace => Slots' = Slots + 1
      /\ pc[v] \in SlotPlace /\ t \notin SlotPlace => Slots = Slots' + 1
    <2>. DEFINE F == {p \in Proc : pc[p] \in SlotPlace}
    <2>. DEFINE G == {p \in Proc : pc'[p] \in SlotPlace}
    <2>1. IsFiniteSet(F)
        BY Finite, FS_Subset
    <2>2. \A x : x # v => (x \in F <=> x \in G)
        BY <1>1
    <2>3. (v \in F <=> pc[v] \in SlotPlace) /\ (v \in G <=> t \in SlotPlace)
        BY <1>1
    <2>4. Slots = Cardinality(F) /\ Slots' = Cardinality(G)
        BY DEF Slots
    <2>. HIDE DEF F, G
    <2>. QED  BY <2>1, <2>2, <2>3, <2>4, CountMove
<1>4. /\ Running' \in Nat
      /\ (pc[v] \in RunPlace <=> t \in RunPlace) => Running' = Running
      /\ pc[v] \notin RunPlace /\ t \in RunPlace => Running' = Running + 1
      /\ pc[v] \in RunPlace /\ t \notin RunPlace => Running = Running' + 1
    <2>. DEFINE F == {w \in Worker : pc[w] \in RunPlace}
    <2>. DEFINE G == {w \in Worker : pc'[w] \in RunPlace}
    <2>1. IsFiniteSet(F)
        BY Finite, FS_Subset
    <2>2. \A x : x # v => (x \in F <=> x \in G)
        BY <1>1 DEF Proc
    <2>3. (v \in F <=> pc[v] \in RunPlace) /\ (v \in G <=> t \in RunPlace)
        BY <1>1
    <2>4. Running = Cardinality(F) /\ Running' = Cardinality(G)
        BY DEF Running
    <2>. HIDE DEF F, G
    <2>. QED  BY <2>1, <2>2, <2>3, <2>4, CountMove
<1>5. /\ Working' \in Nat
      /\ (pc[v] \in FreePlace <=> t \in FreePlace) => Working' = Working
      /\ pc[v] \in FreePlace /\ t \notin FreePlace => Working' = Working + 1
      /\ pc[v] \notin FreePlace /\ t \in FreePlace => Working = Working' + 1
    <2>. DEFINE F == {w \in Worker : pc[w] \notin FreePlace}
    <2>. DEFINE G == {w \in Worker : pc'[w] \notin FreePlace}
    <2>1. IsFiniteSet(F)
        BY Finite, FS_Subset
    <2>2. \A x : x # v => (x \in F <=> x \in G)
        BY <1>1 DEF Proc
    <2>3. (v \in F <=> pc[v] \notin FreePlace) /\ (v \in G <=> t \notin FreePlace)
        BY <1>1
    <2>4. Working = Cardinality(F) /\ Working' = Cardinality(G)
        BY DEF Working
    <2>. HIDE DEF F, G
    <2>. QED  BY <2>1, <2>2, <2>3, <2>4, CountMove
<1>. QED  BY <1>2, <1>3, <1>4, <1>5

LEMMA NobodyMoves ==
    ASSUME pc' = pc
    PROVE  /\ Slots' = Slots /\ Running' = Running /\ Gone' = Gone
           /\ Counting' = Counting /\ Working' = Working
BY DEF Slots, Running, Gone, Counting, Working

-----------------------------------------------------------------------------
(* Steps before shutdown resets the counters.                              *)

\* Nobody comes back: before, there was a worker too.
LEMMA EarlyBefore ==
    ASSUME Control, [Next]_vars, Early'
    PROVE  Early
<1>1. PICK w \in Worker : pc'[w] # "exit"
    BY DEF Early, Alive
<1>2. shut \in {"no", "flagged", "signalled"}
    <2>1. shut' \in {"no", "flagged", "signalled"}
        BY DEF Early
    <2>2. CASE Shutdown
        BY <2>1, <2>2 DEF Shutdown, SetFlag, SendSignal, SwapItems, SwapBytes
    <2>3. CASE UNCHANGED shut
        BY <2>1, <2>3
    <2>4. ASSUME NEW j \in Job, TryEnqueue(j) PROVE UNCHANGED shut
        BY <2>4 DEF TryEnqueue, CheckShutdown, ReserveItem, ReserveBytes, UndoItem, TrySend,
                    CountEnqueued, CountDrop
    <2>5. ASSUME NEW p \in Proc, Release(p) PROVE UNCHANGED shut
        BY <2>5 DEF Release, ReleaseItem, LoadBytes, SubtractBytes
    <2>6. ASSUME NEW v \in Worker, WorkerLoop(v) PROVE UNCHANGED shut
        BY <2>6 DEF WorkerLoop, LoopTop, Lock, Select, Receive, StartOrDrop, ClaimWorker, RunJob,
                    FreeWorker, CountOutcome
    <2>7. UNCHANGED vars => UNCHANGED shut
        BY DEF vars
    <2>. QED  BY <2>2, <2>3, <2>4, <2>5, <2>6, <2>7 DEF Next
<1>3. pc[w] # "exit"
    <2>. SUFFICES ASSUME pc[w] = "exit" PROVE pc'[w] = "exit"
        BY <1>1
    <2>0. w \in Proc /\ pc \in [Proc -> CallerPlace \cup WorkerPlace]
        BY DEF Control, Fixed, Proc
    <2>1. ASSUME NEW p \in Proc, pc[p] # "exit", NEW t, Goto(p, t) PROVE pc'[w] = "exit"
        BY <2>0, <2>1 DEF Goto
    <2>2. ASSUME NEW j \in Job, TryEnqueue(j) PROVE pc'[w] = "exit"
        <3>1. j \in Proc /\ pc[j] # "exit" /\ \E t : Goto(j, t)
            BY <2>2 DEF TryEnqueue, CheckShutdown, ReserveItem, ReserveBytes, UndoItem, TrySend,
                        CountEnqueued, CountDrop, Proc
        <3>. QED  BY <2>1, <3>1
    <2>3. ASSUME NEW p \in Proc, Release(p) PROVE pc'[w] = "exit"
        <3>1. pc[p] # "exit" /\ \E t : Goto(p, t)
            BY <2>3 DEF Release, ReleaseItem, LoadBytes, SubtractBytes
        <3>. QED  BY <2>1, <3>1
    <2>4. ASSUME NEW v \in Worker, WorkerLoop(v) PROVE pc'[w] = "exit"
        <3>1. v \in Proc /\ pc[v] # "exit" /\ \E t : Goto(v, t)
            BY <2>4, Tallies DEF WorkerLoop, LoopTop, Lock, Select, Receive, StartOrDrop, ClaimWorker,
                        RunJob, FreeWorker, CountOutcome, Outcome, Proc
        <3>. QED  BY <2>1, <3>1
    <2>5. CASE UNCHANGED pc
        BY <2>5
    <2>6. Shutdown \/ UNCHANGED vars => UNCHANGED pc
        BY DEF Shutdown, SetFlag, SendSignal, SwapItems, SwapBytes, vars
    <2>. QED  BY <2>2, <2>3, <2>4, <2>5, <2>6 DEF Next
<1>. QED  BY <1>2, <1>3 DEF Early, Alive

\* A worker that leaves others behind leaves them the channel.
LEMMA ChannelKept ==
    ASSUME Control, NEW v \in Worker, LoopTop(v) \/ Select(v), Early'
    PROVE  chan' = chan
<1>1. \A w \in Worker : w # v => pc'[w] = pc[w]
    BY DEF LoopTop, Select, Goto, Control, Fixed, Proc
<1>2. v \in Proc /\ pc \in [Proc -> CallerPlace \cup WorkerPlace]
    BY DEF Control, Fixed, Proc
<1>. SUFFICES ASSUME chan' # chan PROVE FALSE
    OBVIOUS
<1>3. Alive = {v} /\ Goto(v, "exit")
    BY DEF LoopTop, Select
<1>4. pc'[v] = "exit"
    BY <1>2, <1>3 DEF Goto
<1>5. Alive' = {}
    BY <1>1, <1>3, <1>4 DEF Alive
<1>. QED  BY <1>5 DEF Early

-----------------------------------------------------------------------------
(* active_workers.                                                         *)

LEMMA ActiveStep ==
    ASSUME Control, active = Running, [Next]_vars
    PROVE  active' = Running'
<1>0. Running \in Nat
    BY Finite
<1>1. ASSUME NEW j \in Job, TryEnqueue(j) PROVE active' = Running'
    <2>1. active' = active /\ \E t : Goto(j, t)
        BY <1>1 DEF TryEnqueue, CheckShutdown, ReserveItem, ReserveBytes, UndoItem, TrySend,
                    CountEnqueued, CountDrop
    <2>. QED  BY <2>1, CallerCounts
<1>2. ASSUME NEW p \in Proc, Release(p) PROVE active' = Running'
    <2>1. active' = active /\ pc[p] \notin RunPlace /\ \E t : Goto(p, t) /\ t \notin RunPlace
        BY <1>2 DEF Release, ReleaseItem, LoadBytes, SubtractBytes, RunPlace
    <2>. QED  BY <2>1, CallerCounts, WorkerCounts DEF Proc
<1>3. ASSUME NEW v \in Worker, WorkerLoop(v) PROVE active' = Running'
    <2>1. CASE ClaimWorker(v)
        <3>1. active' = active + 1 /\ pc[v] \notin RunPlace /\ Goto(v, "run") /\ "run" \in RunPlace
            BY <2>1 DEF ClaimWorker, RunPlace
        <3>. QED  BY <3>1, WorkerCounts
    <2>2. CASE FreeWorker(v)
        <3>1. /\ active' = active - 1 /\ pc[v] \in RunPlace
              /\ \E t : Goto(v, t) /\ t \notin RunPlace
            BY <2>2, Tallies DEF FreeWorker, RunPlace, Outcome
        <3>2. Running = Running' + 1 /\ Running' \in Nat
            BY <3>1, WorkerCounts
        <3>3. active' = Running - 1
            BY <3>1
        <3>4. Running - 1 = Running'
            <4>1. ASSUME NEW r \in Nat, NEW s \in Nat, r = s + 1 PROVE r - 1 = s
                BY <4>1
            <4>. QED  BY <1>0, <3>2, <4>1, Zenon
        <3>. QED  BY <3>3, <3>4, Zenon
    <2>3. CASE ~ (ClaimWorker(v) \/ FreeWorker(v))
        <3>1. active' = active /\ \E t : Goto(v, t) /\ (pc[v] \in RunPlace <=> t \in RunPlace)
            <4>1. CASE LoopTop(v) \/ Lock(v) \/ Select(v) \/ Receive(v) \/ StartOrDrop(v)
                BY <4>1 DEF LoopTop, Lock, Select, Receive, StartOrDrop, RunPlace
            <4>2. CASE RunJob(v)
                BY <4>2 DEF RunJob, RunPlace
            <4>3. CASE CountOutcome(v)
                <5>1. active' = active /\ Goto(v, "top")
                    BY <4>3 DEF CountOutcome
                <5>2. pc[v] \in {"tally cancelled", "tally completed"}
                    BY <4>3, Tallies DEF CountOutcome, Outcome
                <5>3. pc[v] \notin RunPlace /\ "top" \notin RunPlace
                    BY <5>2 DEF RunPlace
                <5>. QED  BY <5>1, <5>3, Zenon
            <4>. QED  BY <1>3, <2>3, <4>1, <4>2, <4>3 DEF WorkerLoop
        <3>. QED  BY <3>1, WorkerCounts
    <2>. QED  BY <2>1, <2>2, <2>3
<1>4. ASSUME Shutdown \/ UNCHANGED vars PROVE active' = Running'
    <2>1. active' = active /\ pc' = pc
        BY <1>4 DEF Shutdown, SetFlag, SendSignal, SwapItems, SwapBytes, vars
    <2>. QED  BY <2>1, NobodyMoves
<1>. QED  BY <1>1, <1>2, <1>3, <1>4 DEF Next

-----------------------------------------------------------------------------
(* queued_items.                                                           *)

ItemsExact == Early => items = Len(chan) + Slots /\ items <= Capacity

LEMMA MinusExact ==
    ASSUME NEW a \in Nat, NEW b \in Nat, b <= a, a < Word
    PROVE  Minus(a, b) = a - b
BY ShadowAssumption DEF Minus

LEMMA ItemsStep ==
    ASSUME Control, ItemsExact, [Next]_vars
    PROVE  ItemsExact'
<1>. SUFFICES ASSUME Early' PROVE items' = Len(chan') + Slots' /\ items' <= Capacity
    BY DEF ItemsExact
<1>0. /\ Early /\ items = Len(chan) + Slots /\ items <= Capacity
      /\ Slots \in Nat /\ Len(chan) \in Nat /\ items \in Nat /\ items < Word /\ chan \in Seq(Job)
      /\ Capacity \in Nat
    <2>1. Len(chan) \in Nat /\ items \in Nat /\ items < Word /\ chan \in Seq(Job)
        BY ShadowAssumption DEF Control, Fixed
    <2>. QED  BY <2>1, EarlyBefore, Finite, ShadowAssumption DEF ItemsExact
<1>1. ASSUME NEW j \in Job, TryEnqueue(j)
      PROVE  items' = Len(chan') + Slots' /\ items' <= Capacity
    <2>1. CASE ReserveItem(j) /\ items < Capacity
        <3>1. /\ items' = items + 1 /\ chan' = chan /\ pc[j] \notin SlotPlace
              /\ Goto(j, "bytes") /\ "bytes" \in SlotPlace
            BY <1>0, <2>1 DEF ReserveItem, SlotPlace
        <3>2. Slots' = Slots + 1
            BY <3>1, CallerCounts
        <3>. QED  BY <1>0, <2>1, <3>1, <3>2
    <2>2. CASE UndoItem(j)
        <3>1. /\ items' = Minus(items, 1) /\ chan' = chan /\ pc[j] \in SlotPlace
              /\ Goto(j, "drop") /\ "drop" \notin SlotPlace
            BY <2>2 DEF UndoItem, SlotPlace
        <3>2. Slots = Slots' + 1 /\ Slots' \in Nat
            BY <3>1, CallerCounts
        <3>3. items' = items - 1
            BY <1>0, <3>1, <3>2, MinusExact
        <3>. QED  BY <1>0, <3>1, <3>2, <3>3
    <2>3. CASE TrySend(j) /\ chan' # chan
        <3>1. /\ items' = items /\ chan' = Append(chan, j) /\ pc[j] \in SlotPlace
              /\ Goto(j, "count") /\ "count" \notin SlotPlace
            BY <2>3 DEF TrySend, SlotPlace
        <3>2. Slots = Slots' + 1 /\ Slots' \in Nat
            BY <3>1, CallerCounts
        <3>3. Len(chan') = Len(chan) + 1
            BY <1>0, <3>1, Appended
        <3>. QED  BY <1>0, <3>1, <3>2, <3>3
    <2>4. CASE \/ CheckShutdown(j) \/ (ReserveItem(j) /\ ~ (items < Capacity)) \/ ReserveBytes(j)
               \/ (TrySend(j) /\ chan' = chan) \/ CountEnqueued(j) \/ CountDrop(j)
        <3>0. TrySend(j) => chan' = chan \/ chan' = Append(chan, j)
            BY DEF TrySend
        <3>1. Append(chan, j) # chan
            <4>1. Len(Append(chan, j)) = Len(chan) + 1
                BY <1>0, Appended
            <4>. QED  BY <1>0, <4>1
        <3>2. items' = items /\ chan' = chan
            BY <1>0, <2>4 DEF CheckShutdown, ReserveItem, ReserveBytes, TrySend, CountEnqueued, CountDrop
        <3>3. \E t : Goto(j, t) /\ (pc[j] \in SlotPlace <=> t \in SlotPlace)
            BY <1>0, <2>4, <3>1
               DEF CheckShutdown, ReserveItem, ReserveBytes, TrySend, CountEnqueued, CountDrop, SlotPlace
        <3>4. Slots' = Slots
            BY <3>3, CallerCounts
        <3>. QED  BY <1>0, <3>2, <3>4
    <2>. QED  BY <1>1, <2>1, <2>2, <2>3, <2>4 DEF TryEnqueue
<1>2. ASSUME NEW p \in Proc, Release(p)
      PROVE  items' = Len(chan') + Slots' /\ items' <= Capacity
    <2>1. CASE ReleaseItem(p)
        <3>1. /\ items' = Minus(items, 1) /\ chan' = chan /\ pc[p] \in SlotPlace
              /\ Goto(p, "load") /\ "load" \notin SlotPlace
            BY <2>1 DEF ReleaseItem, SlotPlace
        <3>2. Slots = Slots' + 1 /\ Slots' \in Nat
            BY <3>1, CallerCounts, WorkerCounts DEF Proc
        <3>3. items' = items - 1
            BY <1>0, <3>1, <3>2, MinusExact
        <3>. QED  BY <1>0, <3>1, <3>2, <3>3
    <2>2. CASE LoadBytes(p) \/ SubtractBytes(p)
        <3>1. /\ items' = items /\ chan' = chan /\ pc[p] \notin SlotPlace
              /\ \E t : Goto(p, t) /\ t \notin SlotPlace
            BY <2>2 DEF LoadBytes, SubtractBytes, SlotPlace
        <3>2. Slots' = Slots
            BY <3>1, CallerCounts, WorkerCounts DEF Proc
        <3>. QED  BY <1>0, <3>1, <3>2
    <2>. QED  BY <1>2, <2>1, <2>2 DEF Release
<1>3. ASSUME NEW v \in Worker, WorkerLoop(v)
      PROVE  items' = Len(chan') + Slots' /\ items' <= Capacity
    <2>1. CASE Receive(v)
        <3>1. /\ items' = items /\ chan' = Tail(chan) /\ pc[v] \notin SlotPlace
              /\ Goto(v, "release") /\ "release" \in SlotPlace
            BY <2>1 DEF Receive, SlotPlace
        <3>2. Slots' = Slots + 1
            BY <3>1, WorkerCounts
        <3>3. Len(chan') = Len(chan) - 1
            <4>1. chan # << >>
                BY <2>1 DEF Receive, Control, Locked
            <4>. QED  BY <1>0, <3>1, <4>1, Taken
        <3>4. items' = items
            BY <3>1
        <3>. QED  BY <1>0, <3>2, <3>3, <3>4
    <2>2. CASE ~Receive(v)
        <3>1. items' = items /\ \E t : Goto(v, t) /\ pc[v] \notin SlotPlace /\ t \notin SlotPlace
            <4>1. CASE LoopTop(v) \/ Lock(v) \/ Select(v) \/ StartOrDrop(v) \/ ClaimWorker(v)
                BY <4>1 DEF LoopTop, Lock, Select, StartOrDrop, ClaimWorker, SlotPlace
            <4>2. CASE RunJob(v)
                BY <4>2 DEF RunJob, SlotPlace
            <4>3. CASE FreeWorker(v)
                BY <4>3, Tallies DEF FreeWorker, Outcome, SlotPlace
            <4>4. CASE CountOutcome(v)
                <5>1. items' = items /\ Goto(v, "top")
                    BY <4>4 DEF CountOutcome
                <5>2. pc[v] \in {"tally cancelled", "tally completed"}
                    BY <4>4, Tallies DEF CountOutcome, Outcome
                <5>3. pc[v] \notin SlotPlace /\ "top" \notin SlotPlace
                    BY <5>2 DEF SlotPlace
                <5>. QED  BY <5>1, <5>3, Zenon
            <4>. QED  BY <1>3, <2>2, <4>1, <4>2, <4>3, <4>4 DEF WorkerLoop
        <3>2. chan' = chan
            BY <1>3, <2>2, ChannelKept DEF WorkerLoop, Lock, StartOrDrop, ClaimWorker, RunJob,
                    FreeWorker, CountOutcome
        <3>3. Slots' = Slots
            BY <3>1, WorkerCounts
        <3>. QED  BY <1>0, <3>1, <3>2, <3>3
    <2>. QED  BY <2>1, <2>2
<1>4. ASSUME Shutdown \/ UNCHANGED vars
      PROVE  items' = Len(chan') + Slots' /\ items' <= Capacity
    <2>1. items' = items /\ pc' = pc /\ chan' = chan
        BY <1>4 DEF Shutdown, SetFlag, SendSignal, SwapItems, SwapBytes, vars, Early
    <2>. QED  BY <1>0, <2>1, NobodyMoves
<1>. QED  BY <1>1, <1>2, <1>3, <1>4 DEF Next

-----------------------------------------------------------------------------
(* The totals.                                                             *)

JobsExact ==
    ~flag => /\ ran.enqueued + DropTotal(drops) = Gone
             /\ ran.enqueued + Counting = Len(chan) + ran.completed + Working

\* Nothing that is counted moves.
LEMMA TotalsKept ==
    ASSUME Control, JobsExact, ~flag, UNCHANGED <<ran, drops>>, Len(chan') = Len(chan),
           Gone' = Gone, Counting' = Counting, Working' = Working
    PROVE  JobsExact'
BY DEF JobsExact

LEMMA TotalsCaller ==
    ASSUME Control, JobsExact, NEW j \in Job, TryEnqueue(j), ~flag
    PROVE  JobsExact'
<1>0. /\ ran \in [enqueued : Nat, completed : Nat, cancelled : Nat]
      /\ drops \in [item : Nat, byte : Nat, shutdown : Nat]
      /\ chan \in Seq(Job) /\ why[j] \in Counters
    BY DEF Control, Fixed
<1>1. /\ ran.enqueued \in Nat /\ ran.completed \in Nat /\ DropTotal(drops) \in Nat
      /\ Len(chan) \in Nat /\ Gone \in Nat /\ Counting \in Nat /\ Working \in Nat
    BY <1>0, Finite DEF DropTotal
<1>2. /\ ran.enqueued + DropTotal(drops) = Gone
      /\ ran.enqueued + Counting = Len(chan) + ran.completed + Working
    BY DEF JobsExact
<1>3. CASE TrySend(j) /\ chan' # chan
    <2>1. /\ ran' = ran /\ drops' = drops /\ chan' = Append(chan, j) /\ pc[j] = "send"
          /\ Goto(j, "count")
        BY <1>3 DEF TrySend
    <2>2. pc[j] \notin LeftPlace /\ "count" \notin LeftPlace /\ pc[j] # "count"
        BY <2>1 DEF LeftPlace
    <2>3. Gone' = Gone /\ Counting' = Counting + 1 /\ Working' = Working
        BY <2>1, <2>2, CallerCounts
    <2>4. Len(chan') = Len(chan) + 1
        BY <1>0, <2>1, Appended
    <2>5. ran'.enqueued + Counting' = Len(chan') + ran'.completed + Working'
        <3>0. ASSUME NEW e \in Nat, NEW n \in Nat, NEW l \in Nat, NEW c \in Nat, NEW w \in Nat,
                     e + n = l + c + w
              PROVE  e + (n + 1) = (l + 1) + c + w
            BY <3>0
        <3>1. ran.enqueued + (Counting + 1) = (Len(chan) + 1) + ran.completed + Working
            BY <1>1, <1>2, <3>0, SMTT(30)
        <3>. QED  BY <2>1, <2>3, <2>4, <3>1, Zenon
    <2>. QED  BY <1>2, <2>1, <2>3, <2>5 DEF JobsExact
<1>4. CASE CountEnqueued(j)
    <2>1. /\ drops' = drops /\ chan' = chan /\ pc[j] = "count" /\ Goto(j, "accepted")
          /\ ran' = [ran EXCEPT !.enqueued = @ + 1]
        BY <1>4 DEF CountEnqueued
    <2>2. pc[j] \notin LeftPlace /\ "accepted" \in LeftPlace
        BY <2>1 DEF LeftPlace
    <2>3. Gone' = Gone + 1 /\ Counting = Counting' + 1 /\ Working' = Working /\ Counting' \in Nat
        BY <2>1, <2>2, CallerCounts
    <2>4. ran'.enqueued = ran.enqueued + 1 /\ ran'.completed = ran.completed
        BY <1>0, <2>1, RanCounted
    <2>5. ran'.enqueued + DropTotal(drops') = Gone'
        BY <1>1, <1>2, <2>1, <2>3, <2>4
    <2>6. ran'.enqueued + Counting' = Len(chan') + ran'.completed + Working'
        <3>1. Len(chan') = Len(chan)
            BY <2>1
        <3>. QED  BY <1>1, <1>2, <2>3, <2>4, <3>1
    <2>. QED  BY <2>5, <2>6 DEF JobsExact
<1>5. CASE CountDrop(j)
    <2>1. /\ ran' = ran /\ chan' = chan /\ pc[j] = "drop" /\ Goto(j, "dropped")
          /\ drops' = [drops EXCEPT ![why[j]] = @ + 1]
        BY <1>5 DEF CountDrop
    <2>2. pc[j] \notin LeftPlace /\ "dropped" \in LeftPlace
        BY <2>1 DEF LeftPlace
    <2>3. Gone' = Gone + 1 /\ Counting' = Counting /\ Working' = Working
        BY <2>1, <2>2, CallerCounts
    <2>4. DropTotal(drops') = DropTotal(drops) + 1
        BY <1>0, <2>1, DropCounted
    <2>5. ran'.enqueued + DropTotal(drops') = Gone'
        <3>1. ran.enqueued + (DropTotal(drops) + 1) = Gone + 1
            BY <1>1, <1>2
        <3>. QED  BY <2>1, <2>3, <2>4, <3>1, Zenon
    <2>. QED  BY <1>2, <2>1, <2>3, <2>5 DEF JobsExact
<1>6. CASE \/ CheckShutdown(j) \/ ReserveItem(j) \/ ReserveBytes(j) \/ UndoItem(j)
           \/ (TrySend(j) /\ chan' = chan)
    <2>0. Append(chan, j) # chan
        <3>1. Len(Append(chan, j)) = Len(chan) + 1
            BY <1>0, Appended
        <3>. QED  BY <1>1, <3>1
    <2>1. /\ UNCHANGED <<ran, drops, chan>>
          /\ \E t : Goto(j, t) /\ pc[j] \notin LeftPlace /\ t \notin LeftPlace
                    /\ pc[j] # "count" /\ t # "count"
        BY <1>6, <2>0
           DEF CheckShutdown, ReserveItem, ReserveBytes, UndoItem, TrySend, LeftPlace
    <2>2. Gone' = Gone /\ Counting' = Counting /\ Working' = Working
        BY <2>1, CallerCounts
    <2>. QED  BY <2>1, <2>2, TotalsKept
<1>. QED  BY <1>3, <1>4, <1>5, <1>6 DEF TryEnqueue

LEMMA TotalsWorker ==
    ASSUME Control, JobsExact, NEW v \in Worker, WorkerLoop(v), ~flag
    PROVE  JobsExact'
<1>0. /\ ran \in [enqueued : Nat, completed : Nat, cancelled : Nat]
      /\ drops \in [item : Nat, byte : Nat, shutdown : Nat]
      /\ chan \in Seq(Job)
    BY DEF Control, Fixed
<1>1. /\ ran.enqueued \in Nat /\ ran.completed \in Nat /\ DropTotal(drops) \in Nat
      /\ Len(chan) \in Nat /\ Gone \in Nat /\ Counting \in Nat /\ Working \in Nat
    BY <1>0, Finite DEF DropTotal
<1>2. /\ ran.enqueued + DropTotal(drops) = Gone
      /\ ran.enqueued + Counting = Len(chan) + ran.completed + Working
    BY DEF JobsExact
<1>3. CASE Receive(v)
    <2>1. /\ ran' = ran /\ drops' = drops /\ chan' = Tail(chan) /\ pc[v] = "recv"
          /\ Goto(v, "release")
        BY <1>3 DEF Receive
    <2>2. pc[v] \in FreePlace /\ "release" \notin FreePlace
        BY <2>1 DEF FreePlace
    <2>3. Gone' = Gone /\ Counting' = Counting /\ Working' = Working + 1
        BY <2>1, <2>2, WorkerCounts
    <2>4. Len(chan') = Len(chan) - 1
        <3>1. chan # << >>
            BY <2>1 DEF Control, Locked
        <3>. QED  BY <1>0, <2>1, <3>1, Taken
    <2>5. ran'.enqueued + Counting' = Len(chan') + ran'.completed + Working'
        <3>1. ran'.enqueued = ran.enqueued /\ ran'.completed = ran.completed
            BY <2>1
        <3>. QED  BY <1>1, <1>2, <2>3, <2>4, <3>1
    <2>. QED  BY <1>2, <2>1, <2>3, <2>5 DEF JobsExact
<1>4. CASE CountOutcome(v)
    <2>1. /\ drops' = drops /\ chan' = chan /\ pc[v] = "tally completed" /\ Goto(v, "top")
          /\ ran' = [ran EXCEPT !.completed = @ + 1]
        <3>1. pc[v] # "tally cancelled"
            BY DEF Control, InOrder
        <3>. QED  BY <1>4, <3>1, Tallies DEF CountOutcome, Outcome
    <2>2. pc[v] \notin FreePlace /\ "top" \in FreePlace
        BY <2>1 DEF FreePlace
    <2>3. Gone' = Gone /\ Counting' = Counting /\ Working = Working' + 1 /\ Working' \in Nat
        BY <2>1, <2>2, WorkerCounts
    <2>4. ran'.enqueued = ran.enqueued /\ ran'.completed = ran.completed + 1
        BY <1>0, <2>1, RanCounted
    <2>5. ran'.enqueued + DropTotal(drops') = Gone'
        BY <1>2, <2>1, <2>3, <2>4
    <2>6. ran'.enqueued + Counting' = Len(chan') + ran'.completed + Working'
        <3>1. ASSUME NEW e \in Nat, NEW n \in Nat, NEW l \in Nat, NEW c \in Nat, NEW w \in Nat,
                     NEW x \in Nat, e + n = l + c + w, w = x + 1
              PROVE  e + n = l + (c + 1) + x
            BY <3>1
        <3>3. ran.enqueued + Counting = Len(chan) + (ran.completed + 1) + Working'
            BY <1>1, <1>2, <2>3, <3>1, SMTT(30)
        <3>. QED  BY <2>1, <2>3, <2>4, <3>3, Zenon
    <2>. QED  BY <2>5, <2>6 DEF JobsExact
<1>5. CASE LoopTop(v) \/ Lock(v) \/ Select(v)
    <2>2. ~signal
        BY DEF Control, InOrder
    <2>3. /\ UNCHANGED <<ran, drops, chan>>
          /\ \E t : Goto(v, t) /\ pc[v] \in FreePlace /\ t \in FreePlace
        BY <1>5, <2>2 DEF LoopTop, Lock, Select, FreePlace
    <2>4. Gone' = Gone /\ Counting' = Counting /\ Working' = Working
        BY <2>3, WorkerCounts
    <2>. QED  BY <2>3, <2>4, TotalsKept
<1>6. CASE StartOrDrop(v) \/ ClaimWorker(v) \/ RunJob(v) \/ FreeWorker(v)
    <2>1. /\ UNCHANGED <<ran, drops, chan>>
          /\ \E t : Goto(v, t) /\ pc[v] \notin FreePlace /\ t \notin FreePlace
        <3>1. CASE StartOrDrop(v) \/ ClaimWorker(v)
            BY <3>1 DEF StartOrDrop, ClaimWorker, FreePlace
        <3>2. CASE RunJob(v)
            BY <3>2 DEF RunJob, FreePlace
        <3>3. CASE FreeWorker(v)
            BY <3>3, Tallies DEF FreeWorker, Outcome, FreePlace
        <3>. QED  BY <1>6, <3>1, <3>2, <3>3
    <2>2. Gone' = Gone /\ Counting' = Counting /\ Working' = Working
        BY <2>1, WorkerCounts
    <2>. QED  BY <2>1, <2>2, TotalsKept
<1>. QED  BY <1>3, <1>4, <1>5, <1>6 DEF WorkerLoop

LEMMA TotalsStep ==
    ASSUME Control, JobsExact, [Next]_vars
    PROVE  JobsExact'
<1>. SUFFICES ASSUME ~flag' PROVE JobsExact'
    BY DEF JobsExact
<1>1. ASSUME NEW j \in Job, TryEnqueue(j) PROVE JobsExact'
    <2>1. flag' = flag
        BY <1>1 DEF TryEnqueue, CheckShutdown, ReserveItem, ReserveBytes, UndoItem, TrySend,
                    CountEnqueued, CountDrop
    <2>. QED  BY <1>1, <2>1, TotalsCaller
<1>2. ASSUME NEW p \in Proc, Release(p) PROVE JobsExact'
    <2>1. /\ UNCHANGED <<flag, ran, drops, chan>>
          /\ pc[p] \in Releasing
          /\ \E t \in {"load", "subtract", "drop", "check"} : Goto(p, t)
        BY <1>2 DEF Release, ReleaseItem, LoadBytes, SubtractBytes, Releasing
    <2>2. Gone' = Gone /\ Counting' = Counting /\ Working' = Working
        <3>1. PICK t \in {"load", "subtract", "drop", "check"} : Goto(p, t)
            BY <2>1
        <3>2. /\ pc[p] \notin LeftPlace /\ t \notin LeftPlace /\ pc[p] # "count" /\ t # "count"
              /\ pc[p] \notin FreePlace /\ t \notin FreePlace
            BY <2>1 DEF Releasing, LeftPlace, FreePlace
        <3>. QED  BY <3>1, <3>2, CallerCounts, WorkerCounts DEF Proc
    <2>. QED  BY <2>1, <2>2, TotalsKept
<1>3. ASSUME NEW v \in Worker, WorkerLoop(v) PROVE JobsExact'
    <2>1. flag' = flag
        BY <1>3 DEF WorkerLoop, LoopTop, Lock, Select, Receive, StartOrDrop, ClaimWorker, RunJob,
                    FreeWorker, CountOutcome
    <2>. QED  BY <1>3, <2>1, TotalsWorker
<1>4. ASSUME Shutdown PROVE JobsExact'
    <2>1. flag' = TRUE
        BY <1>4 DEF Shutdown, SetFlag, SendSignal, SwapItems, SwapBytes, Control, InOrder, Fixed
    <2>. QED  BY <2>1
<1>5. ASSUME UNCHANGED vars PROVE JobsExact'
    BY <1>5, NobodyMoves DEF vars, JobsExact
<1>. QED  BY <1>1, <1>2, <1>3, <1>4, <1>5 DEF Next

-----------------------------------------------------------------------------
(* queued_bytes.                                                           *)

Row(j) == {j} \X (1 .. Payload[j])

LEMMA RowCounted ==
    ASSUME NEW j \in Job
    PROVE  IsFiniteSet(Row(j)) /\ Cardinality(Row(j)) = Payload[j] /\ Payload[j] \in Nat
<1>0. PICK n \in Nat : n = Payload[j]
    BY ShadowAssumption
<1>1. IsFiniteSet({j}) /\ Cardinality({j}) = 1
    BY FS_Singleton
<1>2. IsFiniteSet(1 .. n) /\ Cardinality(1 .. n) = n
    BY FS_Interval
<1>3. /\ IsFiniteSet({j} \X (1 .. n))
      /\ Cardinality({j} \X (1 .. n)) = Cardinality({j}) * Cardinality(1 .. n)
    BY <1>1, <1>2, FS_Product, Zenon
<1>4. Row(j) = {j} \X (1 .. n)
    BY <1>0, Zenon DEF Row
<1>. QED  BY <1>0, <1>1, <1>2, <1>3, <1>4

LEMMA PayloadCounted ==
    ASSUME NEW J \in SUBSET Job
    PROVE  IsFiniteSet(UNION {Row(j) : j \in J}) /\ PayloadBytes(J) \in Nat
<1>. DEFINE rows == {Row(j) : j \in J}
            f == [j \in J |-> Row(j)]
<1>1. IsFiniteSet(rows)
    <2>1. f \in Surjection(J, rows)
        BY DEF Surjection
    <2>2. IsFiniteSet(J)
        BY ShadowAssumption, FS_Subset
    <2>. QED  BY <2>1, <2>2, FS_Surjection
<1>2. \A R \in rows : IsFiniteSet(R)
    BY RowCounted
<1>3. IsFiniteSet(UNION rows)
    BY <1>1, <1>2, FS_UNION
<1>. QED  BY <1>3, FS_CardinalityType DEF PayloadBytes, Row

\* One job more.
LEMMA PayloadAdded ==
    ASSUME NEW J \in SUBSET Job, NEW j \in Job, j \notin J
    PROVE  PayloadBytes(J \cup {j}) = PayloadBytes(J) + Payload[j]
<1>. DEFINE C == UNION {Row(i) : i \in J}
<1>1. UNION {Row(i) : i \in J \cup {j}} = C \cup Row(j)
    BY Zenon
<1>2. C \cap Row(j) = {}
    BY DEF Row
<1>3. IsFiniteSet(C) /\ PayloadBytes(J) = Cardinality(C)
    BY PayloadCounted DEF PayloadBytes, Row
<1>4. PayloadBytes(J \cup {j}) = Cardinality(C \cup Row(j))
    BY <1>1, Zenon DEF PayloadBytes, Row
<1>. HIDE DEF C
<1>5. IsFiniteSet(Row(j)) /\ Cardinality(Row(j)) = Payload[j] /\ Payload[j] \in Nat
    BY RowCounted
<1>6. Cardinality(C \cup Row(j)) = Cardinality(C) + Cardinality(Row(j)) - Cardinality(C \cap Row(j))
    BY <1>3, <1>5, FS_Union
<1>7. Cardinality(C \cap Row(j)) = 0
    BY <1>2, FS_EmptySet
<1>8. Cardinality(C) \in Nat
    BY <1>3, FS_CardinalityType
<1>. QED  BY <1>3, <1>4, <1>5, <1>6, <1>7, <1>8

\* One job less.
LEMMA PayloadRemoved ==
    ASSUME NEW J \in SUBSET Job, NEW j \in J
    PROVE  /\ Payload[j] <= PayloadBytes(J)
           /\ PayloadBytes(J \ {j}) = PayloadBytes(J) - Payload[j]
<1>1. PayloadBytes((J \ {j}) \cup {j}) = PayloadBytes(J \ {j}) + Payload[j]
    BY PayloadAdded
<1>2. (J \ {j}) \cup {j} = J
    OBVIOUS
<1>3. PayloadBytes(J) \in Nat /\ PayloadBytes(J \ {j}) \in Nat /\ Payload[j] \in Nat
    BY PayloadCounted, ShadowAssumption
<1>. QED  BY <1>1, <1>2, <1>3

\* The jobs whose payload is charged to the budget.
Charged == Queued \cup {JobOf(p) : p \in {q \in Proc : HoldsBytes(q)}}

Loaded == \A p \in Proc : pc[p] = "subtract" => take[p] = Payload[JobOf(p)]

BytesExact == Early => bytes = PayloadBytes(Charged) /\ bytes <= MaxBytes /\ Loaded

LEMMA ChargedTo ==
    ASSUME Control
    PROVE  /\ \A x : x \in Charged <=> \/ x \in Queued
                                       \/ x \in Job /\ HoldsBytes(x)
                                       \/ \E w \in Worker : HoldsBytes(w) /\ x = job[w]
           /\ Charged \in SUBSET Job
           /\ \A p \in Proc : JobOf(p) \in Job /\ (HoldsBytes(p) => JobOf(p) \in Charged)
           /\ \A w \in Worker : HoldsBytes(w) => HasJob(w)
<1>1. /\ \A j \in Job : j \in Proc /\ JobOf(j) = j
      /\ \A w \in Worker : w \in Proc /\ JobOf(w) = job[w] /\ job[w] \in Job
    BY ShadowAssumption DEF JobOf, Proc, Control, Fixed
<1>2. Queued \subseteq Job
    BY DEF Control, Fixed, Queued
<1>3. \A x : x \in Charged <=> x \in Queued \/ \E p \in Proc : HoldsBytes(p) /\ x = JobOf(p)
    BY DEF Charged
<1>4. \A x : (\E p \in Proc : HoldsBytes(p) /\ x = JobOf(p))
                <=> \/ x \in Job /\ HoldsBytes(x)
                    \/ \E w \in Worker : HoldsBytes(w) /\ x = job[w]
    BY <1>1 DEF Proc
<1>5. \A p \in Proc : JobOf(p) \in Job
    BY <1>1 DEF Proc
<1>6. \A w \in Worker : HoldsBytes(w) => HasJob(w)
    BY DEF HoldsBytes, HasJob, Releasing, Control, Placed, WorkerPlace
<1>. QED  BY <1>2, <1>3, <1>4, <1>5, <1>6

\* Nobody comes to hold or lets go.
LEMMA ChargeKept ==
    ASSUME chan' = chan, job' = job, \A p \in Proc : HoldsBytes(p)' <=> HoldsBytes(p)
    PROVE  Charged' = Charged
BY DEF Charged, Queued, JobOf

LEMMA LoadedKept ==
    ASSUME Loaded, take' = take, job' = job,
           \A p \in Proc : pc'[p] = "subtract" => pc[p] = "subtract"
    PROVE  Loaded'
BY DEF Loaded, JobOf

\* A step on which nothing depends.
LEMMA BytesKept ==
    ASSUME Control, BytesExact, Early, UNCHANGED <<bytes, chan, job, take>>, NEW p \in Proc, NEW t,
           Goto(p, t), t # "subtract",
           pc[p] \in {"send"} \cup Releasing <=> t \in {"send"} \cup Releasing
    PROVE  BytesExact'
<1>1. /\ pc'[p] = t
      /\ \A q \in Proc : q # p => pc'[q] = pc[q]
    BY DEF Goto, Control, Fixed
<1>2. \A q \in Proc : HoldsBytes(q)' <=> HoldsBytes(q)
    BY <1>1 DEF HoldsBytes
<1>3. \A q \in Proc : pc'[q] = "subtract" => pc[q] = "subtract"
    BY <1>1
<1>. QED  BY <1>2, <1>3, ChargeKept, LoadedKept DEF BytesExact

LEMMA BytesReserved ==
    ASSUME Control, Control', Sent, BytesExact, Early, NEW j \in Job, ReserveBytes(j)
    PROVE  BytesExact'
<1>1. /\ UNCHANGED <<chan, job, take>> /\ pc[j] = "bytes" /\ j \in Proc
    BY DEF ReserveBytes, Proc
<1>2. CASE bytes + Payload[j] > MaxBytes
    <2>1. bytes' = bytes /\ Goto(j, "undo") /\ pc[j] \notin {"send"} \cup Releasing
          /\ "undo" \notin {"send"} \cup Releasing
        BY <1>1, <1>2 DEF ReserveBytes, Releasing
    <2>. QED  BY <1>1, <2>1, BytesKept
<1>3. CASE ~ (bytes + Payload[j] > MaxBytes)
    <2>1. bytes' = bytes + Payload[j] /\ Goto(j, "send")
        BY <1>3 DEF ReserveBytes
    <2>2. /\ pc'[j] = "send"
          /\ \A q \in Proc : q # j => pc'[q] = pc[q]
        BY <2>1 DEF Goto, Control, Fixed, Proc
    <2>3. /\ HoldsBytes(j)' /\ ~HoldsBytes(j)
          /\ \A q \in Proc : q # j => (HoldsBytes(q)' <=> HoldsBytes(q))
        BY <1>1, <2>2 DEF HoldsBytes, Releasing
    <2>4. j \notin Charged
        <3>1. j \notin Queued
            BY <1>1 DEF Sent
        <3>2. \A w \in Worker : HoldsBytes(w) => job[w] # j
            BY <1>1, ChargedTo DEF Sent
        <3>. QED  BY <2>3, <3>1, <3>2, ChargedTo
    <2>5. Charged' = Charged \cup {j}
        <3>1. Queued' = Queued /\ \A q \in Proc : JobOf(q)' = JobOf(q)
            BY <1>1 DEF Queued, JobOf
        <3>2. JobOf(j) = j
            BY DEF JobOf
        <3>3. \A x : x \in Charged <=> x \in Queued \/ \E q \in Proc : HoldsBytes(q) /\ x = JobOf(q)
            BY DEF Charged
        <3>4. \A x : x \in Charged' <=> x \in Queued \/ \E q \in Proc : HoldsBytes(q)' /\ x = JobOf(q)
            BY <3>1 DEF Charged
        <3>. QED  BY <1>1, <2>3, <3>2, <3>3, <3>4
    <2>6. PayloadBytes(Charged') = PayloadBytes(Charged) + Payload[j]
        BY <2>4, <2>5, ChargedTo, PayloadAdded
    <2>7. \A q \in Proc : pc'[q] = "subtract" => pc[q] = "subtract"
        BY <2>2
    <2>8. Loaded'
        BY <1>1, <2>7, LoadedKept DEF BytesExact
    <2>9. bytes' <= MaxBytes
        BY <1>3, <2>1, ShadowAssumption DEF Control, Fixed
    <2>. QED  BY <2>1, <2>6, <2>8, <2>9 DEF BytesExact
<1>. QED  BY <1>2, <1>3

\* A job that is sent or received stays charged.
LEMMA BytesMoved ==
    ASSUME Control, Control', Sent, OnePlace, BytesExact, Early,
           UNCHANGED <<bytes, take>>, Charged' = Charged,
           \A p \in Proc : pc'[p] = "subtract" => pc[p] = "subtract" /\ JobOf(p)' = JobOf(p)
    PROVE  BytesExact'
<1>1. Loaded'
    BY DEF BytesExact, Loaded
<1>. QED  BY <1>1 DEF BytesExact

LEMMA BytesSent ==
    ASSUME Control, Control', Sent, OnePlace, BytesExact, Early, NEW j \in Job, TrySend(j)
    PROVE  BytesExact'
<1>1. UNCHANGED <<bytes, job, take>> /\ pc[j] = "send" /\ j \in Proc
    BY DEF TrySend, Proc
<1>2. CASE chan' = chan
    <2>1. Append(chan, j) # chan
        <3>1. Len(Append(chan, j)) = Len(chan) + 1 /\ Len(chan) \in Nat
            BY Appended DEF Control, Fixed
        <3>. QED  BY <3>1
    <2>2. Goto(j, "release") /\ pc[j] \in {"send"} \cup Releasing /\ "release" \in {"send"} \cup Releasing
        BY <1>1, <1>2, <2>1 DEF TrySend, Releasing
    <2>. QED  BY <1>1, <1>2, <2>2, BytesKept
<1>3. CASE chan' # chan
    <2>1. chan' = Append(chan, j) /\ Goto(j, "count")
        BY <1>3 DEF TrySend
    <2>2. /\ pc'[j] = "count"
          /\ \A q \in Proc : q # j => pc'[q] = pc[q]
        BY <2>1 DEF Goto, Control, Fixed, Proc
    <2>3. /\ HoldsBytes(j) /\ ~HoldsBytes(j)'
          /\ \A q \in Proc : q # j => (HoldsBytes(q)' <=> HoldsBytes(q))
        BY <1>1, <2>2 DEF HoldsBytes, Releasing
    <2>4. Queued' = Queued \cup {j}
        <3>0. chan \in Seq(Job) /\ Len(chan) \in Nat
            BY DEF Control, Fixed
        <3>1. /\ DOMAIN chan = 1 .. Len(chan) /\ DOMAIN chan' = 1 .. Len(chan) + 1
              /\ \A i \in 1 .. Len(chan) : chan'[i] = chan[i]
              /\ chan'[Len(chan) + 1] = j
            BY <2>1, <3>0, Appended
        <3>2. \A x : x \in Queued' <=> \E i \in 1 .. Len(chan) + 1 : x = chan'[i]
            BY <3>1 DEF Queued
        <3>3. \A x : x \in Queued <=> \E i \in 1 .. Len(chan) : x = chan[i]
            BY <3>1 DEF Queued
        <3>. QED  BY <3>0, <3>1, <3>2, <3>3
    <2>5. \A q \in Proc : JobOf(q)' = JobOf(q)
        BY <1>1 DEF JobOf
    <2>6. Charged' = Charged
        <3>1. \A x : x \in Charged <=> x \in Queued \/ \E q \in Proc : HoldsBytes(q) /\ x = JobOf(q)
            BY DEF Charged
        <3>2. \A x : x \in Charged' <=> x \in Queued' \/ \E q \in Proc : HoldsBytes(q)' /\ x = JobOf(q)
            BY <2>5 DEF Charged
        <3>3. JobOf(j) = j
            BY DEF JobOf
        <3>. QED  BY <1>1, <2>3, <2>4, <3>1, <3>2, <3>3
    <2>7. \A q \in Proc : pc'[q] = "subtract" => pc[q] = "subtract"
        BY <2>2
    <2>. QED  BY <1>1, <2>5, <2>6, <2>7, BytesMoved
<1>. QED  BY <1>2, <1>3

LEMMA BytesReceived ==
    ASSUME Control, Control', Sent, OnePlace, BytesExact, Early, NEW v \in Worker, Receive(v)
    PROVE  BytesExact'
<1>1. UNCHANGED <<bytes, take>> /\ pc[v] = "recv" /\ v \in Proc /\ v \notin Job /\ chan' = Tail(chan)
    BY ShadowAssumption DEF Receive, Proc
<1>2. PICK h \in Job : h = Head(chan) /\ h \in Queued /\ Queued' = Queued \ {h}
    <2>1. chan # << >>
        BY <1>1 DEF Control, Locked
    <2>. QED  BY <1>1, <2>1, Received
<1>3. /\ pc'[v] = "release"
      /\ \A q \in Proc : q # v => pc'[q] = pc[q]
    BY <1>1 DEF Receive, Goto, Control, Fixed
<1>4. /\ HoldsBytes(v)' /\ ~HoldsBytes(v)
      /\ \A q \in Proc : q # v => (HoldsBytes(q)' <=> HoldsBytes(q))
    BY <1>1, <1>3 DEF HoldsBytes, Releasing
<1>5. /\ JobOf(v)' = h
      /\ \A q \in Proc : q # v => JobOf(q)' = JobOf(q)
    <2>1. job'[v] = h /\ \A w \in Worker : w # v => job'[w] = job[w]
        BY <1>2 DEF Receive, Control, Fixed
    <2>. QED  BY <1>1, <2>1 DEF JobOf, Proc
<1>6. Charged' = Charged
    <2>1. \A x : x \in Charged <=> x \in Queued \/ \E q \in Proc : HoldsBytes(q) /\ x = JobOf(q)
        BY DEF Charged
    <2>2. \A x : x \in Charged' <=> x \in Queued' \/ \E q \in Proc : HoldsBytes(q)' /\ x = JobOf(q)'
        BY DEF Charged
    <2>. QED  BY <1>1, <1>2, <1>4, <1>5, <2>1, <2>2
<1>7. \A q \in Proc : pc'[q] = "subtract" => pc[q] = "subtract" /\ JobOf(q)' = JobOf(q)
    BY <1>3, <1>5
<1>. QED  BY <1>1, <1>6, <1>7, BytesMoved

\* What a release loads is the payload: the counter cannot be below it.
LEMMA BytesLoaded ==
    ASSUME Control, Control', BytesExact, Early, NEW p \in Proc, LoadBytes(p)
    PROVE  BytesExact'
<1>1. /\ UNCHANGED <<bytes, chan, job>> /\ pc[p] = "load" /\ Goto(p, "subtract")
      /\ take' = [take EXCEPT ![p] = Min({Payload[JobOf(p)], bytes})]
    BY DEF LoadBytes
<1>2. /\ pc'[p] = "subtract"
      /\ \A q \in Proc : q # p => pc'[q] = pc[q]
    BY <1>1 DEF Goto, Control, Fixed
<1>3. \A q \in Proc : HoldsBytes(q)' <=> HoldsBytes(q)
    BY <1>1, <1>2 DEF HoldsBytes, Releasing
<1>4. Charged' = Charged
    BY <1>1, <1>3, ChargeKept
<1>5. JobOf(p) \in Job /\ JobOf(p) \in Charged /\ Charged \in SUBSET Job
    <2>1. HoldsBytes(p)
        BY <1>1 DEF HoldsBytes, Releasing
    <2>. QED  BY <2>1, ChargedTo
<1>6. Payload[JobOf(p)] \in Nat /\ Payload[JobOf(p)] <= bytes /\ bytes \in Nat
    <2>1. Payload[JobOf(p)] <= PayloadBytes(Charged)
        BY <1>5, PayloadRemoved
    <2>2. bytes = PayloadBytes(Charged)
        BY DEF BytesExact
    <2>. QED  BY <1>5, <2>1, <2>2, ShadowAssumption DEF Control, Fixed
<1>7. take'[p] = Payload[JobOf(p)] /\ \A q \in Proc : q # p => take'[q] = take[q]
    <2>1. Min({Payload[JobOf(p)], bytes}) = Payload[JobOf(p)]
        BY <1>6, MinPair
    <2>. QED  BY <1>1, <2>1 DEF Control, Fixed
<1>8. Loaded'
    <2>1. \A q \in Proc : JobOf(q)' = JobOf(q)
        BY <1>1 DEF JobOf
    <2>. QED  BY <1>2, <1>7, <2>1 DEF BytesExact, Loaded
<1>. QED  BY <1>1, <1>4, <1>8 DEF BytesExact

LEMMA BytesReleased ==
    ASSUME Control, Control', Sent, OnePlace, BytesExact, Early, NEW p \in Proc, SubtractBytes(p)
    PROVE  BytesExact'
<1>1. /\ UNCHANGED <<chan, job>> /\ pc[p] = "subtract" /\ bytes' = Minus(bytes, take[p])
      /\ \E t \in {"drop", "check"} : Goto(p, t)
    BY DEF SubtractBytes
<1>2. /\ pc'[p] \in {"drop", "check"}
      /\ \A q \in Proc : q # p => pc'[q] = pc[q] /\ take'[q] = take[q]
    BY <1>1 DEF SubtractBytes, Goto, Control, Fixed
<1>3. /\ HoldsBytes(p) /\ ~HoldsBytes(p)'
      /\ \A q \in Proc : q # p => (HoldsBytes(q)' <=> HoldsBytes(q))
    BY <1>1, <1>2 DEF HoldsBytes, Releasing
<1>4. PICK j \in Job : j = JobOf(p)
    BY ChargedTo
<1>5. j \in Charged /\ Charged \in SUBSET Job
    BY <1>3, <1>4, ChargedTo
<1>6. \A q \in Proc : JobOf(q)' = JobOf(q)
    BY <1>1 DEF JobOf
<1>7. j \notin Queued /\ \A q \in Proc : q # p /\ HoldsBytes(q) => JobOf(q) # j
    <2>1. CASE p \in Job
        <3>1. j = p
            BY <1>4, <2>1 DEF JobOf
        <3>2. j \notin Queued
            BY <1>3, <3>1 DEF OnePlace
        <3>3. \A w \in Worker : HoldsBytes(w) => job[w] # j
            BY <1>3, <3>1, ChargedTo DEF OnePlace
        <3>. QED  BY <3>1, <3>2, <3>3 DEF JobOf, Proc
    <2>2. CASE p \in Worker
        <3>1. j = job[p] /\ HasJob(p)
            BY <1>3, <1>4, <2>2, ShadowAssumption, ChargedTo DEF JobOf
        <3>2. j \notin Queued /\ ~HoldsBytes(j)
            BY <2>2, <3>1 DEF OnePlace
        <3>3. \A w \in Worker : HoldsBytes(w) /\ job[w] = j => w = p
            BY <2>2, <3>1, ChargedTo DEF OnePlace
        <3>. QED  BY <3>2, <3>3 DEF JobOf, Proc
    <2>. QED  BY <2>1, <2>2 DEF Proc
<1>8. Charged' = Charged \ {j}
    <2>1. \A x : x \in Charged <=> x \in Queued \/ \E q \in Proc : HoldsBytes(q) /\ x = JobOf(q)
        BY DEF Charged
    <2>2. \A x : x \in Charged' <=> x \in Queued \/ \E q \in Proc : HoldsBytes(q)' /\ x = JobOf(q)
        BY <1>1, <1>6 DEF Charged, Queued
    <2>3. \A x : x \in Charged' => x \in Charged /\ x # j
        BY <1>3, <1>7, <2>1, <2>2
    <2>4. \A x : x \in Charged /\ x # j => x \in Charged'
        BY <1>3, <1>4, <2>1, <2>2
    <2>. QED  BY <2>3, <2>4
<1>9. /\ Payload[j] <= PayloadBytes(Charged)
      /\ PayloadBytes(Charged') = PayloadBytes(Charged) - Payload[j]
    BY <1>5, <1>8, PayloadRemoved
<1>10. bytes = PayloadBytes(Charged) /\ take[p] = Payload[j] /\ bytes <= MaxBytes
    BY <1>1, <1>4 DEF BytesExact, Loaded
<1>11. Payload[j] \in Nat /\ bytes \in Nat /\ bytes < Word /\ MaxBytes \in Nat
    BY ShadowAssumption DEF Control, Fixed
<1>12. bytes' = bytes - Payload[j]
    BY <1>1, <1>9, <1>10, <1>11, MinusExact
<1>13. bytes' = PayloadBytes(Charged') /\ bytes' <= MaxBytes
    BY <1>9, <1>10, <1>11, <1>12
<1>14. Loaded'
    BY <1>2, <1>6 DEF BytesExact, Loaded
<1>. QED  BY <1>13, <1>14 DEF BytesExact

LEMMA BytesStep ==
    ASSUME Control, Sent, OnePlace, BytesExact, [Next]_vars
    PROVE  BytesExact'
<1>. SUFFICES ASSUME Early' PROVE BytesExact'
    BY DEF BytesExact
<1>0. Early /\ Control'
    BY EarlyBefore, ControlStep
<1>1. ASSUME NEW j \in Job, TryEnqueue(j) PROVE BytesExact'
    <2>1. CASE ReserveBytes(j)
        BY <1>0, <2>1, BytesReserved
    <2>2. CASE TrySend(j)
        BY <1>0, <2>2, BytesSent
    <2>3. CASE \/ CheckShutdown(j) \/ ReserveItem(j) \/ UndoItem(j) \/ CountEnqueued(j)
               \/ CountDrop(j)
        <3>1. /\ UNCHANGED <<bytes, chan, job, take>> /\ j \in Proc
              /\ pc[j] \notin {"send"} \cup Releasing
              /\ \E t : Goto(j, t) /\ t # "subtract" /\ t \notin {"send"} \cup Releasing
            BY <2>3 DEF CheckShutdown, ReserveItem, UndoItem, CountEnqueued, CountDrop, Releasing, Proc
        <3>. QED  BY <1>0, <3>1, BytesKept
    <2>. QED  BY <1>1, <2>1, <2>2, <2>3 DEF TryEnqueue
<1>2. ASSUME NEW p \in Proc, Release(p) PROVE BytesExact'
    <2>1. CASE ReleaseItem(p)
        <3>1. /\ UNCHANGED <<bytes, chan, job, take>> /\ Goto(p, "load")
              /\ pc[p] \in {"send"} \cup Releasing /\ "load" \in {"send"} \cup Releasing
            BY <2>1 DEF ReleaseItem, Releasing
        <3>. QED  BY <1>0, <3>1, BytesKept
    <2>2. CASE LoadBytes(p)
        BY <1>0, <2>2, BytesLoaded
    <2>3. CASE SubtractBytes(p)
        BY <1>0, <2>3, BytesReleased
    <2>. QED  BY <1>2, <2>1, <2>2, <2>3 DEF Release
<1>3. ASSUME NEW v \in Worker, WorkerLoop(v) PROVE BytesExact'
    <2>1. CASE Receive(v)
        BY <1>0, <2>1, BytesReceived
    <2>2. CASE ~Receive(v)
        <3>0. v \in Proc
            BY DEF Proc
        <3>1. UNCHANGED <<bytes, job, take>>
            BY <1>3, <2>2 DEF WorkerLoop, LoopTop, Lock, Select, StartOrDrop, ClaimWorker, RunJob,
                    FreeWorker, CountOutcome
        <3>2. chan' = chan
            BY <1>3, <2>2, ChannelKept DEF WorkerLoop, Lock, StartOrDrop, ClaimWorker, RunJob,
                    FreeWorker, CountOutcome
        <3>3. /\ pc[v] \notin {"send"} \cup Releasing
              /\ \E t : Goto(v, t) /\ t # "subtract" /\ t \notin {"send"} \cup Releasing
            <4>1. CASE LoopTop(v) \/ Lock(v) \/ Select(v) \/ StartOrDrop(v) \/ ClaimWorker(v)
                BY <4>1 DEF LoopTop, Lock, Select, StartOrDrop, ClaimWorker, Releasing
            <4>2. CASE RunJob(v)
                BY <4>2 DEF RunJob, Releasing
            <4>3. CASE FreeWorker(v)
                BY <4>3, Tallies DEF FreeWorker, Outcome, Releasing
            <4>4. CASE CountOutcome(v)
                <5>1. Goto(v, "top")
                    BY <4>4 DEF CountOutcome
                <5>2. pc[v] \in {"tally cancelled", "tally completed"}
                    BY <4>4, Tallies DEF CountOutcome, Outcome
                <5>3. pc[v] \notin {"send"} \cup Releasing /\ "top" \notin {"send"} \cup Releasing
                    BY <5>2 DEF Releasing
                <5>. QED  BY <5>1, <5>3
            <4>. QED  BY <1>3, <2>2, <4>1, <4>2, <4>3, <4>4 DEF WorkerLoop
        <3>. QED  BY <1>0, <3>0, <3>1, <3>2, <3>3, BytesKept
    <2>. QED  BY <2>1, <2>2
<1>4. ASSUME Shutdown \/ UNCHANGED vars PROVE BytesExact'
    <2>1. UNCHANGED <<bytes, pc, chan, job, take>>
        BY <1>4 DEF Shutdown, SetFlag, SendSignal, SwapItems, SwapBytes, vars, Early
    <2>2. Charged' = Charged
        BY <2>1, ChargeKept DEF HoldsBytes
    <2>3. Loaded'
        BY <1>0, <2>1, LoadedKept DEF BytesExact
    <2>. QED  BY <1>0, <2>1, <2>2, <2>3 DEF BytesExact
<1>. QED  BY <1>1, <1>2, <1>3, <1>4 DEF Next

-----------------------------------------------------------------------------
(* The theorems.                                                           *)

ShadowInv ==
    /\ Control /\ Sent /\ OnePlace
    /\ ItemsExact /\ BytesExact /\ JobsExact
    /\ active = Running

LEMMA ShadowStarts == Init => ShadowInv
<1>. SUFFICES ASSUME Init PROVE ShadowInv
    OBVIOUS
<1>0. Word \in Nat /\ Word > 0 /\ Capacity \in Nat /\ MaxBytes \in Nat
    BY ShadowAssumption
<1>1. /\ pc \in [Proc -> {"new", "top"}]
      /\ \A j \in Job : pc[j] = "new"
      /\ \A w \in Worker : pc[w] = "top"
    BY ShadowAssumption DEF Init, Proc
<1>2. Control
    <2>1. Fixed
        <3>1. items \in 0 .. Word - 1 /\ bytes \in 0 .. Word - 1
            BY <1>0 DEF Init
        <3>2. job \in [Worker -> Job]
            BY ShadowAssumption DEF Init
        <3>3. pc \in [Proc -> CallerPlace \cup WorkerPlace]
            BY <1>1 DEF CallerPlace, WorkerPlace
        <3>4. why \in [Job -> Counters] /\ take \in [Proc -> Nat] /\ chan \in Seq(Job)
            BY DEF Init, Counters
        <3>5. flag \in BOOLEAN /\ signal \in BOOLEAN
            BY DEF Init
        <3>. QED  BY <3>1, <3>2, <3>3, <3>4, <3>5 DEF Fixed, Init
    <2>2. Placed
        BY <1>1 DEF Placed, CallerPlace, WorkerPlace
    <2>3. InOrder
        BY <1>1 DEF InOrder, Init
    <2>4. Locked
        BY <1>1, ShadowAssumption DEF Locked, Init
    <2>. QED  BY <2>1, <2>2, <2>3, <2>4 DEF Control
<1>3. Queued = {} /\ \A w \in Worker : ~HasJob(w)
    BY <1>1 DEF Init, Queued, HasJob
<1>4. DOMAIN chan = {}
    BY DEF Init
<1>5. \A p \in Proc : ~HoldsBytes(p)
    BY <1>1 DEF HoldsBytes, Releasing, Proc
<1>6. Sent /\ OnePlace
    BY <1>3, <1>4, <1>5 DEF Sent, OnePlace
<1>7. /\ Slots = 0 /\ Running = 0 /\ Gone = 0 /\ Counting = 0 /\ Working = 0
    <2>1. /\ {p \in Proc : pc[p] \in SlotPlace} = {}
          /\ {w \in Worker : pc[w] \in RunPlace} = {}
          /\ {j \in Job : pc[j] \in LeftPlace} = {}
          /\ {j \in Job : pc[j] = "count"} = {}
          /\ {w \in Worker : pc[w] \notin FreePlace} = {}
        BY <1>1 DEF SlotPlace, RunPlace, LeftPlace, FreePlace, Proc
    <2>2. Cardinality({}) = 0
        BY FS_EmptySet
    <2>. QED  BY <2>1, <2>2, Zenon DEF Slots, Running, Gone, Counting, Working
<1>8. ItemsExact
    BY <1>0, <1>7 DEF ItemsExact, Init
<1>9. BytesExact
    <2>1. Charged = {}
        BY <1>3, <1>5 DEF Charged
    <2>2. PayloadBytes({}) = 0
        <3>1. UNION {{j} \X (1 .. Payload[j]) : j \in {}} = {}
            OBVIOUS
        <3>. QED  BY <3>1, FS_EmptySet DEF PayloadBytes
    <2>3. Loaded
        BY <1>1 DEF Loaded, Proc
    <2>. QED  BY <1>0, <2>1, <2>2, <2>3 DEF BytesExact, Init
<1>10. JobsExact
    BY <1>7 DEF JobsExact, Init, DropTotal
<1>. QED  BY <1>2, <1>6, <1>7, <1>8, <1>9, <1>10 DEF ShadowInv, Init

LEMMA ShadowAlways == Spec => []ShadowInv
<1>1. ShadowInv /\ [Next]_vars => ShadowInv'
    BY ControlStep, PlaceStep, ItemsStep, BytesStep, TotalsStep, ActiveStep DEF ShadowInv
<1>. QED  BY <1>1, ShadowStarts, PTL DEF Spec

\* Every variable has its type: above all, a counter never leaves its word, and
\* active_workers never exceeds the pool.
THEOREM ShadowTypeCorrect == Spec => []TypeOK
<1>1. ShadowInv => TypeOK
    <2>. SUFFICES ASSUME ShadowInv PROVE TypeOK
        OBVIOUS
    <2>1. active \in 0 .. Cardinality(Worker)
        BY Finite DEF ShadowInv
    <2>2. {Tally[o] : o \in Outcome} = {"tally cancelled", "tally completed"}
        BY Tallies DEF Outcome
    <2>3. pc \in [Proc -> {"new", "item", "bytes", "undo", "send", "count", "accepted",
                           "drop", "dropped", "top", "lock", "select", "recv", "check",
                           "claim", "run", "exit"}
                          \cup Releasing \cup Outcome \cup {Tally[o] : o \in Outcome}]
        BY <2>2 DEF ShadowInv, Control, Fixed, CallerPlace, WorkerPlace, Outcome
    <2>. QED  BY <2>1, <2>3, Zenon DEF ShadowInv, Control, Fixed, TypeOK, Counters
<1>. QED  BY <1>1, ShadowAlways, PTL

LEMMA SlotsAre == Slots = Cardinality({p \in Proc : HoldsItem(p)})
BY DEF Slots, SlotPlace, HoldsItem

\* No interleaving of callers, workers and shutdown duplicates a job or makes a
\* counter drift: a job is in one place, the reservations are those that are
\* held, the totals account for every job, and active_workers is the number of
\* workers with a job under way.
THEOREM CountersAlwaysExact == Spec => []CountersExact
<1>1. ShadowInv => CountersExact
    <2>. SUFFICES ASSUME ShadowInv PROVE CountersExact
        OBVIOUS
    <2>1. ReservationsExact
        BY SlotsAre DEF ShadowInv, ReservationsExact, ItemsExact, BytesExact, Early, Charged
    <2>2. ActiveExact
        BY DEF ShadowInv, ActiveExact, Running, RunPlace, Outcome
    <2>3. EveryJobCounted
        <3>. SUFFICES ASSUME ~flag
                      PROVE  /\ ran.enqueued + drops.item + drops.byte + drops.shutdown = Gone
                             /\ ran.enqueued + Counting = Len(chan) + ran.completed + Working
            BY DEF EveryJobCounted, Gone, LeftPlace, Counting, Working, FreePlace, HasJob
        <3>1. /\ ran.enqueued \in Nat /\ drops.item \in Nat /\ drops.byte \in Nat
              /\ drops.shutdown \in Nat
            BY DEF ShadowInv, Control, Fixed
        <3>2. ran.enqueued + (drops.item + drops.byte + drops.shutdown) = Gone
            BY DEF ShadowInv, JobsExact, DropTotal
        <3>3. ran.enqueued + Counting = Len(chan) + ran.completed + Working
            BY DEF ShadowInv, JobsExact
        <3>. QED  BY <3>1, <3>2, <3>3
    <2>. QED  BY <2>1, <2>2, <2>3 DEF CountersExact, ShadowInv
<1>. QED  BY <1>1, ShadowAlways, PTL

\* Until shutdown the item cap holds under every interleaving of reservations,
\* and a caller that has reserved a slot finds it free: the bounded channel
\* never refuses what the counter has admitted.
THEOREM ReservationIsPromise == Spec => []ReservedSlotIsFree
<1>1. ShadowInv => ReservedSlotIsFree
    <2>. SUFFICES ASSUME ShadowInv, ~flag
                  PROVE  /\ items <= Capacity
                         /\ \A j \in Job : pc[j] = "send" => Alive # {} /\ Len(chan) < Capacity
        BY DEF ReservedSlotIsFree
    <2>1. Early /\ Alive # {}
        <3>1. PICK w \in Worker : TRUE
            BY ShadowAssumption
        <3>2. pc[w] # "exit" /\ shut = "no"
            BY DEF ShadowInv, Control, InOrder
        <3>. QED  BY <3>1, <3>2 DEF Early, Alive
    <2>2. items = Len(chan) + Slots /\ items <= Capacity
        BY <2>1 DEF ShadowInv, ItemsExact
    <2>3. Len(chan) \in Nat /\ Slots \in Nat /\ Capacity \in Nat
        BY Finite, ShadowAssumption DEF ShadowInv, Control, Fixed
    <2>4. ASSUME NEW j \in Job, pc[j] = "send" PROVE Len(chan) < Capacity
        <3>. DEFINE S == {p \in Proc : pc[p] \in SlotPlace}
        <3>1. j \in S
            BY <2>4 DEF SlotPlace, Proc
        <3>2. IsFiniteSet(S) /\ Slots = Cardinality(S)
            BY Finite, FS_Subset DEF Slots
        <3>. HIDE DEF S
        <3>3. Slots # 0
            BY <3>1, <3>2, FS_EmptySet
        <3>. QED  BY <2>2, <2>3, <3>3
    <2>. QED  BY <2>1, <2>2, <2>4
<1>. QED  BY <1>1, ShadowAlways, PTL
=============================================================================
