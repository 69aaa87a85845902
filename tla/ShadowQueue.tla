----------------------------- MODULE ShadowQueue -----------------------------
(***************************************************************************)
(* The bounded shadow-evaluation queue                                     *)
(* (src/src/gateway/server_sections/runtime_pipeline/shadow_queue.rs).     *)
(*                                                                         *)
(* Callers of try_enqueue, workers and shutdown share atomic counters and  *)
(* a channel and nothing serializes them, so every atomic operation is a   *)
(* step of its own.  A compare-and-exchange loop that retries on the value *)
(* it observed is one step, as is a load with the jump it decides.  The    *)
(* counters are usize: they wrap at Word.                                  *)
(***************************************************************************)
EXTENDS Integers, Sequences, FiniteSets, FiniteSetsExt

CONSTANTS
    Job,        \* jobs, each enqueued by a caller of its own
    Payload,    \* payload_bytes of each job
    Worker,     \* the worker pool
    Nobody,     \* no worker holds the receiver's mutex
    Capacity,   \* capacity: items, and slots of the channel
    MaxBytes,   \* max_bytes
    Word        \* 2^64

ASSUME ShadowAssumption ==
    /\ Payload \in [Job -> Nat]
    /\ Capacity \in Nat \ {0}
    /\ MaxBytes \in Nat
    /\ Word \in Nat
    /\ Word > Capacity + MaxBytes
    /\ IsFiniteSet(Job) /\ Job # {}
    /\ IsFiniteSet(Worker) /\ Worker # {}
    /\ Nobody \notin Worker
    /\ Job \cap Worker = {}

VARIABLES
    flag,     \* shutdown_flag
    signal,   \* shutdown_tx has sent true
    shut,     \* how far shutdown has come
    items,    \* queued_items
    bytes,    \* queued_bytes
    active,   \* active_workers
    chan,     \* jobs in the channel
    lock,     \* worker that holds the receiver's mutex
    pc,       \* where each caller and each worker is
    job,      \* the job a worker has received
    take,     \* what a release has loaded to subtract from queued_bytes
    why,      \* the reason a caller drops its job for
    drops,    \* jobs counted by drops_item_limit, drops_byte_limit, drops_shutdown
    ran       \* jobs counted by enqueued_total, completed_total, cancelled_in_flight

vars == <<flag, signal, shut, items, bytes, active, chan, lock, pc, job, take, why,
          drops, ran>>

Proc == Job \cup Worker

JobOf(p) == IF p \in Job THEN p ELSE job[p]
Goto(p, there) == pc' = [pc EXCEPT ![p] = there]
Minus(a, b) == (a - b) % Word
Alive == {w \in Worker : pc[w] # "exit"}

-----------------------------------------------------------------------------
(* try_enqueue.                                                            *)

CheckShutdown(j) ==
    /\ pc[j] = "new"
    /\ IF flag
       THEN Goto(j, "drop") /\ why' = [why EXCEPT ![j] = "shutdown"]
       ELSE Goto(j, "item") /\ UNCHANGED why
    /\ UNCHANGED <<flag, signal, shut, items, bytes, active, chan, lock, job, take, drops, ran>>

\* Mutation: the cap is passed by one.
ReserveItem_OffByOne(j) ==
    /\ pc[j] = "item"
    /\ IF items > Capacity
       THEN Goto(j, "drop") /\ why' = [why EXCEPT ![j] = "item"] /\ UNCHANGED items
       ELSE Goto(j, "bytes") /\ items' = items + 1 /\ UNCHANGED why
    /\ UNCHANGED <<flag, signal, shut, bytes, active, chan, lock, job, take, drops, ran>>

ReserveItem(j) ==
    /\ pc[j] = "item"
    /\ IF items >= Capacity
       THEN Goto(j, "drop") /\ why' = [why EXCEPT ![j] = "item"] /\ UNCHANGED items
       ELSE Goto(j, "bytes") /\ items' = items + 1 /\ UNCHANGED why
    /\ UNCHANGED <<flag, signal, shut, bytes, active, chan, lock, job, take, drops, ran>>

\* saturating_add: a sum that would wrap exceeds the budget as well.
ReserveBytes(j) ==
    /\ pc[j] = "bytes"
    /\ IF bytes + Payload[j] > MaxBytes
       THEN Goto(j, "undo") /\ UNCHANGED bytes
       ELSE Goto(j, "send") /\ bytes' = bytes + Payload[j]
    /\ UNCHANGED <<flag, signal, shut, items, active, chan, lock, job, take, why, drops, ran>>

\* Mutation: the item slot is not given back.
UndoItem_Keep(j) ==
    /\ pc[j] = "undo"
    /\ Goto(j, "drop")
    /\ why' = [why EXCEPT ![j] = "byte"]
    /\ UNCHANGED <<flag, signal, shut, items, bytes, active, chan, lock, job, take, drops, ran>>

UndoItem(j) ==
    /\ pc[j] = "undo"
    /\ Goto(j, "drop")
    /\ why' = [why EXCEPT ![j] = "byte"]
    /\ items' = Minus(items, 1)
    /\ UNCHANGED <<flag, signal, shut, bytes, active, chan, lock, job, take, drops, ran>>

\* try_send: the channel is closed once the last worker has dropped the
\* receiver.  A refused job releases its reservation.
TrySend(j) ==
    /\ pc[j] = "send"
    /\ IF Alive # {} /\ Len(chan) < Capacity
       THEN /\ chan' = Append(chan, j)
            /\ Goto(j, "count")
            /\ UNCHANGED why
       ELSE /\ why' = [why EXCEPT ![j] = IF Alive = {} THEN "shutdown" ELSE "item"]
            /\ Goto(j, "release")
            /\ UNCHANGED chan
    /\ UNCHANGED <<flag, signal, shut, items, bytes, active, lock, job, take, drops, ran>>

\* enqueued_total is incremented when the job is already in the channel.
CountEnqueued(j) ==
    /\ pc[j] = "count"
    /\ Goto(j, "accepted")
    /\ ran' = [ran EXCEPT !.enqueued = @ + 1]
    /\ UNCHANGED <<flag, signal, shut, items, bytes, active, chan, lock, job, take, why, drops>>

CountDrop(j) ==
    /\ pc[j] = "drop"
    /\ Goto(j, "dropped")
    /\ drops' = [drops EXCEPT ![why[j]] = @ + 1]
    /\ UNCHANGED <<flag, signal, shut, items, bytes, active, chan, lock, job, take, why, ran>>

-----------------------------------------------------------------------------
(* Releasing a reservation: release_reservation, and the same operations   *)
(* in worker_loop.                                                         *)

ReleaseItem(p) ==
    /\ pc[p] = "release"
    /\ Goto(p, "load")
    /\ items' = Minus(items, 1)
    /\ UNCHANGED <<flag, signal, shut, bytes, active, chan, lock, job, take, why, drops, ran>>

LoadBytes(p) ==
    /\ pc[p] = "load"
    /\ Goto(p, "subtract")
    /\ take' = [take EXCEPT ![p] = Min({Payload[JobOf(p)], bytes})]
    /\ UNCHANGED <<flag, signal, shut, items, bytes, active, chan, lock, job, why, drops, ran>>

SubtractBytes(p) ==
    /\ pc[p] = "subtract"
    /\ Goto(p, IF p \in Job THEN "drop" ELSE "check")
    /\ bytes' = Minus(bytes, take[p])
    /\ take' = [take EXCEPT ![p] = 0]
    /\ UNCHANGED <<flag, signal, shut, items, active, chan, lock, job, why, drops, ran>>

-----------------------------------------------------------------------------
(* worker_loop.                                                            *)

\* The last worker to leave drops the receiver and what is in the channel.
LoopTop(w) ==
    /\ pc[w] = "top"
    /\ Goto(w, IF flag THEN "exit" ELSE "lock")
    /\ chan' = IF flag /\ Alive = {w} THEN << >> ELSE chan
    /\ UNCHANGED <<flag, signal, shut, items, bytes, active, lock, job, take, why, drops, ran>>

Lock(w) ==
    /\ pc[w] = "lock"
    /\ lock = Nobody
    /\ lock' = w
    /\ Goto(w, "select")
    /\ UNCHANGED <<flag, signal, shut, items, bytes, active, chan, job, take, why, drops, ran>>

\* The biased select looks at the shutdown signal first.
Select(w) ==
    /\ pc[w] = "select"
    /\ \/ /\ signal
          /\ Goto(w, "exit")
          /\ lock' = Nobody
          /\ chan' = IF Alive = {w} THEN << >> ELSE chan
       \/ /\ ~signal
          /\ chan # << >>
          /\ Goto(w, "recv")
          /\ UNCHANGED <<lock, chan>>
    /\ UNCHANGED <<flag, signal, shut, items, bytes, active, job, take, why, drops, ran>>

\* Mutation: the mutex is held while the job runs.
Receive_KeepLock(w) ==
    /\ pc[w] = "recv"
    /\ job' = [job EXCEPT ![w] = Head(chan)]
    /\ chan' = Tail(chan)
    /\ Goto(w, "release")
    /\ UNCHANGED <<flag, signal, shut, items, bytes, active, lock, take, why, drops, ran>>

Receive(w) ==
    /\ pc[w] = "recv"
    /\ job' = [job EXCEPT ![w] = Head(chan)]
    /\ chan' = Tail(chan)
    /\ lock' = Nobody
    /\ Goto(w, "release")
    /\ UNCHANGED <<flag, signal, shut, items, bytes, active, take, why, drops, ran>>

\* A job received although shutdown has begun is dropped.
StartOrDrop(w) ==
    /\ pc[w] = "check"
    /\ IF flag
       THEN Goto(w, "top") /\ drops' = [drops EXCEPT !.shutdown = @ + 1]
       ELSE Goto(w, "claim") /\ UNCHANGED drops
    /\ UNCHANGED <<flag, signal, shut, items, bytes, active, chan, lock, job, take, why, ran>>

ClaimWorker(w) ==
    /\ pc[w] = "claim"
    /\ Goto(w, "run")
    /\ active' = active + 1
    /\ UNCHANGED <<flag, signal, shut, items, bytes, chan, lock, job, take, why, drops, ran>>

\* run_shadow_job: cancelled when it sees the flag, recorded otherwise.
RunJob(w) ==
    /\ pc[w] = "run"
    /\ Goto(w, IF flag THEN "cancelled" ELSE "completed")
    /\ UNCHANGED <<flag, signal, shut, items, bytes, active, chan, lock, job, take, why, drops, ran>>

Outcome == {"cancelled", "completed"}
Tally == [cancelled |-> "tally cancelled", completed |-> "tally completed"]

FreeWorker(w) ==
    /\ pc[w] \in Outcome
    /\ Goto(w, Tally[pc[w]])
    /\ active' = active - 1
    /\ UNCHANGED <<flag, signal, shut, items, bytes, chan, lock, job, take, why, drops, ran>>

CountOutcome(w) ==
    \E o \in Outcome :
        /\ pc[w] = Tally[o]
        /\ Goto(w, "top")
        /\ ran' = [ran EXCEPT ![o] = @ + 1]
        /\ UNCHANGED <<flag, signal, shut, items, bytes, active, chan, lock, job, take, why, drops>>

-----------------------------------------------------------------------------
(* shutdown.                                                               *)

SetFlag ==
    /\ shut = "no"
    /\ shut' = "flagged"
    /\ flag' = TRUE
    /\ UNCHANGED <<signal, items, bytes, active, chan, lock, pc, job, take, why, drops, ran>>

\* Mutation: the watch channel is not told.
SendSignal_Missing ==
    /\ shut = "flagged"
    /\ shut' = "signalled"
    /\ UNCHANGED <<flag, signal, items, bytes, active, chan, lock, pc, job, take, why, drops, ran>>

SendSignal ==
    /\ shut = "flagged"
    /\ shut' = "signalled"
    /\ signal' = TRUE
    /\ UNCHANGED <<flag, items, bytes, active, chan, lock, pc, job, take, why, drops, ran>>

\* The items still queued are counted as dropped; nobody takes them out.
SwapItems ==
    /\ shut = "signalled"
    /\ shut' = "items"
    /\ items' = 0
    /\ drops' = [drops EXCEPT !.shutdown = @ + items]
    /\ UNCHANGED <<flag, signal, bytes, active, chan, lock, pc, job, take, why, ran>>

SwapBytes ==
    /\ shut = "items"
    /\ shut' = "done"
    /\ bytes' = 0
    /\ UNCHANGED <<flag, signal, items, active, chan, lock, pc, job, take, why, drops, ran>>

-----------------------------------------------------------------------------

Init ==
    /\ flag = FALSE
    /\ signal = FALSE
    /\ shut = "no"
    /\ items = 0
    /\ bytes = 0
    /\ active = 0
    /\ chan = << >>
    /\ lock = Nobody
    /\ pc = [p \in Proc |-> IF p \in Job THEN "new" ELSE "top"]
    /\ job = [w \in Worker |-> CHOOSE j \in Job : TRUE]
    /\ take = [p \in Proc |-> 0]
    /\ why = [j \in Job |-> "item"]
    /\ drops = [item |-> 0, byte |-> 0, shutdown |-> 0]
    /\ ran = [enqueued |-> 0, completed |-> 0, cancelled |-> 0]

TryEnqueue(j) ==
    \/ CheckShutdown(j)
    \/ ReserveItem(j)
    \/ ReserveBytes(j)
    \/ UndoItem(j)
    \/ TrySend(j)
    \/ CountEnqueued(j)
    \/ CountDrop(j)

Release(p) == ReleaseItem(p) \/ LoadBytes(p) \/ SubtractBytes(p)

WorkerLoop(w) ==
    \/ LoopTop(w)
    \/ Lock(w)
    \/ Select(w)
    \/ Receive(w)
    \/ StartOrDrop(w)
    \/ ClaimWorker(w)
    \/ RunJob(w)
    \/ FreeWorker(w)
    \/ CountOutcome(w)

Shutdown == SetFlag \/ SendSignal \/ SwapItems \/ SwapBytes

Next ==
    \/ \E j \in Job : TryEnqueue(j)
    \/ \E p \in Proc : Release(p)
    \/ \E w \in Worker : WorkerLoop(w)
    \/ Shutdown

Spec == Init /\ [][Next]_vars

\* Threads run on; shutdown, once called, returns.  A job under way ends:
\* its request has a timeout and the shutdown flag cancels it.
Fairness ==
    /\ \A j \in Job : WF_vars(TryEnqueue(j))
    /\ \A p \in Proc : WF_vars(Release(p))
    /\ \A w \in Worker : SF_vars(Lock(w)) /\ WF_vars(WorkerLoop(w))
    /\ WF_vars(SendSignal \/ SwapItems \/ SwapBytes)

FairSpec == Spec /\ Fairness

-----------------------------------------------------------------------------
(* Properties.                                                             *)

Releasing == {"release", "load", "subtract"}

\* Every variable has its type.
TypeOK ==
    /\ flag \in BOOLEAN /\ signal \in BOOLEAN
    /\ shut \in {"no", "flagged", "signalled", "items", "done"}
    /\ items \in 0 .. Word - 1
    /\ bytes \in 0 .. Word - 1
    /\ active \in 0 .. Cardinality(Worker)
    /\ chan \in Seq(Job)
    /\ lock \in Worker \cup {Nobody}
    /\ pc \in [Proc -> {"new", "item", "bytes", "undo", "send", "count", "accepted",
                        "drop", "dropped", "top", "lock", "select", "recv", "check",
                        "claim", "run", "exit"}
                       \cup Releasing \cup Outcome \cup {Tally[o] : o \in Outcome}]
    /\ job \in [Worker -> Job]
    /\ take \in [Proc -> Nat]
    /\ why \in [Job -> {"item", "byte", "shutdown"}]
    /\ drops \in [item : Nat, byte : Nat, shutdown : Nat]
    /\ ran \in [enqueued : Nat, completed : Nat, cancelled : Nat]

\* Those that hold an item slot, and those that hold a part of the budget,
\* besides the jobs in the channel.
HoldsItem(p) == pc[p] \in {"bytes", "undo", "send", "release"}
HoldsBytes(p) == pc[p] \in {"send"} \cup Releasing

Queued == {chan[i] : i \in DOMAIN chan}

\* Workers that have received a job and not yet looked for the next.
HasJob(w) == pc[w] \notin {"top", "lock", "select", "recv", "exit"}

\* A job is in one place at most: with its caller, once in the channel, or
\* with one worker.
OnePlace ==
    /\ \A i, k \in DOMAIN chan : chan[i] = chan[k] => i = k
    /\ \A j \in Job : HoldsBytes(j) => j \notin Queued
    /\ \A w \in Worker : HasJob(w) => job[w] \notin Queued /\ ~HoldsBytes(job[w])
    /\ \A v, w \in Worker : HasJob(v) /\ HasJob(w) /\ job[v] = job[w] => v = w

\* The payloads of jobs J together.
PayloadBytes(J) == Cardinality(UNION {{j} \X (1 .. Payload[j]) : j \in J})

\* Until shutdown resets them, or the last worker drops the channel, the
\* counters are exactly what callers, the channel and workers hold, and the
\* byte budget is kept: no path through try_enqueue or the worker loop leaks or
\* double-frees a reservation.
ReservationsExact ==
    shut \in {"no", "flagged", "signalled"} /\ Alive # {} =>
        /\ items = Len(chan) + Cardinality({p \in Proc : HoldsItem(p)})
        /\ bytes = PayloadBytes(Queued \cup {JobOf(p) : p \in {q \in Proc : HoldsBytes(q)}})
        /\ bytes <= MaxBytes

\* Until shutdown no interleaving of reservations exceeds the item cap, and a
\* reservation is a promise: try_send finds a slot.
ReservedSlotIsFree ==
    ~flag => /\ items <= Capacity
             /\ \A j \in Job : pc[j] = "send" => Alive # {} /\ Len(chan) < Capacity

\* One that has left try_enqueue was counted as enqueued or dropped, and each
\* enqueued one is in the channel, with a worker, or counted as completed.
EveryJobCounted ==
    ~flag =>
        /\ ran.enqueued + drops.item + drops.byte + drops.shutdown
             = Cardinality({j \in Job : pc[j] \in {"accepted", "dropped"}})
        /\ ran.enqueued + Cardinality({j \in Job : pc[j] = "count"})
             = Len(chan) + ran.completed
               + Cardinality({w \in Worker : HasJob(w)})

ActiveExact ==
    active = Cardinality({w \in Worker : pc[w] \in {"run"} \cup Outcome})

\* No interleaving duplicates a job or makes a counter drift: a job is in one
\* place, reservations are those that are held (until shutdown resets them),
\* the totals account for every job (until shutdown begins), and active_workers
\* is the number of workers with a job under way, at every moment and through
\* cancellation.
CountersExact == OnePlace /\ ReservationsExact /\ EveryJobCounted /\ ActiveExact

\* An accepted job is taken up by a worker unless the queue is shut down.
AcceptedIsRun == \A j \in Job : pc[j] = "accepted" ~> (flag \/ j \notin Queued)

\* After shutdown every worker leaves and the channel is emptied.
ShutdownStopsWorkers == flag ~> [](Alive = {} /\ chan = << >>)
=============================================================================
