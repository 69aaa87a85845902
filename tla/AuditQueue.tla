----------------------------- MODULE AuditQueue -----------------------------
(***************************************************************************)
(* What durable event delivery promises its callers: a queue of records    *)
(* that survives crashes.  A record leaves the queue from the front only,  *)
(* one at a time, and only after it was settled (committed by the API or   *)
(* quarantined for an operator).                                           *)
(***************************************************************************)
EXTENDS Sequences

CONSTANT Record

VARIABLES
    queue,    \* the records not yet acknowledged, oldest first
    settled   \* the records that were delivered or quarantined

queueVars == <<queue, settled>>

QueueInit == queue = << >> /\ settled = {}

\* A new record joins at the back (it is named by the state it leads to).
Enqueue ==
    /\ queue' # << >>
    /\ LET r == queue'[Len(queue')]
       IN  /\ r \in Record
           /\ r \notin settled
           /\ \A i \in DOMAIN queue : queue[i] # r
           /\ queue' = Append(queue, r)
    /\ UNCHANGED settled

\* A record may be settled before its turn: it was also sent inline, or an
\* attempt was committed whose answer is lost.
Settle ==
    /\ \E i \in DOMAIN queue : settled' = settled \cup {queue[i]}
    /\ UNCHANGED queue

Dequeue ==
    /\ queue # << >>
    /\ Head(queue) \in settled
    /\ queue' = Tail(queue)
    /\ UNCHANGED settled

\* The front record is quarantined and acknowledged in one step.
Reject ==
    /\ queue # << >>
    /\ settled' = settled \cup {Head(queue)}
    /\ queue' = Tail(queue)

QueueNext == Enqueue \/ Settle \/ Dequeue \/ Reject

QueueSpec == QueueInit /\ [][QueueNext]_queueVars
=============================================================================
