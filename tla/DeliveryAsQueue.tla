--------------------------- MODULE DeliveryAsQueue ---------------------------
(* Event delivery seen as the queue it promises to be.                     *)
EXTENDS EventDelivery

\* The order in which the frontier meets records.
Before(a, b) == Precedes(a.segment, a.pos, b.segment, b.pos)

\* The records of S in that order.
InOrder(S) ==
    CHOOSE q \in [1 .. Cardinality(S) -> S] :
        /\ \A rec \in S : \E i \in DOMAIN q : q[i] = rec
        /\ \A i, j \in DOMAIN q : i < j => Before(q[i], q[j])

\* The records the frontier has not passed.
PendingRecords == InOrder({rec \in log : ~Behind(rec, ckpt)})

Queue == INSTANCE AuditQueue WITH
            Record <- LogRecord,
            queue <- PendingRecords,
            settled <- {rec \in log : Settled(rec)}

\* The log, the worker, the network and the crashes together implement the
\* queue: records are acknowledged in append order, none is skipped, and
\* none leaves before it is settled.
ImplementsQueue == Queue!QueueSpec
=============================================================================
