---------------------------- MODULE EventDelivery ----------------------------
(***************************************************************************)
(* Durable event delivery (src/src/gateway/event_delivery.rs): the sink    *)
(* that appends events to the log, the worker that drains it to the API,   *)
(* and the API behind a network that delays, loses and answers late.       *)
(*                                                                         *)
(* The delivery lock admits one worker at a time.  What the worker does    *)
(* on a blocking thread (acknowledge, or quarantine and acknowledge) is a  *)
(* task of its own: aborting the worker releases the lock but not the      *)
(* task, which may run while the next worker is already delivering.        *)
(***************************************************************************)
EXTENDS EventWal

CONSTANTS
    UaEvent,    \* events that persist_and_deliver_ua_complete also sends inline
    LocalEvent, \* decisions of persist_durable_decision_local (CJIS access)
    MachineProcess, \* the processes, counted by crashes, with a machine client
    Status,     \* HTTP status codes the API answers with
    MaxAborts   \* bound: aborted workers

ASSUME DeliveryAssumption ==
    /\ UaEvent \subseteq Event \ LocalEvent
    /\ LocalEvent \subseteq Event
    /\ MachineProcess \subseteq Nat
    /\ Status \subseteq 200 .. 599
    /\ MaxAborts \in Nat

VARIABLES
    persisted,  \* persisted_event_ids of the sink
    worker,     \* the delivery loop: where it is and the item it handles
    tasks,      \* blocking tasks that quarantine and acknowledge an item
    net,        \* delivery attempts on their way to the API
    api,        \* positions of the records the API has committed
    perm,       \* permanent-segment-*-offset-*.json: position and status
    aborts      \* history: aborted workers, at most MaxAborts

deliveryVars == <<persisted, worker, tasks, net, api, perm, aborts>>
vars == <<walVars, deliveryVars>>

NoClaim == [segment |-> 0, offset |-> 0, next |-> 0, record |-> FALSE]
IdleWorker == [pc |-> "idle", claim |-> NoClaim]

\* A task and whether the worker that spawned it still waits for it; status
\* is the rejection to quarantine the record with, 0 when there is none.
Task == [claim : Claim, status : 0 .. 599, awaited : BOOLEAN]
\* An attempt, and whether its sender still waits for the answer.
Attempt == [segment : Nat, offset : Nat, awaited : BOOLEAN]

\* Whether the sink of this process was configured with a machine client.
MachineClient == crashes \in MachineProcess

At(c) == [segment |-> c.segment, offset |-> c.offset]
Abandon(S) == {[x EXCEPT !.awaited = FALSE] : x \in S}

\* Mutation: any 2xx is an acknowledgement.
Disposition_AnySuccess(code, echo) ==
    IF code \in 200 .. 299
    THEN "accepted"
    ELSE IF code \in {408, 429} \/ (code \in 500 .. 599 /\ code # 507)
         THEN "retry"
         ELSE "permanent"

\* deliver_wal_record and classify_http_delivery_status: what an answer
\* means.  echo: the body carries the delivery_id that was sent.
Disposition(code, echo) ==
    IF code \in 200 .. 299
    THEN IF echo THEN "accepted" ELSE "retry"
    ELSE IF code \in {408, 429} \/ (code \in 500 .. 599 /\ code # 507)
         THEN "retry"
         ELSE "permanent"

-----------------------------------------------------------------------------
(* The sink.                                                               *)

\* Mutation: the event id is not remembered.
PersistDurableEvent_Forget(e) ==
    /\ e \notin persisted
    /\ AppendOk(e, NoRequest)
    /\ UNCHANGED deliveryVars

\* An append without a reservation that returns an error.
AppendErrs(e) ==
    \/ AppendRefused(e, NoRequest)
    \/ AppendCompactionFails(e, NoRequest)
    \/ AppendNotOpened(e, NoRequest)
    \/ AppendRolledBack(e, NoRequest)
    \/ \E k \in 1 .. Size[e] : AppendTorn(e, NoRequest, k)

\* persist_durable_event: an event this process has persisted is not
\* appended again (its payload is forwarded, which no state here records);
\* a failed append leaves it free to be tried again.
PersistDurableEvent(e) ==
    /\ e \notin persisted
    /\ \/ AppendOk(e, NoRequest) /\ persisted' = persisted \cup {e}
       \/ AppendErrs(e) /\ UNCHANGED persisted
    /\ UNCHANGED <<worker, tasks, net, api, perm, aborts>>

\* persist_durable_decision_local: the access log of an enforcement mode
\* appends to the same log without a sink, and so without its dedup set.
PersistDurableDecisionLocal(e) ==
    /\ AppendOk(e, NoRequest) \/ AppendErrs(e)
    /\ UNCHANGED deliveryVars

\* deliver_envelope_inline: the caller sends the record itself while the
\* log still holds it, and only reports the outcome.
DeliverEnvelopeInline(rec) ==
    /\ MachineClient
    /\ rec.id \in UaEvent \cap persisted
    /\ up
    /\ net' = net \cup {[segment |-> rec.segment, offset |-> rec.pos, awaited |-> FALSE]}
    /\ UNCHANGED <<walVars, persisted, worker, tasks, api, perm, aborts>>

-----------------------------------------------------------------------------
(* The worker.                                                             *)

\* Load the checkpoint and claim the item at the frontier.  A malformed
\* item needs no delivery: its acknowledgement is spawned at once.
ClaimNext ==
    /\ worker.pc = "idle"
    /\ NextPending
    /\ LET item == Pending(disk, ckpt)
       IN  IF item.record
           THEN /\ worker' = [pc |-> "send", claim |-> item]
                /\ UNCHANGED tasks
           ELSE /\ worker' = [pc |-> "ack", claim |-> item]
                /\ tasks' = tasks \cup {[claim |-> item, status |-> 0, awaited |-> TRUE]}
    /\ UNCHANGED <<persisted, net, api, perm, aborts>>

\* A completion needs the machine client.
Deliverable(c) == MachineClient \/ disk[c.segment][c.offset + 1].id \notin UaEvent

\* deliver_wal_record: post the record.
SendAttempt ==
    /\ worker.pc = "send"
    /\ Deliverable(worker.claim)
    /\ net' = net \cup {[segment |-> worker.claim.segment,
                         offset |-> worker.claim.offset, awaited |-> TRUE]}
    /\ worker' = [worker EXCEPT !.pc = "wait"]
    /\ UNCHANGED <<walVars, persisted, tasks, api, perm, aborts>>

\* deliver_wal_record: without the machine client a completion is rejected
\* for good before it is sent.
RejectUnsent ==
    /\ worker.pc = "send"
    /\ ~Deliverable(worker.claim)
    /\ worker' = [worker EXCEPT !.pc = "ack"]
    /\ tasks' = tasks \cup {[claim |-> worker.claim, status |-> 503, awaited |-> TRUE]}
    /\ UNCHANGED <<walVars, persisted, net, api, perm, aborts>>

\* RESPONSE_TIMEOUT, ATTEMPT_DEADLINE or a transport error: retry after the
\* backoff.  The attempt may still reach the API later, or never (lost).
AttemptTimeout ==
    /\ worker.pc = "wait"
    /\ net' = Abandon(net)
    /\ worker' = IdleWorker
    /\ UNCHANGED <<walVars, persisted, tasks, api, perm, aborts>>

\* The worker reads an answer to the attempt it waits for.
HandleAnswer(code, echo) ==
    CASE Disposition(code, echo) = "accepted" ->
            /\ worker' = [worker EXCEPT !.pc = "ack"]
            /\ tasks' = tasks \cup
                 {[claim |-> worker.claim, status |-> 0, awaited |-> TRUE]}
      [] Disposition(code, echo) = "retry" ->
            /\ worker' = IdleWorker
            /\ UNCHANGED tasks
      [] OTHER ->
            /\ worker' = [worker EXCEPT !.pc = "ack"]
            /\ tasks' = tasks \cup
                 {[claim |-> worker.claim, status |-> code, awaited |-> TRUE]}

\* Whether the API commits a record it answers this way: a 2xx with the
\* delivery id says so, a rejection denies it, anything else (an error, or a
\* 2xx that may come from something in front of the API) leaves it open.
Commits(code, echo) ==
    IF code \in 200 .. 299 /\ echo THEN {TRUE}
    ELSE IF code \in 400 .. 499 \ {408, 429} THEN {FALSE}
    ELSE BOOLEAN

\* The API handles an attempt, and the worker hears of it if it still waits.
ApiAnswer(m, code, echo) ==
    /\ net' = net \ {m}
    /\ \E commits \in Commits(code, echo) :
          api' = IF commits THEN api \cup {At(m)} ELSE api
    /\ IF m.awaited
       THEN HandleAnswer(code, echo)
       ELSE UNCHANGED <<worker, tasks>>
    /\ UNCHANGED <<walVars, persisted, perm, aborts>>

\* The worker learns how its task ended; nobody waits for a detached one.
TaskDone(t) ==
    /\ tasks' = tasks \ {t}
    /\ worker' = IF t.awaited THEN IdleWorker ELSE worker

\* write_encrypted_permanent_quarantine keeps a document that exists.
QuarantinePermanent(t) ==
    IF t.status = 0 \/ \E doc \in perm : At(doc) = At(t.claim)
    THEN perm
    ELSE perm \cup {[segment |-> t.claim.segment, offset |-> t.claim.offset,
                     status |-> t.status]}

\* Mutation: a quarantined record is not acknowledged.
RunTask_KeepRejected(t) ==
    /\ up
    /\ perm' = QuarantinePermanent(t)
    /\ IF t.status = 0 THEN Acknowledge(t.claim) ELSE UNCHANGED walVars
    /\ TaskDone(t)
    /\ UNCHANGED <<persisted, net, api, aborts>>

\* acknowledge_wal_item, or the quarantine of a permanent rejection and its
\* acknowledgement under one hold of the writer lock.
RunTask(t) ==
    /\ up
    /\ perm' = QuarantinePermanent(t)
    /\ Acknowledge(t.claim)
    /\ TaskDone(t)
    /\ UNCHANGED <<persisted, net, api, aborts>>

\* The quarantine document or the checkpoint is refused or cannot be written,
\* and the item is claimed again later; or the acknowledgement errs after the
\* checkpoint was replaced.
FailTask(t) ==
    /\ up
    /\ \/ perm' \in {perm, QuarantinePermanent(t)} /\ UNCHANGED walVars
       \/ perm' = QuarantinePermanent(t) /\ AcknowledgeFails(t.claim)
    /\ TaskDone(t)
    /\ UNCHANGED <<persisted, net, api, aborts>>

\* The worker's future is dropped (abort_all after the drain timeout).
AbortWorker ==
    /\ up
    /\ aborts < MaxAborts
    /\ aborts' = aborts + 1
    /\ worker' = IdleWorker
    /\ tasks' = Abandon(tasks)
    /\ net' = Abandon(net)
    /\ UNCHANGED <<walVars, persisted, api, perm>>

\* snapshot_audit_wal_delivery, and the metrics reader, look at the frontier
\* without the delivery lock and may quarantine what they find there.
Snapshot ==
    /\ NextPending
    /\ UNCHANGED deliveryVars

-----------------------------------------------------------------------------
(* Crash and restart.                                                      *)

WorkerGone ==
    /\ persisted' = {}
    /\ worker' = IdleWorker
    /\ tasks' = {}
    /\ net' = Abandon(net)

\* A crash outside the log's methods, inside an append, between the
\* quarantine document and its acknowledgement, or inside an acknowledgement.
ProcessCrash ==
    /\ \/ Crash /\ UNCHANGED perm
       \/ /\ \E e \in (Event \ persisted) \cup LocalEvent :
                \E k \in 0 .. Size[e] : AppendCrash(e, NoRequest, k)
          /\ UNCHANGED perm
       \/ \E t \in tasks :
             /\ Crash \/ AcknowledgeCrash(t.claim)
             /\ perm' = QuarantinePermanent(t)
    /\ WorkerGone
    /\ UNCHANGED <<api, aborts>>

Restart ==
    /\ Open
    /\ UNCHANGED deliveryVars

-----------------------------------------------------------------------------

Init ==
    /\ WalInit
    /\ persisted = {}
    /\ worker = IdleWorker
    /\ tasks = {}
    /\ net = {}
    /\ api = {}
    /\ perm = {}
    /\ aborts = 0

Next ==
    \/ Restart
    \/ \E e \in Event \ LocalEvent : PersistDurableEvent(e)
    \/ \E e \in LocalEvent : PersistDurableDecisionLocal(e)
    \/ \E rec \in log : DeliverEnvelopeInline(rec)
    \/ ClaimNext
    \/ SendAttempt
    \/ RejectUnsent
    \/ AttemptTimeout
    \/ \E m \in net, code \in Status, echo \in BOOLEAN : ApiAnswer(m, code, echo)
    \/ \E t \in tasks : RunTask(t) \/ FailTask(t)
    \/ AbortWorker
    \/ Snapshot
    \/ ProcessCrash

Spec == Init /\ [][Next]_vars

\* The process is restarted, the worker keeps running, timeouts fire, and an
\* API or a disk that is tried forever answers well sooner or later.
\* Nothing forces callers to persist, crashes or aborts to happen.
FairSpec ==
    /\ Spec
    /\ WF_vars(Restart)
    /\ WF_vars(ClaimNext)
    /\ WF_vars(SendAttempt \/ RejectUnsent)
    /\ WF_vars(AttemptTimeout)
    /\ SF_vars(\E m \in net, code \in Status :
                  m.awaited /\ Disposition(code, TRUE) # "retry" /\ ApiAnswer(m, code, TRUE))
    /\ SF_vars(\E t \in tasks : t.awaited /\ RunTask(t))

-----------------------------------------------------------------------------
(* Properties.                                                             *)

\* Every variable of the delivery side has its type.
DeliveryTypeOK ==
    /\ TypeOK
    /\ persisted \subseteq Event
    /\ worker \in [pc : {"idle", "send", "wait", "ack"}, claim : Claim]
    /\ tasks \subseteq Task
    /\ net \subseteq Attempt
    /\ api \subseteq Position
    /\ perm \subseteq [segment : Nat, offset : Nat, status : 200 .. 599]
    /\ aborts \in 0 .. MaxAborts

PosOf(rec) == [segment |-> rec.segment, offset |-> rec.pos]

\* The API has the record, or an operator finds it in quarantine.
Settled(rec) ==
    \/ PosOf(rec) \in api
    \/ \E doc \in perm : At(doc) = PosOf(rec)

\* The frontier passes a record only when the API has committed it or its
\* bytes are in a permanent quarantine document: not on a lost answer, a 2xx
\* without the delivery id, a stale task of an aborted worker or a restart.
SettledBehindFrontier ==
    \A rec \in log : rec.segment \notin torn /\ Behind(rec, ckpt) => Settled(rec)

\* One process appends an event of the sink at most once, however often it is
\* persisted, whatever appends failed before and a crash inside the append
\* included: only a restart forgets.  Nothing of the kind holds of the
\* decisions of persist_durable_decision_local, which has no dedup set.
OncePerProcess ==
    \A e \in Event \ LocalEvent : Cardinality({rec \in log : rec.id = e}) <= crashes + 1

\* Every record that reached the log is acknowledged in the end: no retry,
\* abort, restart or permanent rejection leaves the frontier in front of it
\* for good, and nothing queued behind a rejected record starves.
EventuallyAcknowledged ==
    \A n \in 1 .. MaxRecords :
        Cardinality(log) >= n ~> Cardinality({rec \in log : Behind(rec, ckpt)}) >= n

(* What comments in the code say of delivery, where it differs.            *)

\* "Quarantine retains the WAL record bytes": a record the frontier has
\* passed is with the API, in permanent quarantine, or in the raw bytes of
\* a corrupt-record document.
QuarantineRetainsRecord ==
    \A rec \in log : Behind(rec, ckpt) =>
        \/ Settled(rec)
        \/ \E doc \in quar : \E i \in DOMAIN doc.raw :
              doc.raw[i].id = rec.id /\ doc.raw[i].nl
=============================================================================
