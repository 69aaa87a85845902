------------------------------ MODULE CrdtSync ------------------------------
(***************************************************************************)
(* Anti-entropy between the replicas of the context store                  *)
(* (src/src/gateway/crdt_sync.rs): one pending envelope, holding the whole *)
(* state, a worker that posts it to one peer at a time until one takes it, *)
(* and the receiver that merges and remembers what it has merged.          *)
(*                                                                         *)
(* A replica's lock is released before the envelope is stored, the worker  *)
(* waits for the answer without any lock, and the receiver's duplicate     *)
(* check, merge and record are three locks: each is a step.  Requests may  *)
(* be lost, time out while the receiver works on, and arrive late.  Clocks *)
(* are read anew each time and may disagree or go back.                    *)
(***************************************************************************)
EXTENDS ContextCrdt

CONSTANTS
    NoEnvelope,
    Time,          \* bound: what the clocks can show
    MaxSeen,       \* MAX_DEDUPE_ENTRIES
    MaxMutations,  \* bound: mutations in a behaviour
    MaxFaults      \* bound: timeouts, expired digests and restarts in a behaviour

Envelope == [num : Nat, from : Node, state : State, known : SUBSET [num : Nat, entry : Id]]

ASSUME SyncAssumption ==
    /\ NoEnvelope \notin Envelope
    /\ 1 .. MaxMutations \subseteq Value
    /\ Time \subseteq Nat
    /\ MaxSeen \in Nat
    /\ MaxMutations \in Nat
    /\ MaxFaults \in Nat

VARIABLES
    replica,   \* the store of each node
    ready,     \* envelopes made and not yet stored
    pending,   \* pending_envelope
    worker,    \* what the retry worker is sending, and whether it was taken
    net,       \* requests under way, with how far the receiver is
    seen,      \* seen_syncs
    (* History. *)
    known,     \* the mutations each store has taken in
    count,     \* mutations and faults so far
    owed,      \* the envelope stored last, by number, until a peer merges it
    lossy      \* what has happened that forgets: removals, compactions

vars == <<replica, ready, pending, worker, net, seen, known, count, owed, lossy>>
driver == <<ready, pending, worker, net, seen>>

NoSending == [envelope |-> NoEnvelope, taken |-> FALSE]

\* Every other gateway is configured as a peer; which are ready is not known.
Peers(n) == Node \ {n}

-----------------------------------------------------------------------------
(* Local mutations.                                                        *)

\* apply_local_mutation while it holds the replica: the mutation, compaction
\* and the envelope.
Apply(n, e, after, now, removes) ==
    LET num == count.mutations + 1
        kept == Compact(after.state, now)
        facts == known[n] \cup {[num |-> num, entry |-> e]}
    IN  /\ count.mutations < MaxMutations
        /\ count' = [count EXCEPT !.mutations = num]
        /\ IF after.state = replica[n].state
           THEN /\ replica' = [replica EXCEPT ![n] = after]
                /\ UNCHANGED <<ready, known, lossy>>
           ELSE /\ replica' = [replica EXCEPT ![n] = [after EXCEPT !.state = kept]]
                /\ known' = [known EXCEPT ![n] = facts]
                /\ ready' = [ready EXCEPT ![n] = @ \cup
                       {[num |-> num, from |-> n, state |-> kept, known |-> facts]}]
                /\ lossy' = [removed |-> lossy.removed \/ removes,
                             compacted |-> lossy.compacted \/ kept # after.state]
        /\ UNCHANGED <<pending, worker, net, seen, owed>>

UpsertEntry(n, e, fields, now) ==
    LET values == [f \in fields |-> count.mutations + 1]
    IN  Apply(n, e, Upsert(replica[n], e, values, now), now, FALSE)

Remove(n, e, now) ==
    /\ IsVisible(replica[n].state, e)
    /\ Apply(n, e, RemoveEntry(replica[n], e, now), now, TRUE)

\* The envelope replaces whatever is pending.
StorePending(n, env) ==
    /\ env \in ready[n]
    /\ ready' = [ready EXCEPT ![n] = @ \ {env}]
    /\ pending' = [pending EXCEPT ![n] = env]
    /\ owed' = [owed EXCEPT ![n] = env.num]
    /\ UNCHANGED <<replica, worker, net, seen, known, count, lossy>>

-----------------------------------------------------------------------------
(* The retry worker.                                                       *)

\* It copies the pending envelope and posts it to one ready peer.
Send(n, peer) ==
    /\ worker[n] = NoSending
    /\ pending[n] # NoEnvelope
    /\ worker' = [worker EXCEPT ![n].envelope = pending[n]]
    /\ net' = net \cup {[envelope |-> pending[n], to |-> peer, step |-> "sent", awaited |-> TRUE]}
    /\ UNCHANGED <<replica, ready, pending, seen, known, count, owed, lossy>>

\* The request is over; its sender hears of it if it still waits.
Answer(q, success) ==
    /\ net' = net \ {q}
    /\ worker' = [worker EXCEPT ![q.envelope.from] =
           IF ~q.awaited THEN @ ELSE IF success THEN [@ EXCEPT !.taken = TRUE] ELSE NoSending]

Fault ==
    /\ count.faults < MaxFaults
    /\ count' = [count EXCEPT !.faults = @ + 1]

Orphan(q) == [q EXCEPT !.awaited = FALSE]

\* The client's timeout; the receiver does not notice.
Timeout(q) ==
    /\ q.awaited
    /\ Fault
    /\ net' = (net \ {q}) \cup {Orphan(q)}
    /\ worker' = [worker EXCEPT ![q.envelope.from] = NoSending]
    /\ UNCHANGED <<replica, ready, pending, seen, known, owed, lossy>>

\* Mutation: what is pending now is cleared, whatever was sent.
ClearPending_Any(n) ==
    /\ worker[n].taken
    /\ pending' = [pending EXCEPT ![n] = NoEnvelope]
    /\ worker' = [worker EXCEPT ![n] = NoSending]
    /\ UNCHANGED <<replica, ready, net, seen, known, count, owed, lossy>>

ClearPending(n) ==
    /\ worker[n].taken
    /\ pending' = [pending EXCEPT ![n] = IF @ = worker[n].envelope THEN NoEnvelope ELSE @]
    /\ worker' = [worker EXCEPT ![n] = NoSending]
    /\ UNCHANGED <<replica, ready, net, seen, known, count, owed, lossy>>

-----------------------------------------------------------------------------
(* The receiver.                                                           *)

\* Refused before anything is read (no fresh peer material, an inactive
\* peer), or lost on the way.
Refuse(q) ==
    /\ q.step = "sent"
    /\ Answer(q, FALSE)
    /\ UNCHANGED <<replica, ready, pending, seen, known, count, owed, lossy>>

Advance(q, step) == net' = (net \ {q}) \cup {[q EXCEPT !.step = step]}

\* is_duplicate_digest.
CheckSeen(q) ==
    /\ q.step = "sent"
    /\ IF q.envelope.num \in seen[q.to]
       THEN Answer(q, TRUE)
       ELSE Advance(q, "fresh") /\ UNCHANGED worker
    /\ UNCHANGED <<replica, ready, pending, seen, known, count, owed, lossy>>

\* receive_envelope: merge and compact under the replica's lock.
Receive(q, now) ==
    LET after == MergeAt(replica[q.to], q.envelope.state, now)
        kept == Compact(after.state, now)
    IN  /\ q.step = "fresh"
        /\ replica' = [replica EXCEPT ![q.to] = [after EXCEPT !.state = kept]]
        /\ known' = [known EXCEPT ![q.to] = @ \cup q.envelope.known]
        /\ owed' = [owed EXCEPT ![q.envelope.from] = IF @ = q.envelope.num THEN 0 ELSE @]
        /\ lossy' = [lossy EXCEPT !.compacted = @ \/ kept # after.state]
        /\ Advance(q, "merged")
        /\ UNCHANGED <<ready, pending, worker, seen, count>>

\* record_digest: a full cache fails the request after the merge.
Record(q) ==
    LET num == q.envelope.num
        room == num \in seen[q.to] \/ Cardinality(seen[q.to]) < MaxSeen
    IN  /\ q.step = "merged"
        /\ seen' = [seen EXCEPT ![q.to] = IF room THEN @ \cup {num} ELSE @]
        /\ Answer(q, room)
        /\ UNCHANGED <<replica, ready, pending, known, count, owed, lossy>>

\* An entry leaves the dedupe window.
ExpireSeen(n, num) ==
    /\ num \in seen[n]
    /\ Fault
    /\ seen' = [seen EXCEPT ![n] = @ \ {num}]
    /\ UNCHANGED <<replica, ready, pending, worker, net, known, owed, lossy>>

-----------------------------------------------------------------------------

\* Nothing is persisted.  Requests to the node fail, those from it go on.
Restart(n) ==
    /\ Fault
    /\ replica' = [replica EXCEPT ![n] = NewReplica(n)]
    /\ ready' = [ready EXCEPT ![n] = {}]
    /\ pending' = [pending EXCEPT ![n] = NoEnvelope]
    /\ seen' = [seen EXCEPT ![n] = {}]
    /\ known' = [known EXCEPT ![n] = {}]
    /\ owed' = [owed EXCEPT ![n] = 0]
    /\ net' = {IF q.envelope.from = n THEN Orphan(q) ELSE q : q \in {r \in net : r.to # n}}
    /\ worker' = [m \in Node |->
           IF m = n \/ \E q \in net : q.envelope.from = m /\ q.to = n /\ q.awaited
           THEN NoSending ELSE worker[m]]
    /\ UNCHANGED lossy

Init ==
    /\ replica = [n \in Node |-> NewReplica(n)]
    /\ ready = [n \in Node |-> {}]
    /\ pending = [n \in Node |-> NoEnvelope]
    /\ worker = [n \in Node |-> NoSending]
    /\ net = {}
    /\ seen = [n \in Node |-> {}]
    /\ known = [n \in Node |-> {}]
    /\ count = [mutations |-> 0, faults |-> 0]
    /\ owed = [n \in Node |-> 0]
    /\ lossy = [removed |-> FALSE, compacted |-> FALSE]

Mutate(n) ==
    \E e \in Id, now \in Time :
        \/ \E fields \in SUBSET Field \ {{}} : UpsertEntry(n, e, fields, now)
        \/ Remove(n, e, now)

Store(n) == \E env \in ready[n] : StorePending(n, env)
Post(n) == \E peer \in Peers(n) : Send(n, peer)

Next ==
    \/ \E n \in Node : Mutate(n) \/ Store(n) \/ Post(n) \/ ClearPending(n) \/ Restart(n)
    \/ \E q \in net : Timeout(q) \/ Refuse(q) \/ CheckSeen(q) \/ Record(q)
    \/ \E q \in net, now \in Time : Receive(q, now)
    \/ \E n \in Node : \E num \in seen[n] : ExpireSeen(n, num)

Spec == Init /\ [][Next]_vars

-----------------------------------------------------------------------------
(* Properties.                                                             *)

\* Every variable has its type.
TypeOK ==
    /\ \A n \in Node : replica[n].clock \in Timestamp /\ replica[n].state \in State
    /\ \A n \in Node : ready[n] \subseteq Envelope
    /\ pending \in [Node -> Envelope \cup {NoEnvelope}]
    /\ worker \in [Node -> [envelope : Envelope \cup {NoEnvelope}, taken : BOOLEAN]]
    /\ net \subseteq [envelope : Envelope, to : Node, step : {"sent", "fresh", "merged"},
                      awaited : BOOLEAN]
    /\ seen \in [Node -> SUBSET Nat]

\* A replica's clock is not behind any timestamp in its state, its own or a
\* merged one, so that its next write wins over everything it has seen, or
\* ties with it once the logical counter has come to the end of its width.
ClockAhead ==
    \A n \in Node : \A t \in Timestamps(replica[n].state) : ~Before(replica[n].clock, [t EXCEPT !.node = n])

\* Strong eventual consistency: replicas that have taken in the same mutations
\* show the same entries, in whatever order and however often envelopes came,
\* unless entries were removed and history was compacted as well.
SameKnowledgeSameView ==
    \A m, n \in Node :
        m < n /\ known[m] = known[n] /\ ~(lossy.removed /\ lossy.compacted) =>
            View(replica[m].state) = View(replica[n].state)

\* As long as nothing is removed, compaction hides no entry.
NothingVanishes ==
    ~lossy.removed =>
        \A n \in Node : \A m \in known[n] : IsVisible(replica[n].state, m.entry)

\* The envelope stored last is pending until a peer has merged it, although
\* the worker clears after it has waited for an answer to an older one.
NotForgotten ==
    \A n \in Node : owed[n] # 0 => pending[n] # NoEnvelope /\ pending[n].num = owed[n]

\* No envelope that arrives late puts an older value over a newer one, as
\* long as the node is not restarted.
NeverOlder ==
    [][\A n \in Node, e \in Id, f \in Field :
          LET old == replica[n].state.fields[e][f]
              new == replica'[n].state.fields[e][f]
          IN  known[n] \subseteq known'[n] /\ old # NoRegister /\ new # NoRegister =>
                  ~Before(new.at, old.at)]_vars
===============================================================================
