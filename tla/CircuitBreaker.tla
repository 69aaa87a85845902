---------------------------- MODULE CircuitBreaker ----------------------------
(***************************************************************************)
(* The circuit breaker of the gateway (src/src/gateway/circuit_breaker.rs),*)
(* the requests that consult it and report outcomes to it                  *)
(* (request_pipeline/responses_part2.rs), and the configuration reload     *)
(* that replaces it (server.rs).                                           *)
(*                                                                         *)
(* Every method of the manager holds its mutex, so each is one step; a     *)
(* request keeps the configuration it started with, so after a reload two  *)
(* managers are in use.  Of time only the age of the last failure matters, *)
(* up to the cooldown.                                                     *)
(***************************************************************************)
EXTENDS Integers, Sequences, FiniteSets

CONSTANTS
    Provider,            \* provider targets
    Order,               \* the order in which a request tries them
    Request,             \* concurrent requests
    Threshold,           \* consecutive_failure_threshold
    Cooldown,            \* cooldown, in ticks
    HalfOpenSuccesses,   \* half_open_successes of the configuration
    Never,               \* last_failure_at = None
    MaxReloads           \* bound: configuration reloads

\* A configured threshold of 0 behaves as 1: the first failure opens.
ASSUME BreakerAssumption ==
    /\ Order \in Seq(Provider)
    /\ Threshold \in Nat \ {0}
    /\ Cooldown \in Nat
    /\ HalfOpenSuccesses \in Nat
    /\ Never \notin Nat
    /\ MaxReloads \in Nat

VARIABLES
    cb,       \* manager of each generation: provider -> circuit
    live,     \* generation of the published configuration
    reload,   \* the snapshot a reload has taken, << >> when none is under way
    req,      \* what each request is doing
    healthy,  \* providers have recovered for good
    streak,   \* history: failures since the last success, in the manager
              \* or, before its publication, in the one it replaced
    missed    \* history: providers of which a manager missed an outcome,
              \* recorded elsewhere between its snapshot and publication

history == <<streak, missed>>
vars == <<cb, live, reload, req, healthy, streak, missed>>

Generation == 0 .. MaxReloads
\* consecutive_failures matters up to the threshold, successes up to theirs.
Circuit == [state : {"Closed", "Open", "HalfOpen"}, failures : 0 .. Threshold,
            age : 0 .. Cooldown \cup {Never}, successes : 0 .. HalfOpenSuccesses]
\* stale: the circuit has opened since the request was sent.
Activity == [pc : {"idle", "pick", "sent"}, gen : Generation,
             next : 1 .. Len(Order) + 1, stale : BOOLEAN]

NewCircuit == [state |-> "Closed", failures |-> 0, age |-> Never, successes |-> 0]
NewManager == [p \in Provider |-> NewCircuit]
Idle == [pc |-> "idle", gen |-> 0, next |-> 1, stale |-> FALSE]

Upto(n, max) == IF n > max THEN max ELSE n

-----------------------------------------------------------------------------
(* The manager.                                                            *)

CooledDown(c) == c.age = Never \/ c.age = Cooldown

\* Mutation: the circuit stays open although the cooldown has elapsed.
ProbeCircuit_StaysOpen(c) == c

\* is_allowed: an open circuit that has cooled down becomes half-open (one
\* without a failure time is let through as it is).
ProbeCircuit(c) ==
    IF c.state = "Open" /\ c.age = Cooldown
    THEN [c EXCEPT !.state = "HalfOpen", !.successes = 0]
    ELSE c

Allowed(c) == c.state = "Open" => CooledDown(c)

\* Mutation: a half-open circuit is never closed.
AfterSuccess_NeverCloses(c) ==
    CASE c.state = "Closed" -> [c EXCEPT !.failures = 0]
      [] c.state = "HalfOpen" ->
            [c EXCEPT !.successes = Upto(@ + 1, HalfOpenSuccesses)]
      [] c.state = "Open" -> c

\* record_success
AfterSuccess(c) ==
    CASE c.state = "Closed" -> [c EXCEPT !.failures = 0]
      [] c.state = "HalfOpen" ->
            IF c.successes + 1 >= HalfOpenSuccesses
            THEN [c EXCEPT !.state = "Closed", !.failures = 0, !.successes = 0]
            ELSE [c EXCEPT !.successes = @ + 1]
      [] c.state = "Open" -> c

\* record_failure: a failure in an open circuit restarts the cooldown.
AfterFailure(c) ==
    LET failed == [c EXCEPT !.failures = Upto(@ + 1, Threshold), !.age = 0]
    IN  CASE c.state = "Closed" ->
                IF failed.failures >= Threshold
                THEN [failed EXCEPT !.state = "Open"] ELSE failed
          [] c.state = "HalfOpen" -> [failed EXCEPT !.state = "Open", !.successes = 0]
          [] c.state = "Open" -> failed

\* snapshot leaves the failure time out.
Snapshot(m) == [p \in Provider |-> [m[p] EXCEPT !.age = Never]]

\* Mutation: restore brings back the states without the failure counts.
Restore_DropFailures(snap) ==
    [p \in Provider |->
        [snap[p] EXCEPT !.failures = 0, !.age = IF snap[p].state = "Open" THEN 0 ELSE @]]

\* restore into a fresh manager: an open circuit starts a new cooldown.
Restore(snap) ==
    [p \in Provider |-> IF snap[p].state = "Open"
                        THEN [snap[p] EXCEPT !.age = 0] ELSE snap[p]]

-----------------------------------------------------------------------------
(* Requests.                                                               *)

\* A request captures the published configuration.
Begin(r) ==
    /\ req[r].pc = "idle"
    /\ req' = [req EXCEPT ![r] = [Idle EXCEPT !.pc = "pick", !.gen = live]]
    /\ UNCHANGED <<cb, live, reload, healthy, history>>

\* The next candidate: sent to if its circuit allows, skipped if not; when
\* the candidates are exhausted the request is over.
TryNext(r) ==
    /\ req[r].pc = "pick"
    /\ IF req[r].next > Len(Order)
       THEN req' = [req EXCEPT ![r] = Idle] /\ UNCHANGED cb
       ELSE LET g == req[r].gen
                p == Order[req[r].next]
            IN  /\ cb' = [cb EXCEPT ![g][p] = ProbeCircuit(@)]
                /\ req' = IF Allowed(cb[g][p])
                          THEN [req EXCEPT ![r].pc = "sent", ![r].stale = FALSE]
                          ELSE [req EXCEPT ![r].next = @ + 1]
    /\ UNCHANGED <<live, reload, healthy, history>>

Sent(r, g, p) == req[r].pc = "sent" /\ req[r].gen = g /\ Order[req[r].next] = p

\* An outcome recorded in the published manager while a reload holds a
\* snapshot of it is missing from the manager that will replace it.
Missing(m, g, p) ==
    IF reload # << >> /\ g = live THEN [m EXCEPT ![live + 1] = @ \cup {p}] ELSE m

\* An accepted answer: the success is recorded and the request is over.
Succeed(r) ==
    /\ req[r].pc = "sent"
    /\ LET g == req[r].gen
           p == Order[req[r].next]
       IN  /\ cb' = [cb EXCEPT ![g][p] = AfterSuccess(@)]
           /\ streak' = [streak EXCEPT ![g][p] = 0]
           /\ missed' = Missing([missed EXCEPT ![g] = @ \ {p}], g, p)
    /\ req' = [req EXCEPT ![r] = Idle]
    /\ UNCHANGED <<live, reload, healthy>>

\* A fallback trigger or a transport error: the failure is recorded and the
\* next candidate is tried.
Fail(r) ==
    /\ req[r].pc = "sent"
    /\ ~healthy
    /\ LET g == req[r].gen
           p == Order[req[r].next]
       IN  /\ cb' = [cb EXCEPT ![g][p] = AfterFailure(@)]
           /\ streak' = [streak EXCEPT ![g][p] = Upto(@ + 1, Threshold)]
           /\ missed' = Missing(missed, g, p)
           /\ req' = [q \in Request |->
                        IF q = r
                        THEN [req[r] EXCEPT !.pc = "pick", !.next = @ + 1]
                        ELSE IF /\ Sent(q, g, p)
                                /\ cb[g][p].state # "Open"
                                /\ cb'[g][p].state = "Open"
                             THEN [req[q] EXCEPT !.stale = TRUE]
                             ELSE req[q]]
    /\ UNCHANGED <<live, reload, healthy>>

\* A zero completion goes on to the next candidate with nothing recorded; a
\* client that goes away takes its request with it.
NoOutcome(r) ==
    /\ req[r].pc = "sent"
    /\ ~healthy
    /\ \/ req' = [req EXCEPT ![r].pc = "pick", ![r].next = @ + 1]
       \/ req' = [req EXCEPT ![r] = Idle]
    /\ UNCHANGED <<cb, live, reload, healthy, history>>

-----------------------------------------------------------------------------
(* Reload.                                                                 *)

\* The reload guard is held from the snapshot to the publication.
ReloadSnapshot ==
    /\ live < MaxReloads
    /\ reload = << >>
    /\ reload' = <<Snapshot(cb[live])>>
    /\ UNCHANGED <<cb, live, req, healthy, history>>

\* The new manager is private until active_config.replace.
ReloadPublish ==
    /\ reload # << >>
    /\ cb' = [cb EXCEPT ![live + 1] = Restore(reload[1])]
    /\ streak' = [streak EXCEPT ![live + 1] = streak[live]]
    /\ missed' = [missed EXCEPT ![live + 1] = @ \cup missed[live]]
    /\ live' = live + 1
    /\ reload' = << >>
    /\ UNCHANGED <<req, healthy>>

-----------------------------------------------------------------------------
(* The environment.                                                        *)

Ages(c) == [c EXCEPT !.age = IF c.age = Never THEN Never ELSE Upto(c.age + 1, Cooldown)]

Tick ==
    /\ \E g \in Generation, p \in Provider : Ages(cb[g][p]) # cb[g][p]
    /\ cb' = [g \in Generation |-> [p \in Provider |-> Ages(cb[g][p])]]
    /\ UNCHANGED <<live, reload, req, healthy, history>>

\* From here on the providers answer, and clients wait for them.
Recover ==
    /\ ~healthy
    /\ healthy' = TRUE
    /\ UNCHANGED <<cb, live, reload, req, history>>

Init ==
    /\ cb = [g \in Generation |-> NewManager]
    /\ live = 0
    /\ reload = << >>
    /\ req = [r \in Request |-> Idle]
    /\ healthy = FALSE
    /\ streak = [g \in Generation |-> [p \in Provider |-> 0]]
    /\ missed = [g \in Generation |-> {}]

RequestStep(r) == Begin(r) \/ TryNext(r) \/ Succeed(r) \/ Fail(r) \/ NoOutcome(r)

Next ==
    \/ \E r \in Request : RequestStep(r)
    \/ ReloadSnapshot
    \/ ReloadPublish
    \/ Tick
    \/ Recover

Spec == Init /\ [][Next]_vars

\* Time passes, the reload's task runs on, and requests keep arriving and
\* make progress; nothing makes a reload start or the providers recover.
Fairness ==
    /\ WF_vars(Tick)
    /\ WF_vars(ReloadPublish)
    /\ \A r \in Request : WF_vars(RequestStep(r))

FairSpec == Spec /\ Fairness

-----------------------------------------------------------------------------
(* Properties.                                                             *)

\* Every variable has its type.
TypeOK ==
    /\ cb \in [Generation -> [Provider -> Circuit]]
    /\ live \in Generation
    /\ reload = << >> \/ (live < MaxReloads /\ reload[1] \in [Provider -> Circuit])
    /\ req \in [Request -> Activity]
    /\ healthy \in BOOLEAN
    /\ streak \in [Generation -> [Provider -> 0 .. Threshold]]
    /\ missed \in [Generation -> SUBSET Provider]

\* While a circuit is open, every request under way to its provider was
\* sent before it opened: after a cooldown nobody gets through without
\* making the circuit half-open, and a probe that fails shuts the others out.
OpenAdmitsNone ==
    \A r \in Request, g \in Generation, p \in Provider :
        Sent(r, g, p) /\ cb[g][p].state = "Open" => req[r].stale

\* A closed circuit is below the threshold, and consecutive_failures is the
\* number of failures since the last success, through every reopening, late
\* outcome and snapshot, also when some of them were recorded before a reload
\* in the manager it replaced.  The exception is a provider of which an
\* outcome was recorded between the snapshot and the publication: the new
\* manager does not know it, until its next success makes the count exact.
ClosedCountsStreak ==
    \A g \in Generation, p \in Provider :
        cb[g][p].state = "Closed" =>
            /\ cb[g][p].failures < Threshold
            /\ p \notin missed[g] => cb[g][p].failures = streak[g][p]

\* An open circuit always has a failure time, so the branch of is_allowed
\* that lets traffic through without one is dead.
OpenHasFailureTime ==
    \A g \in Generation, p \in Provider :
        cb[g][p].state = "Open" => cb[g][p].age # Never

\* Once the providers answer, the circuit of the first candidate of the
\* published configuration closes and stays closed, whatever failures were
\* under way and whatever reloads happen.
RecoversWhenHealthy ==
    healthy ~> [](cb[live][Order[1]].state = "Closed")
=============================================================================
