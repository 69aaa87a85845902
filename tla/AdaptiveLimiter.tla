--------------------------- MODULE AdaptiveLimiter ---------------------------
(***************************************************************************)
(* The adaptive concurrency limiter of one provider (the first part of     *)
(* src/src/gateway/rate_limit.rs) and the two loops that send requests     *)
(* upstream under its permits, the buffered and the streaming one          *)
(* (src/src/gateway/request_pipeline/responses_part3.rs).                  *)
(*                                                                         *)
(* A caller that finds no permit free waits on a tokio Notify, which keeps *)
(* no wakeup for those who are not yet listening; the limiter's mutex is   *)
(* released before anyone is notified.  The listening, the decision under  *)
(* the mutex, every report, every drop and every notification are steps of *)
(* their own.                                                              *)
(***************************************************************************)
EXTENDS Integers, Sequences, FiniteSets

CONSTANTS
    Request,          \* requests under way at once
    Streaming,        \* those that stream their response
    MaxConcurrency,   \* max_concurrency
    MaxRetries,       \* retry_policy.max_retries
    MaxDelay          \* the longest Retry-After or backoff, in ticks

ASSUME LimiterAssumption ==
    /\ IsFiniteSet(Request)
    /\ Streaming \subseteq Request
    /\ MaxConcurrency \in Nat \ {0}
    /\ MaxRetries \in Nat
    /\ MaxDelay \in Nat \ {0}

VARIABLES
    lim,   \* LimiterState; cooldown is the time left until cooldown_until
    req    \* what each request is doing

vars == <<lim, req>>

Report == {"success", "scarce", "rate limited", "transient"}

\* What a request may have to do to the limiter without awaiting anything.
Work == Seq(Report \cup {"drop", "notify"})

\* A request that is not under way; fields are reset when they have no use.
Idle == [pc |-> "idle", attempt |-> 0, wait |-> 0, heard |-> FALSE, work |-> <<>>, then |-> "end"]

Capped(n) == IF n > MaxConcurrency THEN MaxConcurrency ELSE n

-----------------------------------------------------------------------------
(* The limiter, each operator under its mutex.                             *)

Halve(n) == IF (n + 1) \div 2 > 1 THEN (n + 1) \div 2 ELSE 1

\* on_success: scarce is a remaining quota below a tenth.  Successes at the
\* full limit are counted on in the code; beyond it no comparison can tell.
OnSuccess(l) ==
    IF l.successes + 1 >= l.current /\ l.current < MaxConcurrency
    THEN [l EXCEPT !.current = l.current + 1, !.successes = 0]
    ELSE [l EXCEPT !.successes = Capped(l.successes + 1)]

OnScarce(l) == [l EXCEPT !.current = Halve(l.current), !.successes = 0]

OnRateLimited(l, delay) ==
    [l EXCEPT !.current = Halve(l.current), !.successes = 0, !.cooldown = delay]

OnTransientFailure(l) == [l EXCEPT !.successes = 0]

Release(l) == [l EXCEPT !.inflight = IF l.inflight > 0 THEN l.inflight - 1 ELSE 0]

-----------------------------------------------------------------------------
(* acquire.                                                                *)

Begin(r) ==
    /\ req[r].pc = "idle"
    /\ req' = [req EXCEPT ![r].pc = "acquire"]
    /\ UNCHANGED lim

Listen(r) ==
    /\ req[r].pc = "acquire"
    /\ req' = [req EXCEPT ![r].pc = "listening"]
    /\ UNCHANGED lim

Decide(r) ==
    /\ req[r].pc = "listening"
    /\ \/ /\ lim.cooldown > 0
          /\ req' = [req EXCEPT ![r].pc = "sleeping", ![r].wait = lim.cooldown, ![r].heard = FALSE]
          /\ UNCHANGED lim
       \/ /\ lim.cooldown = 0 /\ lim.inflight < lim.current
          /\ req' = [req EXCEPT ![r].pc = "sending", ![r].heard = FALSE]
          /\ lim' = [lim EXCEPT !.inflight = lim.inflight + 1]
       \/ /\ lim.cooldown = 0 /\ lim.inflight >= lim.current
          /\ req' = [req EXCEPT ![r].pc = "busy"]
          /\ UNCHANGED lim

\* The mutex is free again before the future is first polled.
Await(r) ==
    /\ req[r].pc = "busy"
    /\ req' = [req EXCEPT ![r].pc = "waiting"]
    /\ UNCHANGED lim

\* Mutation: a caller that met a cooldown waits for a notification.
Wake_OnlyNotified(r) ==
    /\ \/ req[r].pc \in {"waiting", "sleeping"} /\ req[r].heard
       \/ req[r].pc = "backoff" /\ req[r].wait = 0
    /\ req' = [req EXCEPT ![r].pc = "acquire", ![r].heard = FALSE]
    /\ UNCHANGED lim

Wake(r) ==
    /\ \/ req[r].pc = "waiting" /\ req[r].heard
       \/ req[r].pc \in {"sleeping", "backoff"} /\ req[r].wait = 0
    /\ req' = [req EXCEPT ![r].pc = "acquire", ![r].heard = FALSE]
    /\ UNCHANGED lim

-----------------------------------------------------------------------------
(* The upstream answers.  A loop reports before it drops its permit, except *)
(* for the streaming one when the attempt failed.                          *)

ReportThenDrop(report) == <<report, "notify", "drop", "notify">>
DropThenReport == <<"drop", "notify", "transient", "notify">>

More(r) == req[r].attempt < MaxRetries

\* Request r turns to its work; delay is how long it is told to stay away,
\* or how long it sleeps before it retries.
Perform(r, work, then, delay) ==
    /\ req' = [req EXCEPT ![r].pc = "working", ![r].work = work,
                          ![r].then = then, ![r].wait = delay]
    /\ UNCHANGED lim

\* The attempt failed: another one if the budget allows.
Retry(r, work) ==
    IF More(r) THEN Perform(r, work, "retry", 1) ELSE Perform(r, work, "end", 0)

AnswerBuffered(r) ==
    /\ req[r].pc = "sending" /\ r \notin Streaming
    /\ \/ \E delay \in 1 .. MaxDelay :                                  \* 429
             Perform(r, ReportThenDrop("rate limited"), IF More(r) THEN "retry" ELSE "end", delay)
       \/ More(r) /\ Perform(r, ReportThenDrop("transient"), "retry", 1) \* 408, 5xx
       \/ \E report \in {"success", "scarce", "transient"} :            \* any other status
             Perform(r, ReportThenDrop(report), "body", 0)
       \/ Retry(r, ReportThenDrop("transient"))                         \* no answer

AnswerStreaming(r) ==
    /\ req[r].pc = "sending" /\ r \in Streaming
    /\ \/ More(r) /\ Perform(r, DropThenReport, "retry", 1)
       \/ \E report \in {"success", "scarce", "transient"} :
             Perform(r, ReportThenDrop(report), "end", 0)
       \/ Retry(r, DropThenReport)

\* The buffered loop reads the body without a permit.
ReadBody(r) ==
    /\ req[r].pc = "body"
    /\ \/ req' = [req EXCEPT ![r] = Idle] /\ UNCHANGED lim
       \/ Retry(r, <<"transient", "notify">>)

\* Mutation: the work in hand is lost when the request is.
Cancel_KeepPermit(r) ==
    /\ req[r].pc \in {"waiting", "sleeping", "backoff", "body", "sending"}
    /\ req' = [req EXCEPT ![r] = Idle]
    /\ UNCHANGED lim

\* The request's future is dropped at one of its awaits, its permit with it.
Cancel(r) ==
    \/ /\ req[r].pc \in {"waiting", "sleeping", "backoff", "body"}
       /\ req' = [req EXCEPT ![r] = Idle]
       /\ UNCHANGED lim
    \/ /\ req[r].pc = "sending"
       /\ Perform(r, <<"drop", "notify">>, "end", 0)

-----------------------------------------------------------------------------
(* The work on the limiter.                                                *)

Working(r, op) == req[r].pc = "working" /\ Head(req[r].work) = op

DoReport(r) ==
    /\ \/ Working(r, "success") /\ lim' = OnSuccess(lim)
       \/ Working(r, "scarce") /\ lim' = OnScarce(lim)
       \/ Working(r, "rate limited") /\ lim' = OnRateLimited(lim, req[r].wait)
       \/ Working(r, "transient") /\ lim' = OnTransientFailure(lim)
    /\ req' = [req EXCEPT ![r].work = Tail(req[r].work)]

DoDrop(r) ==
    /\ Working(r, "drop")
    /\ lim' = Release(lim)
    /\ req' = [req EXCEPT ![r].work = Tail(req[r].work)]

\* Mutation: as if a future listened only from its first await.
Hears_WhenAwaiting(q) == req[q].pc = "waiting"

\* notify_waiters reaches every future that notified() has made.
Hears(q) == req[q].pc \in {"listening", "busy", "waiting"}

\* What a request goes on to when its work is done.
Afterwards(q) ==
    CASE q.then = "retry" -> [q EXCEPT !.pc = "backoff", !.then = "end", !.attempt = q.attempt + 1]
      [] q.then = "body"  -> [q EXCEPT !.pc = "body", !.then = "end"]
      [] q.then = "end"   -> Idle

\* Every piece of work ends in a notification.
DoNotify(r) ==
    /\ Working(r, "notify")
    /\ LET done == [req[r] EXCEPT !.work = Tail(req[r].work)]
       IN req' = [q \in Request |->
                    IF q = r THEN IF done.work = <<>> THEN Afterwards(done) ELSE done
                    ELSE [req[q] EXCEPT !.heard = @ \/ Hears(q)]]
    /\ UNCHANGED lim

\* Time passes for the cooldown and for those who sleep.
Less(n) == IF n > 0 THEN n - 1 ELSE 0
Asleep(q) == req[q].pc \in {"sleeping", "backoff"}
Tick ==
    /\ lim.cooldown > 0 \/ \E q \in Request : Asleep(q) /\ req[q].wait > 0
    /\ lim' = [lim EXCEPT !.cooldown = Less(lim.cooldown)]
    /\ req' = [q \in Request |->
                 IF Asleep(q) THEN [req[q] EXCEPT !.wait = Less(req[q].wait)] ELSE req[q]]

-----------------------------------------------------------------------------

Init ==
    /\ lim = [current |-> MaxConcurrency, inflight |-> 0, successes |-> 0, cooldown |-> 0]
    /\ req = [r \in Request |-> Idle]

\* What a request does by itself, once it has begun.
Proceed(r) ==
    \/ Listen(r)
    \/ Decide(r)
    \/ Await(r)
    \/ Wake(r)
    \/ AnswerBuffered(r)
    \/ AnswerStreaming(r)
    \/ ReadBody(r)
    \/ DoReport(r)
    \/ DoDrop(r)
    \/ DoNotify(r)

Next ==
    \/ \E r \in Request : Begin(r) \/ Proceed(r) \/ Cancel(r)
    \/ Tick

Spec == Init /\ [][Next]_vars

\* Tasks are polled, the upstream answers or times out, and time passes.
Fairness == WF_vars(Tick) /\ \A r \in Request : WF_vars(Proceed(r))
FairSpec == Spec /\ Fairness

-----------------------------------------------------------------------------
(* Properties.                                                             *)

\* Every variable has its type: the limit stays between one and the
\* configured maximum whatever is reported, and so do the permits.
TypeOK ==
    /\ lim \in [current: 1 .. MaxConcurrency, inflight: 0 .. MaxConcurrency,
                successes: 0 .. MaxConcurrency, cooldown: 0 .. MaxDelay]
    /\ \A r \in Request :
          /\ req[r].pc \in {"idle", "acquire", "listening", "busy", "waiting", "sleeping",
                            "sending", "working", "body", "backoff"}
          /\ req[r].attempt \in 0 .. MaxRetries
          /\ req[r].wait \in 0 .. MaxDelay
          /\ req[r].heard \in BOOLEAN
          /\ req[r].work \in Work
          /\ req[r].then \in {"retry", "body", "end"}

Holds(r) ==
    \/ req[r].pc = "sending"
    \/ req[r].pc = "working" /\ \E i \in 1 .. Len(req[r].work) : req[r].work[i] = "drop"

\* in_flight is exactly the number of permits out, through retries, both
\* orders of report and drop, and requests that go away.
PermitsExact == lim.inflight = Cardinality({r \in Request : Holds(r)})

\* No lost wakeup: whoever waits, or is about to, although a permit is free
\* has been notified or will be.  A future made before the decision, and a
\* notification after every change, are what it takes.
NoLostWakeup ==
    \A r \in Request :
        req[r].pc \in {"busy", "waiting"} /\ ~req[r].heard /\ lim.inflight < lim.current =>
            \E q \in Request : req[q].pc = "working" /\ Head(req[q].work) = "notify"

\* Once no new requests arrive, every request ends: none waits for ever for
\* a permit or a cooldown.
Drains ==
    <>[][\A r \in Request : ~Begin(r)]_vars => \A r \in Request : <>[](req[r].pc = "idle")
===============================================================================
