------------------------ MODULE AdaptiveLimiter_proofs ------------------------
(***************************************************************************)
(* Theorems about the adaptive limiter and its two loops, for any number   *)
(* of requests, any limit, retry budget and delay.                         *)
(*                                                                         *)
(* Both invariants depend on what is left of a request's work: that it     *)
(* holds the drop of the permit until the permit is back, and that every   *)
(* change of the limiter is followed by a notification.  WorkLeft lists    *)
(* what can be left, and Sound ties it to the place of the request.        *)
(***************************************************************************)
EXTENDS AdaptiveLimiter, FiniteSetTheorems, TLAPS

Place == {"idle", "acquire", "listening", "busy", "waiting", "sleeping",
          "sending", "working", "body", "backoff"}

\* What can be left of the work a request turns to.
WorkLeft ==
    {ReportThenDrop(p) : p \in Report}
    \cup {<<"notify", "drop", "notify">>, <<"drop", "notify">>, <<"notify">>,
          <<"drop", "notify", "transient", "notify">>,
          <<"notify", "transient", "notify">>, <<"transient", "notify">>}

Doing == [pc : Place, attempt : 0 .. MaxRetries, wait : 0 .. MaxDelay, heard : BOOLEAN,
          work : WorkLeft \cup {<<>>}, then : {"retry", "body", "end"}]

Limiter == [current : 1 .. MaxConcurrency, inflight : 0 .. MaxConcurrency,
            successes : 0 .. MaxConcurrency, cooldown : 0 .. MaxDelay]

\* A request has work exactly while it is at work, and a retry it is to make
\* is within its budget.
Sound(q) ==
    /\ q \in Doing
    /\ q.pc = "working" <=> q.work # <<>>
    /\ q.then = "retry" => q.attempt < MaxRetries

HasDrop(w) == \E i \in 1 .. Len(w) : w[i] = "drop"
Holding(q) == q.pc = "sending" \/ (q.pc = "working" /\ HasDrop(q.work))

LimiterTyped ==
    /\ lim \in Limiter
    /\ req \in [Request -> Doing]
    /\ \A r \in Request : Sound(req[r])

LimiterInv == LimiterTyped /\ PermitsExact /\ NoLostWakeup

-----------------------------------------------------------------------------
(* Work.                                                                   *)

LEMMA DropIn ==
    /\ ~HasDrop(<<>>)
    /\ \A a : HasDrop(<<a>>) <=> a = "drop"
    /\ \A a, b : HasDrop(<<a, b>>) <=> a = "drop" \/ b = "drop"
    /\ \A a, b, c : HasDrop(<<a, b, c>>) <=> a = "drop" \/ b = "drop" \/ c = "drop"
    /\ \A a, b, c, d :
          HasDrop(<<a, b, c, d>>) <=> a = "drop" \/ b = "drop" \/ c = "drop" \/ d = "drop"
BY DEF HasDrop

LEMMA Tuples ==
    /\ \A a : Head(<<a>>) = a /\ Tail(<<a>>) = <<>> /\ <<a>> # <<>>
    /\ \A a, b : Head(<<a, b>>) = a /\ Tail(<<a, b>>) = <<b>> /\ <<a, b>> # <<>>
    /\ \A a, b, c : Head(<<a, b, c>>) = a /\ Tail(<<a, b, c>>) = <<b, c>> /\ <<a, b, c>> # <<>>
    /\ \A a, b, c, d :
          /\ Head(<<a, b, c, d>>) = a /\ Tail(<<a, b, c, d>>) = <<b, c, d>>
          /\ <<a, b, c, d>> # <<>>
OBVIOUS

\* What is left after the first piece of some work: never two drops, and
\* after anything but a notification comes one.
LEMMA WorkGoesOn ==
    ASSUME NEW w \in WorkLeft
    PROVE  /\ w # <<>>
           /\ Head(w) \in Report \cup {"drop", "notify"}
           /\ Tail(w) \in WorkLeft \cup {<<>>}
           /\ Head(w) # "notify" => Tail(w) # <<>> /\ Head(Tail(w)) = "notify"
           /\ HasDrop(w) <=> Head(w) = "drop" \/ HasDrop(Tail(w))
           /\ Head(w) = "drop" => ~HasDrop(Tail(w))
<1>1. CASE \E p \in Report : w = <<p, "notify", "drop", "notify">>
  <2>1. PICK p \in Report : w = <<p, "notify", "drop", "notify">>
    BY <1>1
  <2>2. p # "drop" /\ p # "notify"
    BY DEF Report
  <2>3. w # <<>> /\ Head(w) = p /\ Tail(w) = <<"notify", "drop", "notify">>
    BY <2>1, Tuples
  <2>4. HasDrop(w) /\ HasDrop(Tail(w))
    BY <2>1, <2>3, DropIn
  <2>5. Tail(w) # <<>> /\ Head(Tail(w)) = "notify"
    <3>1. <<"notify", "drop", "notify">> # <<>> /\ Head(<<"notify", "drop", "notify">>) = "notify"
      BY Tuples, Zenon
    <3> QED BY <2>3, <3>1, Zenon
  <2> QED BY <2>2, <2>3, <2>4, <2>5, Zenon DEF WorkLeft
<1>2. CASE w = <<"notify", "drop", "notify">>
  BY <1>2, Tuples, DropIn DEF WorkLeft, Report
<1>3. CASE w = <<"drop", "notify">>
  BY <1>3, Tuples, DropIn DEF WorkLeft, Report
<1>4. CASE w = <<"notify">>
  BY <1>4, Tuples, DropIn DEF WorkLeft, Report
<1>5. CASE w = <<"drop", "notify", "transient", "notify">>
  BY <1>5, Tuples, DropIn DEF WorkLeft, Report
<1>6. CASE w = <<"notify", "transient", "notify">>
  BY <1>6, Tuples, DropIn DEF WorkLeft, Report
<1>7. CASE w = <<"transient", "notify">>
  BY <1>7, Tuples, DropIn DEF WorkLeft, Report
<1> QED BY <1>1, <1>2, <1>3, <1>4, <1>5, <1>6, <1>7, Zenon DEF WorkLeft, ReportThenDrop

\* The work a request turns to, and whether it holds a permit with it.
LEMMA WorkTaken ==
    /\ \A p \in Report : ReportThenDrop(p) \in WorkLeft /\ HasDrop(ReportThenDrop(p))
    /\ DropThenReport \in WorkLeft /\ HasDrop(DropThenReport)
    /\ <<"drop", "notify">> \in WorkLeft /\ HasDrop(<<"drop", "notify">>)
    /\ <<"transient", "notify">> \in WorkLeft /\ ~HasDrop(<<"transient", "notify">>)
<1>1. \A p \in Report : ReportThenDrop(p) \in WorkLeft /\ HasDrop(ReportThenDrop(p))
  BY DropIn, Zenon DEF WorkLeft, ReportThenDrop
<1>2. DropThenReport \in WorkLeft /\ HasDrop(DropThenReport)
  BY DropIn, Zenon DEF WorkLeft, DropThenReport
<1>3. <<"drop", "notify">> \in WorkLeft /\ HasDrop(<<"drop", "notify">>)
  BY DropIn, Zenon DEF WorkLeft
<1>4. <<"transient", "notify">> \in WorkLeft /\ ~HasDrop(<<"transient", "notify">>)
  BY DropIn DEF WorkLeft
<1> QED BY <1>1, <1>2, <1>3, <1>4

LEMMA TuplesTyped ==
    ASSUME NEW S
    PROVE  /\ <<>> \in Seq(S)
           /\ \A a \in S : <<a>> \in Seq(S)
           /\ \A a, b \in S : <<a, b>> \in Seq(S)
           /\ \A a, b, c \in S : <<a, b, c>> \in Seq(S)
           /\ \A a, b, c, d \in S : <<a, b, c, d>> \in Seq(S)
OBVIOUS

LEMMA WorkTyped == WorkLeft \cup {<<>>} \subseteq Work
<1> DEFINE S == Report \cup {"drop", "notify"}
<1>1. Report \subseteq S /\ "drop" \in S /\ "notify" \in S /\ "transient" \in S
  BY DEF Report
<1> HIDE DEF S
<1> SUFFICES ASSUME NEW w \in WorkLeft \cup {<<>>} PROVE w \in Seq(S)
  BY Zenon DEF Work, S
<1>2. CASE \E p \in Report : w = <<p, "notify", "drop", "notify">>
  <2>1. PICK p \in Report : w = <<p, "notify", "drop", "notify">>
    BY <1>2
  <2>2. p \in S
    BY <1>1
  <2> QED BY <1>1, <2>1, <2>2, TuplesTyped, Zenon
<1>3. CASE w \in {<<"notify", "drop", "notify">>, <<"drop", "notify">>, <<"notify">>, <<>>}
  BY <1>1, <1>3, TuplesTyped, Zenon
<1>4. CASE w \in {<<"drop", "notify", "transient", "notify">>,
                  <<"notify", "transient", "notify">>, <<"transient", "notify">>}
  BY <1>1, <1>4, TuplesTyped, Zenon
<1> QED BY <1>2, <1>3, <1>4, Zenon DEF WorkLeft, ReportThenDrop

-----------------------------------------------------------------------------
(* One request moves.                                                      *)

Moves(r, x) == req' = [req EXCEPT ![r] = x]

LEMMA MovedTyped ==
    ASSUME LimiterTyped, NEW r \in Request, NEW x, Moves(r, x), Sound(x), lim' \in Limiter
    PROVE  LimiterTyped'
<1>1. x \in Doing
  BY DEF Sound
<1>2. req' \in [Request -> Doing]
  BY <1>1 DEF LimiterTyped, Moves
<1>3. \A q \in Request : req'[q] = IF q = r THEN x ELSE req[q]
  BY DEF LimiterTyped, Moves
<1>4. \A q \in Request : Sound(req'[q])
  BY <1>3, Zenon DEF LimiterTyped
<1> QED BY <1>2, <1>4 DEF LimiterTyped, Sound

Holders == {q \in Request : Holding(req[q])}

LEMMA HoldersCounted == PermitsExact <=> lim.inflight = Cardinality(Holders)
<1>1. {q \in Request : Holds(q)} = Holders
  BY Zenon DEF Holds, Holders, Holding, HasDrop
<1> QED BY <1>1, Zenon DEF PermitsExact

LEMMA HoldersFinite == IsFiniteSet(Holders) /\ IsFiniteSet(Holders')
BY LimiterAssumption, FS_Subset DEF Holders

\* The permits out, after request r has gone on to x.
LEMMA HoldersMove ==
    ASSUME LimiterTyped, NEW r \in Request, NEW x, Moves(r, x)
    PROVE  /\ Cardinality(Holders) \in Nat
           /\ (Holding(x) <=> Holding(req[r])) => Cardinality(Holders') = Cardinality(Holders)
           /\ Holding(x) /\ ~Holding(req[r]) =>
                 Cardinality(Holders') = Cardinality(Holders) + 1
           /\ ~Holding(x) /\ Holding(req[r]) =>
                 /\ Cardinality(Holders') = Cardinality(Holders) - 1
                 /\ Cardinality(Holders) > 0
<1>1. \A q \in Request : req'[q] = IF q = r THEN x ELSE req[q]
  BY DEF LimiterTyped, Moves
<1>2. \A q : q \in Holders' <=> q \in Request /\ Holding(req'[q])
  BY DEF Holders, Holding, HasDrop
<1>3. \A q : q \in Holders <=> q \in Request /\ Holding(req[q])
  BY DEF Holders
<1>4. Cardinality(Holders) \in Nat /\ Cardinality(Holders') \in Nat
  BY HoldersFinite, FS_CardinalityType
<1>5. ASSUME Holding(x) <=> Holding(req[r]) PROVE Cardinality(Holders') = Cardinality(Holders)
  <2>1. Holders' = Holders
    BY <1>1, <1>2, <1>3, <1>5, Zenon
  <2> QED BY <2>1
<1>6. ASSUME Holding(x), ~Holding(req[r])
      PROVE  Cardinality(Holders') = Cardinality(Holders) + 1
  <2>1. Holders' = Holders \cup {r} /\ r \notin Holders
    BY <1>1, <1>2, <1>3, <1>6, Zenon
  <2> QED BY <2>1, HoldersFinite, FS_AddElement
<1>7. ASSUME ~Holding(x), Holding(req[r])
      PROVE  Cardinality(Holders') = Cardinality(Holders) - 1 /\ Cardinality(Holders) > 0
  <2>1. Holders' = Holders \ {r} /\ r \in Holders
    BY <1>1, <1>2, <1>3, <1>7, Zenon
  <2>2. Cardinality(Holders') = Cardinality(Holders) - 1
    BY <2>1, HoldersFinite, FS_RemoveElement
  <2> QED BY <1>4, <2>2
<1> QED BY <1>4, <1>5, <1>6, <1>7

\* Permits are counted when a request moves: inflight follows it.
LEMMA CountMoves ==
    ASSUME LimiterTyped, PermitsExact, NEW r \in Request, NEW x, Moves(r, x),
           \/ (Holding(x) <=> Holding(req[r])) /\ lim'.inflight = lim.inflight
           \/ Holding(x) /\ ~Holding(req[r]) /\ lim'.inflight = lim.inflight + 1
           \/ ~Holding(x) /\ Holding(req[r])
              /\ lim'.inflight = (IF lim.inflight > 0 THEN lim.inflight - 1 ELSE 0)
    PROVE  PermitsExact'
<1>1. lim.inflight = Cardinality(Holders)
  BY HoldersCounted
<1>2. lim'.inflight = Cardinality(Holders')
  BY <1>1, HoldersMove
<1>3. PermitsExact' <=> lim'.inflight = Cardinality(Holders')
  <2>1. {q \in Request : Holds(q)}' = Holders'
    BY Zenon DEF Holds, Holders, Holding, HasDrop
  <2> QED BY <2>1, Zenon DEF PermitsExact
<1> QED BY <1>2, <1>3

Free(l) == l.inflight < l.current

\* A request that is not at work moves: those who wait for a permit that
\* was free before are still going to be notified.
LEMMA WaitMoves ==
    ASSUME LimiterTyped, NoLostWakeup, NEW r \in Request, NEW x, Moves(r, x),
           req[r].pc # "working",
           \/ ~Free(lim')
           \/ /\ Free(lim)
              /\ x.pc \in {"busy", "waiting"} => req[r].pc \in {"busy", "waiting"} /\ x.heard = req[r].heard
    PROVE  NoLostWakeup'
<1>1. \A q \in Request : req'[q] = IF q = r THEN x ELSE req[q]
  BY DEF LimiterTyped, Moves
<1> SUFFICES ASSUME NEW w \in Request,
                    req'[w].pc \in {"busy", "waiting"}, ~req'[w].heard, Free(lim')
             PROVE  \E q \in Request : req'[q].pc = "working" /\ Head(req'[q].work) = "notify"
  BY Zenon DEF NoLostWakeup, Free
<1>2. Free(lim)
  OBVIOUS
<1>3. req[w].pc \in {"busy", "waiting"} /\ ~req[w].heard
  BY <1>1
<1>4. PICK q \in Request : req[q].pc = "working" /\ Head(req[q].work) = "notify"
  BY <1>2, <1>3 DEF NoLostWakeup, Free
<1> QED BY <1>1, <1>4

\* A request that has changed the limiter is about to notify.
LEMMA WorkerNotifies ==
    ASSUME LimiterTyped, NEW r \in Request, NEW x, Moves(r, x),
           x.pc = "working", Head(x.work) = "notify"
    PROVE  NoLostWakeup'
BY DEF LimiterTyped, Moves, NoLostWakeup

-----------------------------------------------------------------------------
(* The steps, each as the move of one request.                             *)

LEMMA LimiterStaysTyped ==
    ASSUME LimiterTyped
    PROVE  /\ OnSuccess(lim) \in Limiter
           /\ OnScarce(lim) \in Limiter
           /\ \A d \in 0 .. MaxDelay : OnRateLimited(lim, d) \in Limiter
           /\ OnTransientFailure(lim) \in Limiter
           /\ Release(lim) \in Limiter
           /\ lim.inflight < lim.current => [lim EXCEPT !.inflight = lim.inflight + 1] \in Limiter
<1>1. /\ lim = [current |-> lim.current, inflight |-> lim.inflight,
                successes |-> lim.successes, cooldown |-> lim.cooldown]
      /\ lim.current \in 1 .. MaxConcurrency /\ lim.inflight \in 0 .. MaxConcurrency
      /\ lim.successes \in 0 .. MaxConcurrency /\ lim.cooldown \in 0 .. MaxDelay
  BY DEF LimiterTyped, Limiter
<1>2. ASSUME NEW c \in 1 .. MaxConcurrency, NEW i \in 0 .. MaxConcurrency,
             NEW s \in 0 .. MaxConcurrency, NEW d \in 0 .. MaxDelay
      PROVE  [current |-> c, inflight |-> i, successes |-> s, cooldown |-> d] \in Limiter
  BY DEF Limiter
<1>3. Halve(lim.current) \in 1 .. MaxConcurrency
  BY <1>1, LimiterAssumption DEF Halve
<1>4. Capped(lim.successes + 1) \in 0 .. MaxConcurrency /\ 0 \in 0 .. MaxConcurrency
  BY <1>1, LimiterAssumption DEF Capped
<1>5. OnSuccess(lim) \in Limiter
  <2>1. CASE lim.successes + 1 >= lim.current /\ lim.current < MaxConcurrency
    <3>1. OnSuccess(lim) = [current |-> lim.current + 1, inflight |-> lim.inflight,
                            successes |-> 0, cooldown |-> lim.cooldown]
      BY <1>1, <2>1 DEF OnSuccess
    <3>2. lim.current + 1 \in 1 .. MaxConcurrency
      BY <1>1, <2>1, LimiterAssumption
    <3> QED BY <1>1, <1>2, <1>4, <3>1, <3>2
  <2>2. CASE ~(lim.successes + 1 >= lim.current /\ lim.current < MaxConcurrency)
    <3>1. OnSuccess(lim) = [current |-> lim.current, inflight |-> lim.inflight,
                            successes |-> Capped(lim.successes + 1), cooldown |-> lim.cooldown]
      BY <1>1, <2>2 DEF OnSuccess
    <3> QED BY <1>1, <1>2, <1>4, <3>1
  <2> QED BY <2>1, <2>2
<1>6. OnScarce(lim) \in Limiter
  <2>1. ASSUME NEW h \in 1 .. MaxConcurrency
        PROVE  [lim EXCEPT !.current = h, !.successes = 0] \in Limiter
    BY <1>4 DEF LimiterTyped, Limiter
  <2> QED BY <1>3, <2>1, Zenon DEF OnScarce
<1>7. ASSUME NEW d \in 0 .. MaxDelay PROVE OnRateLimited(lim, d) \in Limiter
  <2>1. ASSUME NEW h \in 1 .. MaxConcurrency
        PROVE  [lim EXCEPT !.current = h, !.successes = 0, !.cooldown = d] \in Limiter
    BY <1>4 DEF LimiterTyped, Limiter
  <2> QED BY <1>3, <2>1, Zenon DEF OnRateLimited
<1>8. OnTransientFailure(lim) \in Limiter
  BY <1>1, LimiterAssumption DEF OnTransientFailure, Limiter
<1>9. Release(lim) \in Limiter
  BY <1>1, LimiterAssumption DEF Release, Limiter
<1>10. lim.inflight < lim.current => [lim EXCEPT !.inflight = lim.inflight + 1] \in Limiter
  BY <1>1, LimiterAssumption DEF Limiter
<1> QED BY <1>5, <1>6, <1>7, <1>8, <1>9, <1>10

LEMMA RequestSound ==
    ASSUME LimiterTyped, NEW r \in Request
    PROVE  Sound(req[r]) /\ req[r] \in Doing
BY Zenon DEF LimiterTyped, Sound

LEMMA IdleSound == Sound(Idle) /\ ~Holding(Idle) /\ Idle.pc = "idle"
BY LimiterAssumption DEF Sound, Idle, Doing, Place, Holding

\* Request r goes to a place where it has no work.
Put(r, p, w, h) == [req[r] EXCEPT !.pc = p, !.wait = w, !.heard = h]

LEMMA PlaceMove ==
    ASSUME LimiterTyped, NEW r \in Request, NEW p \in Place \ {"working"},
           NEW w \in 0 .. MaxDelay, NEW h \in BOOLEAN, req[r].pc # "working"
    PROVE  /\ Sound(Put(r, p, w, h))
           /\ Put(r, p, w, h).pc = p /\ Put(r, p, w, h).heard = h
           /\ Holding(Put(r, p, w, h)) <=> p = "sending"
BY RequestSound DEF Sound, Doing, Holding, Put

LEMMA PlaceMoveDeaf ==
    ASSUME LimiterTyped, NEW r \in Request, NEW p \in Place \ {"working"},
           NEW w \in 0 .. MaxDelay, req[r].pc # "working"
    PROVE  /\ Sound(Put(r, p, w, FALSE))
           /\ Put(r, p, w, FALSE).pc = p
           /\ Holding(Put(r, p, w, FALSE)) <=> p = "sending"
BY RequestSound DEF Sound, Doing, Holding, Put

LEMMA Typed ==
    ASSUME LimiterTyped, NEW r \in Request
    PROVE  /\ req[r].wait \in 0 .. MaxDelay /\ req[r].heard \in BOOLEAN
           /\ lim.cooldown \in 0 .. MaxDelay
           /\ {"acquire", "listening", "busy", "waiting", "sleeping", "sending"}
                \subseteq Place \ {"working"}
BY RequestSound DEF LimiterTyped, Doing, Limiter, Place

Settled(r) == req[r].pc # "working" /\ req[r].pc # "sending"

LEMMA SettledHoldsNothing ==
    ASSUME NEW r \in Request, Settled(r)
    PROVE  ~Holding(req[r])
BY DEF Settled, Holding

\* A step that takes no permit and leaves the limiter alone.
LEMMA QuietMove ==
    ASSUME LimiterInv, NEW r \in Request, Settled(r), NEW x, Moves(r, x), UNCHANGED lim,
           Sound(x), ~Holding(x), x.pc \notin {"busy", "waiting"}
    PROVE  LimiterInv'
<1>1. LimiterTyped' BY MovedTyped DEF LimiterInv, LimiterTyped
<1>2. PermitsExact' BY SettledHoldsNothing, CountMoves DEF LimiterInv
<1>3. NoLostWakeup' BY WaitMoves DEF LimiterInv, Settled
<1> QED BY <1>1, <1>2, <1>3 DEF LimiterInv

LEMMA BeginKeeps == ASSUME LimiterInv, NEW r \in Request, Begin(r) PROVE LimiterInv'
<1> DEFINE x == Put(r, "acquire", req[r].wait, req[r].heard)
<1>1. Settled(r) /\ UNCHANGED lim
  BY DEF Begin, Settled
<1>2. req[r] \in Doing /\ req \in [Request -> Doing]
  BY RequestSound DEF LimiterInv, LimiterTyped
<1>3. Moves(r, x)
  BY <1>2 DEF Begin, Moves, Doing, Put
<1>4. Sound(x) /\ ~Holding(x) /\ x.pc = "acquire"
  BY <1>1, PlaceMove, Typed DEF LimiterInv, Settled
<1> HIDE DEF x
<1> QED BY <1>1, <1>3, <1>4, QuietMove

LEMMA ListenKeeps == ASSUME LimiterInv, NEW r \in Request, Listen(r) PROVE LimiterInv'
<1> DEFINE x == Put(r, "listening", req[r].wait, req[r].heard)
<1>1. Settled(r) /\ UNCHANGED lim
  BY DEF Listen, Settled
<1>2. req[r] \in Doing /\ req \in [Request -> Doing]
  BY RequestSound DEF LimiterInv, LimiterTyped
<1>3. Moves(r, x)
  BY <1>2 DEF Listen, Moves, Doing, Put
<1>4. Sound(x) /\ ~Holding(x) /\ x.pc = "listening"
  BY <1>1, PlaceMove, Typed DEF LimiterInv, Settled
<1> HIDE DEF x
<1> QED BY <1>1, <1>3, <1>4, QuietMove

LEMMA WakeKeeps == ASSUME LimiterInv, NEW r \in Request, Wake(r) PROVE LimiterInv'
<1> DEFINE x == Put(r, "acquire", req[r].wait, FALSE)
<1>1. Settled(r) /\ UNCHANGED lim
  BY DEF Wake, Settled
<1>2. req[r] \in Doing /\ req \in [Request -> Doing]
  BY RequestSound DEF LimiterInv, LimiterTyped
<1>3. Moves(r, x)
  BY <1>2 DEF Wake, Moves, Doing, Put
<1>4. Sound(x) /\ ~Holding(x) /\ x.pc = "acquire"
  BY <1>1, PlaceMoveDeaf, Typed, Zenon DEF LimiterInv, Settled
<1> HIDE DEF x
<1> QED BY <1>1, <1>3, <1>4, QuietMove

LEMMA AwaitKeeps == ASSUME LimiterInv, NEW r \in Request, Await(r) PROVE LimiterInv'
<1> DEFINE x == Put(r, "waiting", req[r].wait, req[r].heard)
<1>1. Settled(r) /\ UNCHANGED lim /\ req[r].pc = "busy"
  BY DEF Await, Settled
<1>2. req[r] \in Doing /\ req \in [Request -> Doing]
  BY RequestSound DEF LimiterInv, LimiterTyped
<1>3. Moves(r, x)
  BY <1>2 DEF Await, Moves, Doing, Put
<1>4. Sound(x) /\ ~Holding(x) /\ x.pc = "waiting" /\ x.heard = req[r].heard
  BY <1>1, PlaceMove, Typed DEF LimiterInv, Settled
<1> HIDE DEF x
<1>5. LimiterTyped' BY <1>1, <1>3, <1>4, MovedTyped DEF LimiterInv, LimiterTyped
<1>6. PermitsExact' BY <1>1, <1>3, <1>4, SettledHoldsNothing, CountMoves DEF LimiterInv
<1>7. NoLostWakeup' BY <1>1, <1>3, <1>4, WaitMoves DEF LimiterInv
<1> QED BY <1>5, <1>6, <1>7 DEF LimiterInv

LEMMA DecideKeeps == ASSUME LimiterInv, NEW r \in Request, Decide(r) PROVE LimiterInv'
<1>1. Settled(r) /\ req[r].pc = "listening"
  BY DEF Decide, Settled
<1>2. req[r] \in Doing /\ req \in [Request -> Doing] /\ lim \in Limiter
  BY RequestSound DEF LimiterInv, LimiterTyped
<1>3. CASE /\ req' = [req EXCEPT ![r].pc = "sleeping", ![r].wait = lim.cooldown, ![r].heard = FALSE]
           /\ UNCHANGED lim
  <2> DEFINE x == Put(r, "sleeping", lim.cooldown, FALSE)
  <2>1. Moves(r, x)
    BY <1>2, <1>3 DEF Moves, Doing, Put
  <2>2. Sound(x) /\ ~Holding(x) /\ x.pc = "sleeping"
    BY <1>1, PlaceMoveDeaf, Typed, Zenon DEF LimiterInv, Settled
  <2> HIDE DEF x
  <2> QED BY <1>1, <1>3, <2>1, <2>2, QuietMove
<1>4. CASE /\ lim.inflight < lim.current
           /\ req' = [req EXCEPT ![r].pc = "sending", ![r].heard = FALSE]
           /\ lim' = [lim EXCEPT !.inflight = lim.inflight + 1]
  <2> DEFINE x == Put(r, "sending", req[r].wait, FALSE)
  <2>1. Moves(r, x)
    BY <1>2, <1>4 DEF Moves, Doing, Put
  <2>2. Sound(x) /\ Holding(x) /\ x.pc = "sending"
    BY <1>1, PlaceMoveDeaf, Typed, Zenon DEF LimiterInv, Settled
  <2> HIDE DEF x
  <2>3. lim' \in Limiter
    BY <1>4, LimiterStaysTyped DEF LimiterInv
  <2>4. lim'.inflight = lim.inflight + 1 /\ lim'.current = lim.current
    BY <1>2, <1>4 DEF Limiter
  <2>5. LimiterTyped' BY <2>1, <2>2, <2>3, MovedTyped DEF LimiterInv
  <2>6. PermitsExact'
    BY <1>1, <2>1, <2>2, <2>4, SettledHoldsNothing, CountMoves DEF LimiterInv
  <2>7. NoLostWakeup'
    BY <1>1, <1>4, <2>1, <2>2, WaitMoves DEF LimiterInv, Free
  <2> QED BY <2>5, <2>6, <2>7 DEF LimiterInv
<1>5. CASE /\ lim.inflight >= lim.current
           /\ req' = [req EXCEPT ![r].pc = "busy"]
           /\ UNCHANGED lim
  <2> DEFINE x == Put(r, "busy", req[r].wait, req[r].heard)
  <2>1. Moves(r, x)
    BY <1>2, <1>5 DEF Moves, Doing, Put
  <2>2. Sound(x) /\ ~Holding(x) /\ x.pc = "busy"
    BY <1>1, PlaceMove, Typed DEF LimiterInv, Settled
  <2> HIDE DEF x
  <2>3. ~Free(lim')
    BY <1>2, <1>5 DEF Free, Limiter
  <2>4. LimiterTyped' BY <1>2, <1>5, <2>1, <2>2, MovedTyped DEF LimiterInv
  <2>5. PermitsExact'
    BY <1>1, <1>5, <2>1, <2>2, SettledHoldsNothing, CountMoves DEF LimiterInv
  <2>6. NoLostWakeup' BY <1>1, <2>1, <2>3, WaitMoves DEF LimiterInv
  <2> QED BY <2>4, <2>5, <2>6 DEF LimiterInv
<1> QED BY <1>3, <1>4, <1>5 DEF Decide

\* A request turns to work: it keeps the permit it has until the work drops it.
LEMMA PerformKeeps ==
    ASSUME LimiterInv, NEW r \in Request, NEW w \in WorkLeft,
           NEW t \in {"retry", "body", "end"}, NEW d \in 0 .. MaxDelay,
           Perform(r, w, t, d), t = "retry" => More(r), req[r].pc \in {"sending", "body"},
           HasDrop(w) <=> req[r].pc = "sending"
    PROVE  LimiterInv'
<1> DEFINE x == [req[r] EXCEPT !.pc = "working", !.work = w, !.then = t, !.wait = d]
<1>1. req[r] \in Doing /\ req \in [Request -> Doing]
  BY RequestSound DEF LimiterInv, LimiterTyped
<1>2. Moves(r, x) /\ UNCHANGED lim
  BY <1>1 DEF Perform, Moves, Doing
<1>3. x \in Doing /\ x.pc = "working" /\ x.work = w /\ x.then = t /\ x.attempt = req[r].attempt
  BY <1>1 DEF Doing, Place
<1> HIDE DEF x
<1>4. w # <<>>
  BY WorkGoesOn
<1>5. Sound(x)
  BY <1>3, <1>4 DEF Sound, More
<1>6. Holding(x) <=> Holding(req[r])
  BY <1>3 DEF Holding
<1>7. LimiterTyped' BY <1>2, <1>5, MovedTyped DEF LimiterInv, LimiterTyped
<1>8. PermitsExact' BY <1>2, <1>6, CountMoves DEF LimiterInv
<1>9. NoLostWakeup' BY <1>2, <1>3, WaitMoves DEF LimiterInv
<1> QED BY <1>7, <1>8, <1>9 DEF LimiterInv

LEMMA RetryKeeps ==
    ASSUME LimiterInv, NEW r \in Request, NEW w \in WorkLeft, Retry(r, w),
           req[r].pc \in {"sending", "body"}, HasDrop(w) <=> req[r].pc = "sending"
    PROVE  LimiterInv'
<1>1. 0 \in 0 .. MaxDelay /\ 1 \in 0 .. MaxDelay
  BY LimiterAssumption
<1> QED BY <1>1, PerformKeeps DEF Retry

LEMMA AnswerBufferedKeeps ==
    ASSUME LimiterInv, NEW r \in Request, AnswerBuffered(r) PROVE LimiterInv'
<1>1. 0 \in 0 .. MaxDelay /\ 1 \in 0 .. MaxDelay /\ 1 .. MaxDelay \subseteq 0 .. MaxDelay
  BY LimiterAssumption
<1>2. req[r].pc = "sending"
  BY DEF AnswerBuffered
<1>3. ASSUME NEW p \in Report, NEW t \in {"retry", "body", "end"}, NEW d \in 0 .. MaxDelay,
             Perform(r, ReportThenDrop(p), t, d), t = "retry" => More(r)
      PROVE  LimiterInv'
  BY <1>2, <1>3, WorkTaken, PerformKeeps
<1>4. {"success", "scarce", "transient", "rate limited"} \subseteq Report
  BY DEF Report
<1>5. CASE \E delay \in 1 .. MaxDelay :
             Perform(r, ReportThenDrop("rate limited"), IF More(r) THEN "retry" ELSE "end", delay)
  BY <1>1, <1>3, <1>4, <1>5
<1>6. CASE More(r) /\ Perform(r, ReportThenDrop("transient"), "retry", 1)
  BY <1>1, <1>3, <1>4, <1>6
<1>7. CASE \E report \in {"success", "scarce", "transient"} :
             Perform(r, ReportThenDrop(report), "body", 0)
  BY <1>1, <1>3, <1>4, <1>7
<1>8. CASE Retry(r, ReportThenDrop("transient"))
  BY <1>2, <1>4, <1>8, WorkTaken, RetryKeeps
<1> QED BY <1>5, <1>6, <1>7, <1>8 DEF AnswerBuffered

LEMMA AnswerStreamingKeeps ==
    ASSUME LimiterInv, NEW r \in Request, AnswerStreaming(r) PROVE LimiterInv'
<1>1. 0 \in 0 .. MaxDelay /\ 1 \in 0 .. MaxDelay
  BY LimiterAssumption
<1>2. req[r].pc = "sending"
  BY DEF AnswerStreaming
<1>3. {"success", "scarce", "transient", "rate limited"} \subseteq Report
  BY DEF Report
<1>4. CASE More(r) /\ Perform(r, DropThenReport, "retry", 1)
  BY <1>1, <1>2, <1>4, WorkTaken, PerformKeeps
<1>5. CASE \E report \in {"success", "scarce", "transient"} :
             Perform(r, ReportThenDrop(report), "end", 0)
  BY <1>1, <1>2, <1>3, <1>5, WorkTaken, PerformKeeps
<1>6. CASE Retry(r, DropThenReport)
  BY <1>2, <1>6, WorkTaken, RetryKeeps
<1> QED BY <1>4, <1>5, <1>6 DEF AnswerStreaming

LEMMA GoneKeeps ==
    ASSUME LimiterInv, NEW r \in Request, Settled(r), req' = [req EXCEPT ![r] = Idle],
           UNCHANGED lim
    PROVE  LimiterInv'
BY IdleSound, QuietMove DEF Moves

LEMMA ReadBodyKeeps == ASSUME LimiterInv, NEW r \in Request, ReadBody(r) PROVE LimiterInv'
<1>1. req[r].pc = "body"
  BY DEF ReadBody
<1>2. CASE req' = [req EXCEPT ![r] = Idle] /\ UNCHANGED lim
  BY <1>1, <1>2, GoneKeeps DEF Settled
<1>3. CASE Retry(r, <<"transient", "notify">>)
  BY <1>1, <1>3, WorkTaken, RetryKeeps
<1> QED BY <1>2, <1>3 DEF ReadBody

LEMMA CancelKeeps == ASSUME LimiterInv, NEW r \in Request, Cancel(r) PROVE LimiterInv'
<1>1. CASE /\ req[r].pc \in {"waiting", "sleeping", "backoff", "body"}
           /\ req' = [req EXCEPT ![r] = Idle]
           /\ UNCHANGED lim
  BY <1>1, GoneKeeps DEF Settled
<1>2. CASE req[r].pc = "sending" /\ Perform(r, <<"drop", "notify">>, "end", 0)
  <2>1. 0 \in 0 .. MaxDelay
    BY LimiterAssumption
  <2> QED BY <1>2, <2>1, WorkTaken, PerformKeeps
<1> QED BY <1>1, <1>2 DEF Cancel

-----------------------------------------------------------------------------
(* The work on the limiter.                                                *)

\* What a request at work has done, and what it still has to do.
LEMMA Worked ==
    ASSUME LimiterInv, NEW r \in Request, NEW op, Working(r, op), op # "notify",
           req' = [req EXCEPT ![r].work = Tail(req[r].work)]
    PROVE  \E x : /\ Moves(r, x) /\ Sound(x)
                  /\ x.pc = "working" /\ Head(x.work) = "notify"
                  /\ op # "drop" => (Holding(x) <=> Holding(req[r]))
                  /\ op = "drop" => Holding(req[r]) /\ ~Holding(x)
<1> DEFINE x == [req[r] EXCEPT !.work = Tail(req[r].work)]
<1>1. req[r] \in Doing /\ req \in [Request -> Doing] /\ Sound(req[r])
  BY RequestSound DEF LimiterInv, LimiterTyped
<1>2. Moves(r, x)
  BY <1>1 DEF Moves, Doing
<1>3. req[r].pc = "working" /\ req[r].work \in WorkLeft /\ Head(req[r].work) = op
  BY <1>1 DEF Working, Sound, Doing
<1>4. /\ Tail(req[r].work) \in WorkLeft /\ Head(Tail(req[r].work)) = "notify"
      /\ Tail(req[r].work) # <<>>
      /\ HasDrop(req[r].work) <=> op = "drop" \/ HasDrop(Tail(req[r].work))
      /\ op = "drop" => ~HasDrop(Tail(req[r].work))
  BY <1>3, WorkGoesOn, Zenon
<1>5. x.work = Tail(req[r].work) /\ x.pc = "working" /\ x.then = req[r].then
      /\ x.attempt = req[r].attempt /\ x \in Doing
  BY <1>1, <1>3, <1>4 DEF Doing
<1> HIDE DEF x
<1>6. Sound(x)
  BY <1>1, <1>4, <1>5 DEF Sound
<1> QED BY <1>2, <1>3, <1>4, <1>5, <1>6, Zenon DEF Holding

LEMMA DoReportKeeps == ASSUME LimiterInv, NEW r \in Request, DoReport(r) PROVE LimiterInv'
<1>1. lim \in Limiter /\ req[r].wait \in 0 .. MaxDelay
  BY RequestSound DEF LimiterInv, LimiterTyped, Doing
<1>2. lim' \in Limiter /\ lim'.inflight = lim.inflight
  <2>1. CASE lim' = OnSuccess(lim)
    BY <1>1, <2>1, LimiterStaysTyped DEF LimiterInv, Limiter, OnSuccess
  <2>2. CASE lim' = OnScarce(lim)
    BY <1>1, <2>2, LimiterStaysTyped DEF LimiterInv, Limiter, OnScarce
  <2>3. CASE lim' = OnRateLimited(lim, req[r].wait)
    BY <1>1, <2>3, LimiterStaysTyped DEF LimiterInv, Limiter, OnRateLimited
  <2>4. CASE lim' = OnTransientFailure(lim)
    BY <1>1, <2>4, LimiterStaysTyped DEF LimiterInv, Limiter, OnTransientFailure
  <2> QED BY <2>1, <2>2, <2>3, <2>4 DEF DoReport
<1>3. PICK op \in Report : Working(r, op) /\ op # "notify" /\ op # "drop"
  BY DEF DoReport, Report
<1>4. PICK x : /\ Moves(r, x) /\ Sound(x) /\ x.pc = "working" /\ Head(x.work) = "notify"
               /\ Holding(x) <=> Holding(req[r])
  BY <1>3, Worked DEF DoReport
<1>5. LimiterTyped' BY <1>2, <1>4, MovedTyped DEF LimiterInv
<1>6. PermitsExact' BY <1>2, <1>4, CountMoves DEF LimiterInv
<1>7. NoLostWakeup' BY <1>4, WorkerNotifies DEF LimiterInv
<1> QED BY <1>5, <1>6, <1>7 DEF LimiterInv

LEMMA DoDropKeeps == ASSUME LimiterInv, NEW r \in Request, DoDrop(r) PROVE LimiterInv'
<1>1. lim \in Limiter
  BY DEF LimiterInv, LimiterTyped
<1>2. /\ lim' \in Limiter
      /\ lim'.inflight = (IF lim.inflight > 0 THEN lim.inflight - 1 ELSE 0)
  BY <1>1, LimiterStaysTyped DEF DoDrop, LimiterInv, Limiter, Release
<1>3. PICK x : /\ Moves(r, x) /\ Sound(x) /\ x.pc = "working" /\ Head(x.work) = "notify"
               /\ Holding(req[r]) /\ ~Holding(x)
  BY Worked DEF DoDrop
<1>4. LimiterTyped' BY <1>2, <1>3, MovedTyped DEF LimiterInv
<1>5. PermitsExact' BY <1>2, <1>3, CountMoves DEF LimiterInv
<1>6. NoLostWakeup' BY <1>3, WorkerNotifies DEF LimiterInv
<1> QED BY <1>4, <1>5, <1>6 DEF LimiterInv

\* A step that moves several requests but leaves the permits where they are.
LEMMA PermitsStay ==
    ASSUME PermitsExact, lim'.inflight = lim.inflight,
           \A q \in Request : Holding(req'[q]) <=> Holding(req[q])
    PROVE  PermitsExact'
<1>1. {q \in Request : Holds(q)}' = {q \in Request : Holds(q)}
  BY Zenon DEF Holds, Holding, HasDrop
<1> QED BY <1>1, Zenon DEF PermitsExact

LEMMA AfterwardsSound ==
    ASSUME NEW q \in Doing, q.then = "retry" => q.attempt < MaxRetries, q.work = <<>>
    PROVE  Sound(Afterwards(q)) /\ Afterwards(q).pc \in {"backoff", "body", "idle"}
<1>1. q.then \in {"retry", "body", "end"} /\ q.attempt \in 0 .. MaxRetries
  BY DEF Doing
<1>2. CASE q.then = "retry"
  <2>1. Afterwards(q) = [q EXCEPT !.pc = "backoff", !.then = "end", !.attempt = q.attempt + 1]
    BY <1>2 DEF Afterwards
  <2>2. q.attempt + 1 \in 0 .. MaxRetries
    BY <1>1, <1>2, LimiterAssumption
  <2>3. ASSUME NEW n \in 0 .. MaxRetries
        PROVE  LET x == [q EXCEPT !.pc = "backoff", !.then = "end", !.attempt = n]
               IN  x \in Doing /\ x.pc = "backoff" /\ x.work = <<>> /\ x.then = "end"
    BY DEF Doing, Place
  <2>4. /\ Afterwards(q) \in Doing /\ Afterwards(q).pc = "backoff"
        /\ Afterwards(q).work = <<>> /\ Afterwards(q).then = "end"
    BY <2>1, <2>2, <2>3, Zenon
  <2> QED BY <2>4 DEF Sound
<1>3. CASE q.then = "body"
  <2>1. Afterwards(q) = [q EXCEPT !.pc = "body", !.then = "end"]
    BY <1>3 DEF Afterwards
  <2>2. /\ Afterwards(q) \in Doing /\ Afterwards(q).pc = "body"
        /\ Afterwards(q).work = <<>> /\ Afterwards(q).then = "end"
    BY <2>1 DEF Doing, Place
  <2> QED BY <2>2 DEF Sound
<1>4. CASE q.then = "end"
  <2>1. Afterwards(q) = Idle
    BY <1>4 DEF Afterwards
  <2> QED BY <2>1, IdleSound
<1> QED BY <1>1, <1>2, <1>3, <1>4

LEMMA DoNotifyKeeps == ASSUME LimiterInv, NEW r \in Request, DoNotify(r) PROVE LimiterInv'
<1> DEFINE done == [req[r] EXCEPT !.work = Tail(req[r].work)]
           x == IF done.work = <<>> THEN Afterwards(done) ELSE done
           other(q) == [req[q] EXCEPT !.heard = @ \/ Hears(q)]
<1>1. lim \in Limiter /\ lim' = lim /\ lim' \in Limiter
  BY DEF LimiterInv, LimiterTyped, DoNotify
<1>2. req' = [q \in Request |-> IF q = r THEN x ELSE other(q)]
  BY DEF DoNotify
<1>3. req[r] \in Doing /\ Sound(req[r]) /\ req[r].pc = "working"
      /\ req[r].work \in WorkLeft /\ Head(req[r].work) = "notify"
  BY RequestSound DEF LimiterInv, DoNotify, Working, Sound, Doing
<1>4. /\ Tail(req[r].work) \in WorkLeft \cup {<<>>}
      /\ HasDrop(req[r].work) <=> HasDrop(Tail(req[r].work))
  BY <1>3, WorkGoesOn
<1>5. /\ done \in Doing /\ done.work = Tail(req[r].work) /\ done.pc = "working"
      /\ done.then = req[r].then /\ done.attempt = req[r].attempt
  BY <1>3, <1>4 DEF Doing
<1>6. done.then = "retry" => done.attempt < MaxRetries
  BY <1>3, <1>5 DEF Sound
<1> HIDE DEF done
<1>7. /\ Sound(x) /\ x.pc \notin {"busy", "waiting"}
      /\ Holding(x) <=> Holding(req[r])
  <2>1. CASE done.work = <<>>
    <3>1. Sound(x) /\ x.pc \in {"backoff", "body", "idle"}
      BY <1>5, <1>6, <2>1, AfterwardsSound
    <3>2. ~Holding(req[r])
      BY <1>3, <1>4, <1>5, <2>1, DropIn DEF Holding
    <3> HIDE DEF x
    <3> QED BY <3>1, <3>2 DEF Holding
  <2>2. CASE done.work # <<>>
    <3>1. x = done
      BY <2>2
    <3> HIDE DEF x
    <3>2. Sound(x)
      BY <1>5, <1>6, <2>2, <3>1 DEF Sound
    <3>3. Holding(x) <=> Holding(req[r])
      BY <1>3, <1>4, <1>5, <3>1 DEF Holding
    <3> QED BY <1>5, <3>1, <3>2, <3>3
  <2> QED BY <2>1, <2>2
<1>8. ASSUME NEW q \in Request
      PROVE  /\ Sound(other(q)) /\ other(q).pc = req[q].pc
             /\ Holding(other(q)) <=> Holding(req[q])
             /\ req[q].pc \in {"busy", "waiting"} => other(q).heard
  <2>1. req[q] \in Doing /\ Sound(req[q])
    BY RequestSound DEF LimiterInv
  <2>2. (req[q].heard \/ Hears(q)) \in BOOLEAN
    BY <2>1, Zenon DEF Doing
  <2>3. ASSUME NEW h \in BOOLEAN
        PROVE  LET y == [req[q] EXCEPT !.heard = h]
               IN  /\ Sound(y) /\ y.pc = req[q].pc /\ y.work = req[q].work /\ y.heard = h
    BY <2>1 DEF Sound, Doing
  <2>4. other(q) = [req[q] EXCEPT !.heard = (req[q].heard \/ Hears(q))]
    BY <2>1 DEF Doing
  <2>5. /\ Sound(other(q)) /\ other(q).pc = req[q].pc /\ other(q).work = req[q].work
        /\ other(q).heard = (req[q].heard \/ Hears(q))
    BY <2>2, <2>3, <2>4, Zenon
  <2>6. req[q].pc \in {"busy", "waiting"} => Hears(q)
    BY DEF Hears
  <2> HIDE DEF other
  <2> QED BY <2>5, <2>6, Zenon DEF Holding
<1> HIDE DEF x, other
<1>9. \A q \in Request : req'[q] = IF q = r THEN x ELSE other(q)
  BY <1>2
<1>10. \A q \in Request : Sound(req'[q])
  BY <1>7, <1>8, <1>9, Zenon
<1>11. LimiterTyped'
  <2>1. \A q \in Request : req'[q] \in Doing
    BY <1>10, Zenon DEF Sound
  <2>2. req' \in [Request -> Doing]
    BY <1>2, <2>1
  <2> QED BY <1>1, <1>10, <2>2, Zenon DEF LimiterTyped, Sound
<1>12. PermitsExact'
  <2>1. \A q \in Request : Holding(req'[q]) <=> Holding(req[q])
    BY <1>7, <1>8, <1>9, Zenon
  <2> QED BY <1>1, <2>1, PermitsStay DEF LimiterInv
<1>13. NoLostWakeup'
  <2>1. \A q \in Request : ~(req'[q].pc \in {"busy", "waiting"} /\ ~req'[q].heard)
    BY <1>7, <1>8, <1>9, Zenon
  <2> QED BY <2>1, Zenon DEF NoLostWakeup
<1> QED BY <1>11, <1>12, <1>13 DEF LimiterInv

LEMMA TickKeeps == ASSUME LimiterInv, Tick PROVE LimiterInv'
<1>1. lim \in Limiter
  BY DEF LimiterInv, LimiterTyped
<1>2. lim' \in Limiter /\ lim'.inflight = lim.inflight /\ lim'.current = lim.current
  BY <1>1, LimiterAssumption DEF Tick, Limiter, Less
<1>3. ASSUME NEW q \in Request
      PROVE  /\ Sound(req'[q]) /\ req'[q].pc = req[q].pc
             /\ req'[q].work = req[q].work /\ req'[q].heard = req[q].heard
  <2>1. req[q] \in Doing /\ Sound(req[q])
    BY RequestSound DEF LimiterInv
  <2>2. req'[q] = IF Asleep(q) THEN [req[q] EXCEPT !.wait = Less(req[q].wait)] ELSE req[q]
    BY Zenon DEF Tick
  <2>3. Less(req[q].wait) \in 0 .. MaxDelay
    BY <2>1, LimiterAssumption DEF Doing, Less
  <2>4. ASSUME NEW n \in 0 .. MaxDelay
        PROVE  LET y == [req[q] EXCEPT !.wait = n]
               IN  Sound(y) /\ y.pc = req[q].pc /\ y.work = req[q].work /\ y.heard = req[q].heard
    BY <2>1 DEF Sound, Doing
  <2> QED BY <2>1, <2>2, <2>3, <2>4, Zenon
<1>4. LimiterTyped'
  <2>1. \A q \in Request : req'[q] \in Doing
    BY <1>3, Zenon DEF Sound
  <2>2. req' = [q \in Request |-> req'[q]]
    BY DEF Tick
  <2>3. req' \in [Request -> Doing]
    BY <2>1, <2>2
  <2> QED BY <1>2, <1>3, <2>3, Zenon DEF LimiterTyped, Sound
<1>5. PermitsExact'
  <2>1. \A q \in Request : Holding(req'[q]) <=> Holding(req[q])
    BY <1>3, Zenon DEF Holding
  <2> QED BY <1>2, <2>1, PermitsStay DEF LimiterInv
<1>6. NoLostWakeup'
  BY <1>2, <1>3, Zenon DEF LimiterInv, NoLostWakeup
<1> QED BY <1>4, <1>5, <1>6 DEF LimiterInv

-----------------------------------------------------------------------------
(* The theorems.                                                           *)

LEMMA LimiterStarts == Init => LimiterInv
<1> SUFFICES ASSUME Init PROVE LimiterInv
  OBVIOUS
<1>1. \A q \in Request : req[q] = Idle
  BY DEF Init
<1>2. LimiterTyped
  <2>1. lim \in Limiter
    BY LimiterAssumption DEF Init, Limiter
  <2>2. \A q \in Request : Sound(req[q])
    BY <1>1, IdleSound
  <2>3. Idle \in Doing
    BY IdleSound DEF Sound
  <2>4. req \in [Request -> Doing]
    BY <2>3 DEF Init
  <2> QED BY <2>1, <2>2, <2>4 DEF LimiterTyped
<1>3. PermitsExact
  <2>1. Holders = {}
    BY <1>1, IdleSound DEF Holders
  <2>2. lim.inflight = 0
    BY DEF Init
  <2> QED BY <2>1, <2>2, HoldersCounted, FS_EmptySet
<1>4. NoLostWakeup
  BY <1>1, IdleSound DEF NoLostWakeup
<1> QED BY <1>2, <1>3, <1>4 DEF LimiterInv

LEMMA LimiterStep == LimiterInv /\ [Next]_vars => LimiterInv'
<1> SUFFICES ASSUME LimiterInv, [Next]_vars PROVE LimiterInv'
  OBVIOUS
<1>1. ASSUME NEW r \in Request, Begin(r) PROVE LimiterInv'
  BY <1>1, BeginKeeps
<1>2. ASSUME NEW r \in Request, Proceed(r) PROVE LimiterInv'
  BY <1>2, ListenKeeps, DecideKeeps, AwaitKeeps, WakeKeeps, AnswerBufferedKeeps,
     AnswerStreamingKeeps, ReadBodyKeeps, DoReportKeeps, DoDropKeeps, DoNotifyKeeps
     DEF Proceed
<1>3. ASSUME NEW r \in Request, Cancel(r) PROVE LimiterInv'
  BY <1>3, CancelKeeps
<1>4. CASE Tick
  BY <1>4, TickKeeps
<1>5. CASE UNCHANGED vars
  <2>1. lim' = lim /\ req' = req
    BY <1>5 DEF vars
  <2> QED BY <2>1 DEF LimiterInv, LimiterTyped, Sound, PermitsExact, Holds, NoLostWakeup
<1> QED BY <1>1, <1>2, <1>3, <1>4, <1>5 DEF Next

LEMMA LimiterAlways == Spec => []LimiterInv
BY LimiterStarts, LimiterStep, PTL DEF Spec

\* The limit stays between one and the configured maximum, and a request is
\* never sent more often than its budget allows, whatever the upstreams
\* answer and in whatever order the loops report.
THEOREM LimiterTypeCorrect == Spec => []TypeOK
<1>1. LimiterInv => TypeOK
  <2> SUFFICES ASSUME LimiterInv PROVE TypeOK
    OBVIOUS
  <2>1. lim \in Limiter
    BY DEF LimiterInv, LimiterTyped
  <2>2. ASSUME NEW r \in Request
        PROVE  /\ req[r].pc \in Place /\ req[r].attempt \in 0 .. MaxRetries
               /\ req[r].wait \in 0 .. MaxDelay /\ req[r].heard \in BOOLEAN
               /\ req[r].work \in Work /\ req[r].then \in {"retry", "body", "end"}
    <3>1. req[r] \in Doing
      BY RequestSound DEF LimiterInv
    <3>2. req[r].work \in Work
      BY <3>1, WorkTyped DEF Doing
    <3> QED BY <3>1, <3>2 DEF Doing
  <2> QED BY <2>1, <2>2, Zenon DEF TypeOK, Limiter, Place
<1> QED BY <1>1, LimiterAlways, PTL

\* in_flight is the number of permits out, so that no permit is lost when a
\* request is retried or cancelled and none is handed back twice.
THEOREM PermitsAlwaysExact == Spec => []PermitsExact
<1>1. LimiterInv => PermitsExact
  BY DEF LimiterInv
<1> QED BY <1>1, LimiterAlways, PTL

\* acquire misses no notification: while a permit is free, nobody is left
\* waiting unless a notification is about to be sent.
THEOREM WakeupsKept == Spec => []NoLostWakeup
<1>1. LimiterInv => NoLostWakeup
  BY DEF LimiterInv
<1> QED BY <1>1, LimiterAlways, PTL
===============================================================================
