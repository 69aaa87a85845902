------------------------ MODULE CircuitBreaker_proofs ------------------------
(***************************************************************************)
(* Proofs about CircuitBreaker, for any number of providers, requests and  *)
(* reloads and any thresholds.  The invariants of the runs are inductive   *)
(* together once it is added that a request is bound to a generation that  *)
(* has been published, and that a snapshot taken by a reload still says    *)
(* what is claimed of the circuits it was taken from, except of providers  *)
(* with an outcome recorded since.                                         *)
(***************************************************************************)
EXTENDS CircuitBreaker, TLAPS

\* What is true of every circuit.
Sound(c) ==
    /\ c.state = "Open" => c.age # Never
    /\ c.state = "Closed" => c.failures < Threshold

\* What is true of one that knows the f failures since the last success.
Exact(c, f) == c.state = "Closed" => c.failures = f

\* Circuits are sound and know of what they did not miss, in the managers and
\* in a snapshot under way.
Soundness ==
    /\ \A g \in Generation, p \in Provider :
         /\ Sound(cb[g][p])
         /\ p \notin missed[g] => Exact(cb[g][p], streak[g][p])
    /\ reload # << >> =>
         \A p \in Provider :
            /\ reload[1][p].state = "Closed" => reload[1][p].failures < Threshold
            /\ p \notin missed[live] \cup missed[live + 1] => Exact(reload[1][p], streak[live][p])

\* A request that is under way uses a published generation, and one that is
\* sent is with a candidate.
Placement ==
    \A r \in Request :
        /\ req[r].gen <= live
        /\ req[r].pc = "sent" => req[r].next <= Len(Order)

BreakerInv == TypeOK /\ Soundness /\ Placement /\ OpenAdmitsNone

-----------------------------------------------------------------------------
(* The operations on one circuit.                                          *)

\* Upto keeps a counter within its range.
LEMMA UptoRange ==
    ASSUME NEW n \in Nat, NEW max \in Nat
    PROVE  Upto(n, max) \in 0 .. max
BY DEF Upto

\* A circuit with some fields replaced is a circuit.
LEMMA CircuitUpdates ==
    ASSUME NEW c \in Circuit
    PROVE  /\ \A f \in 0 .. Threshold : [c EXCEPT !.failures = f] \in Circuit
           /\ \A a \in 0 .. Cooldown \cup {Never} : [c EXCEPT !.age = a] \in Circuit
           /\ \A n \in 0 .. HalfOpenSuccesses : [c EXCEPT !.successes = n] \in Circuit
           /\ \A s \in {"Closed", "Open", "HalfOpen"} : [c EXCEPT !.state = s] \in Circuit
           /\ \A s \in {"Closed", "Open", "HalfOpen"}, n \in 0 .. HalfOpenSuccesses :
                [c EXCEPT !.state = s, !.successes = n] \in Circuit
           /\ \A f \in 0 .. Threshold, a \in 0 .. Cooldown \cup {Never} :
                [c EXCEPT !.failures = f, !.age = a] \in Circuit
           /\ \A s \in {"Closed", "Open", "HalfOpen"}, f \in 0 .. Threshold,
                 n \in 0 .. HalfOpenSuccesses :
                [c EXCEPT !.state = s, !.failures = f, !.successes = n] \in Circuit
BY DEF Circuit

\* The fields of a circuit.
LEMMA CircuitFields ==
    ASSUME NEW c \in Circuit
    PROVE  /\ c.state \in {"Closed", "Open", "HalfOpen"}
           /\ c.failures \in 0 .. Threshold
           /\ c.age \in 0 .. Cooldown \cup {Never}
           /\ c.successes \in 0 .. HalfOpenSuccesses
BY DEF Circuit

\* One failure more, and one tick more, are in range.
LEMMA NextCounts ==
    ASSUME NEW c \in Circuit
    PROVE  /\ Upto(c.failures + 1, Threshold) \in 0 .. Threshold
           /\ c.age # Never => Upto(c.age + 1, Cooldown) \in 0 .. Cooldown
<1>1. c.failures + 1 \in Nat /\ Threshold \in Nat /\ Cooldown \in Nat
  BY CircuitFields, BreakerAssumption
<1>2. ASSUME c.age # Never PROVE c.age + 1 \in Nat
  BY <1>1, <1>2, CircuitFields
<1>3. Upto(c.failures + 1, Threshold) \in 0 .. Threshold
  BY <1>1, UptoRange
<1>4. ASSUME c.age # Never PROVE Upto(c.age + 1, Cooldown) \in 0 .. Cooldown
  BY <1>1, <1>2, <1>4, UptoRange
<1> QED BY <1>3, <1>4

\* Every manager operation returns a circuit.
LEMMA CircuitOperations ==
    ASSUME NEW c \in Circuit
    PROVE  /\ ProbeCircuit(c) \in Circuit
           /\ AfterSuccess(c) \in Circuit
           /\ AfterFailure(c) \in Circuit
           /\ Ages(c) \in Circuit
<1>1. 0 \in 0 .. Threshold /\ 0 \in 0 .. HalfOpenSuccesses /\ 0 \in 0 .. Cooldown \cup {Never}
  BY BreakerAssumption
<1>2. ProbeCircuit(c) \in Circuit
  BY <1>1, CircuitUpdates DEF ProbeCircuit
<1>3. AfterSuccess(c) \in Circuit
  <2>1. CASE c.state = "HalfOpen" /\ ~(c.successes + 1 >= HalfOpenSuccesses)
    <3>1. c.successes + 1 \in 0 .. HalfOpenSuccesses
      BY <2>1, CircuitFields, BreakerAssumption
    <3>2. [c EXCEPT !.successes = c.successes + 1] \in Circuit
      BY <3>1, CircuitUpdates
    <3> QED BY <2>1, <3>2 DEF AfterSuccess
  <2>2. CASE ~(c.state = "HalfOpen" /\ ~(c.successes + 1 >= HalfOpenSuccesses))
    BY <1>1, <2>2, CircuitUpdates, CircuitFields DEF AfterSuccess
  <2> QED BY <2>1, <2>2
<1>4. AfterFailure(c) \in Circuit
  <2> DEFINE failed == [c EXCEPT !.failures = Upto(c.failures + 1, Threshold), !.age = 0]
  <2>1. failed \in Circuit
    BY <1>1, NextCounts, CircuitUpdates
  <2>2. [failed EXCEPT !.state = "Open"] \in Circuit
        /\ [failed EXCEPT !.state = "Open", !.successes = 0] \in Circuit
    <3> HIDE DEF failed
    <3> QED BY <1>1, <2>1, CircuitUpdates
  <2> QED BY <2>1, <2>2, CircuitFields DEF AfterFailure
<1>5. Ages(c) \in Circuit
  <2>1. CASE c.age = Never
    BY <2>1, CircuitUpdates DEF Ages
  <2>2. CASE c.age # Never
    BY <2>2, NextCounts, CircuitUpdates DEF Ages
  <2> QED BY <2>1, <2>2
<1> QED BY <1>2, <1>3, <1>4, <1>5

\* Every manager operation keeps a circuit sound; record_success resets the
\* streak and record_failure lengthens it.
LEMMA OperationsKeepSound ==
    ASSUME NEW c \in Circuit, NEW f \in 0 .. Threshold, Sound(c)
    PROVE  /\ Sound(ProbeCircuit(c)) /\ Sound(AfterSuccess(c))
           /\ Sound(AfterFailure(c)) /\ Sound(Ages(c))
           /\ Exact(AfterSuccess(c), 0)
           /\ Exact(c, f) => /\ Exact(ProbeCircuit(c), f)
                            /\ Exact(AfterFailure(c), Upto(f + 1, Threshold))
                            /\ Exact(Ages(c), f)
<1> USE DEF Sound, Exact
<1>0. /\ Threshold \in Nat \ {0} /\ Cooldown \in Nat
      /\ HalfOpenSuccesses \in Nat /\ Never \notin Nat
  BY BreakerAssumption
<1>1. Sound(ProbeCircuit(c)) /\ (Exact(c, f) => Exact(ProbeCircuit(c), f))
  BY <1>0 DEF ProbeCircuit, Circuit
<1>2. Sound(AfterSuccess(c)) /\ Exact(AfterSuccess(c), 0)
  BY <1>0 DEF AfterSuccess, Circuit
<1>3. Sound(AfterFailure(c))
  <2>1. Upto(c.failures + 1, Threshold) \in 0 .. Threshold
    BY NextCounts
  <2> QED BY <1>0, <2>1 DEF AfterFailure, Circuit
<1>4. ASSUME Exact(c, f) PROVE Exact(AfterFailure(c), Upto(f + 1, Threshold))
  <2>1. c.state = "Closed" => Upto(f + 1, Threshold) = Upto(c.failures + 1, Threshold)
    BY <1>4
  <2>2. Upto(c.failures + 1, Threshold) \in 0 .. Threshold
    BY NextCounts
  <2> QED BY <1>0, <2>1, <2>2 DEF AfterFailure, Circuit
<1>5. Sound(Ages(c)) /\ (Exact(c, f) => Exact(Ages(c), f))
  <2>1. CASE c.age = Never
    BY <1>0, <2>1 DEF Ages, Circuit
  <2>2. CASE c.age # Never
    <3>1. Upto(c.age + 1, Cooldown) \in 0 .. Cooldown
      BY <2>2, NextCounts
    <3>2. Upto(c.age + 1, Cooldown) # Never
      BY <1>0, <3>1
    <3> QED BY <2>2, <3>2 DEF Ages, Circuit
  <2> QED BY <2>1, <2>2
<1> QED BY <1>1, <1>2, <1>3, <1>4, <1>5

\* What an outcome does to the history of the other generations.
LEMMA MissingParts ==
    ASSUME TypeOK, NEW m \in [Generation -> SUBSET Provider], NEW g \in Generation,
           NEW p \in Provider
    PROVE  /\ Missing(m, g, p) \in [Generation -> SUBSET Provider]
           /\ \A h \in Generation : m[h] \subseteq Missing(m, g, p)[h]
           /\ reload # << >> /\ g = live => p \in Missing(m, g, p)[live + 1]
<1>1. reload # << >> => live + 1 \in Generation
  BY BreakerAssumption DEF TypeOK, Generation
<1> QED BY <1>1 DEF Missing

\* What a snapshot knows, it still knows unless an outcome for the provider
\* was recorded in the manager it was taken of.
LEMMA SnapshotKnows ==
    ASSUME TypeOK, Soundness, live' = live, reload' = reload, NEW g \in Generation,
           g <= live, NEW p \in Provider, NEW f,
           streak' = [streak EXCEPT ![g][p] = f],
           missed' = Missing(missed, g, p) \/ missed' = Missing([missed EXCEPT ![g] = @ \ {p}], g, p)
    PROVE  reload' # << >> =>
             \A o \in Provider :
                /\ reload'[1][o].state = "Closed" => reload'[1][o].failures < Threshold
                /\ o \notin missed'[live'] \cup missed'[live' + 1] =>
                      Exact(reload'[1][o], streak'[live'][o])
<1> SUFFICES ASSUME reload # << >>, NEW o \in Provider,
                    o \notin missed'[live] \cup missed'[live + 1]
             PROVE  Exact(reload[1][o], streak'[live][o])
  BY DEF Soundness
<1>1. /\ live \in Generation /\ live + 1 \in Generation /\ live # live + 1 /\ g # live + 1
      /\ live \in Nat
  BY BreakerAssumption DEF TypeOK, Generation
<1>2. missed \in [Generation -> SUBSET Provider]
      /\ [missed EXCEPT ![g] = @ \ {p}] \in [Generation -> SUBSET Provider]
  BY DEF TypeOK
<1>3. CASE g = live /\ o = p
  BY <1>1, <1>2, <1>3, MissingParts
<1>4. CASE ~(g = live /\ o = p)
  <2>1. streak'[live][o] = streak[live][o]
    BY <1>1, <1>4 DEF TypeOK
  <2>2. o \notin missed[live] \cup missed[live + 1]
    <3>1. CASE missed' = Missing(missed, g, p)
      BY <1>1, <1>2, <3>1, MissingParts
    <3>2. CASE missed' = Missing([missed EXCEPT ![g] = @ \ {p}], g, p)
      <4>1. o \notin [missed EXCEPT ![g] = @ \ {p}][live] \cup [missed EXCEPT ![g] = @ \ {p}][live + 1]
        BY <1>1, <1>2, <3>2, MissingParts
      <4>2. [missed EXCEPT ![g] = @ \ {p}][live] = IF g = live THEN missed[live] \ {p} ELSE missed[live]
        BY <1>1, <1>2
      <4>3. [missed EXCEPT ![g] = @ \ {p}][live + 1]
              = IF g = live + 1 THEN missed[live + 1] \ {p} ELSE missed[live + 1]
        BY <1>1, <1>2
      <4>4. g # live + 1
        BY <1>1
      <4> QED BY <1>4, <4>1, <4>2, <4>3, <4>4
    <3> QED BY <3>1, <3>2
  <2> QED BY <2>1, <2>2 DEF Soundness
<1> QED BY <1>3, <1>4

\* A circuit is open after an operation only if it was before, unless the
\* operation is record_failure; and one let through is open no more.
LEMMA OpensOnlyOnFailure ==
    ASSUME NEW c \in Circuit
    PROVE  /\ ProbeCircuit(c).state = "Open" => c.state = "Open"
           /\ AfterSuccess(c).state = "Open" => c.state = "Open"
           /\ Ages(c).state = c.state
           /\ Allowed(c) /\ (c.state = "Open" => c.age # Never)
                => ProbeCircuit(c).state # "Open"
BY BreakerAssumption DEF ProbeCircuit, AfterSuccess, Ages, Allowed, CooledDown, Circuit

\* What a request becomes in a step.
LEMMA ActivityUpdates ==
    ASSUME NEW a \in Activity
    PROVE  /\ [a EXCEPT !.pc = "sent", !.stale = FALSE] \in Activity
           /\ [a EXCEPT !.stale = TRUE] \in Activity
           /\ \A n \in 1 .. Len(Order) + 1 :
                /\ [a EXCEPT !.next = n] \in Activity
                /\ [a EXCEPT !.pc = "pick", !.next = n] \in Activity
           /\ \A g \in Generation : [a EXCEPT !.pc = "pick", !.gen = g] \in Activity
BY DEF Activity

\* The fields of a request.
LEMMA ActivityFields ==
    ASSUME NEW a \in Activity
    PROVE  /\ a.pc \in {"idle", "pick", "sent"}
           /\ a.gen \in Generation
           /\ a.next \in 1 .. Len(Order) + 1
           /\ a.stale \in BOOLEAN
BY DEF Activity

\* A request that is over is an activity of generation 0.
LEMMA IdleActivity == Idle \in Activity /\ Idle.pc = "idle" /\ Idle.gen = 0
<1>1. Len(Order) \in Nat /\ MaxReloads \in Nat
  BY BreakerAssumption
<1> QED BY <1>1 DEF Idle, Activity, Generation

-----------------------------------------------------------------------------
(* Every step preserves the invariant.                                     *)

\* The initial state satisfies the invariant.
LEMMA InitialInv == Init => BreakerInv
<1> SUFFICES ASSUME Init PROVE BreakerInv
  OBVIOUS
<1>0. MaxReloads \in Nat /\ Threshold \in Nat \ {0} /\ 0 \in Generation /\ 0 \in 0 .. Threshold
  BY BreakerAssumption DEF Generation
<1>1. NewCircuit \in Circuit
  BY BreakerAssumption DEF NewCircuit, Circuit
<1>2. cb \in [Generation -> [Provider -> Circuit]]
  BY <1>1 DEF Init, NewManager
<1>3. req \in [Request -> Activity]
  BY IdleActivity DEF Init
<1>4. streak \in [Generation -> [Provider -> 0 .. Threshold]]
  BY <1>0 DEF Init
<1>5. TypeOK
  <2>1. missed \in [Generation -> SUBSET Provider]
    BY DEF Init
  <2> QED BY <1>0, <1>2, <1>3, <1>4, <2>1 DEF TypeOK, Init
<1>6. Soundness
  BY <1>0 DEF Init, Soundness, Sound, Exact, NewManager, NewCircuit
<1>7. Placement /\ OpenAdmitsNone
  BY IdleActivity DEF Init, Placement, OpenAdmitsNone, Sent
<1> QED BY <1>5, <1>6, <1>7 DEF BreakerInv

\* A step in which one request moves to where it is not sent, and nothing
\* else changes.
LEMMA UnsentKeepsInv ==
    ASSUME BreakerInv, NEW r \in Request, NEW a \in Activity, a.pc # "sent", a.gen <= live,
           req' = [req EXCEPT ![r] = a], UNCHANGED <<cb, live, reload, healthy, history>>
    PROVE  BreakerInv'
<1>1. TypeOK'
  BY DEF BreakerInv, TypeOK, history
<1>2. Soundness'
  BY DEF BreakerInv, Soundness, history
<1>3. \A q \in Request : req'[q] = IF q = r THEN a ELSE req[q]
  BY DEF BreakerInv, TypeOK
<1>4. Placement'
  BY <1>3 DEF BreakerInv, Placement
<1>5. OpenAdmitsNone'
  BY <1>3 DEF BreakerInv, OpenAdmitsNone, Sent
<1> QED BY <1>1, <1>2, <1>4, <1>5 DEF BreakerInv

\* Every step of a request preserves the invariant.
LEMMA RequestKeepsInv ==
    ASSUME BreakerInv, NEW r \in Request, RequestStep(r)
    PROVE  BreakerInv'
<1> USE DEF BreakerInv
<1> DEFINE g == req[r].gen
           p == Order[req[r].next]
<1>0. /\ Order \in Seq(Provider) /\ Len(Order) \in Nat
      /\ \A i \in 1 .. Len(Order) : Order[i] \in Provider
      /\ live \in Nat /\ live \in Generation /\ Threshold \in Nat
  BY BreakerAssumption DEF TypeOK, Generation
<1>1. /\ req[r] \in Activity /\ g \in Generation /\ g <= live
      /\ req[r].next \in 1 .. Len(Order) + 1
      /\ req[r].pc = "sent" => req[r].next \in 1 .. Len(Order)
  BY <1>0, ActivityFields DEF TypeOK, Placement
<1>2. CASE Begin(r)
  <2> DEFINE a == [Idle EXCEPT !.pc = "pick", !.gen = live]
  <2>1. a \in Activity
    BY <1>0, IdleActivity, ActivityUpdates
  <2>2. a.pc = "pick" /\ a.gen = live
    BY DEF Idle
  <2>3. req' = [req EXCEPT ![r] = a] /\ UNCHANGED <<cb, live, reload, healthy, history>>
    BY <1>2 DEF Begin
  <2>4. a.pc # "sent" /\ a.gen <= live
    BY <2>2, <1>0
  <2> HIDE DEF a
  <2> QED BY <2>1, <2>3, <2>4, UnsentKeepsInv
<1>3. CASE TryNext(r) /\ req[r].next > Len(Order)
  <2>1. req' = [req EXCEPT ![r] = Idle] /\ UNCHANGED <<cb, live, reload, healthy, history>>
    BY <1>3 DEF TryNext
  <2>2. Idle.pc # "sent" /\ Idle.gen <= live
    BY <1>0, IdleActivity
  <2> QED BY <2>1, <2>2, IdleActivity, UnsentKeepsInv
<1>4. CASE TryNext(r) /\ ~(req[r].next > Len(Order))
  <2>1. p \in Provider /\ cb[g][p] \in Circuit /\ req[r].next \in 1 .. Len(Order)
    <3>1. req[r].next \in 1 .. Len(Order)
      BY <1>0, <1>1, <1>4
    <3> QED BY <1>0, <1>1, <3>1 DEF TypeOK
  <2>2. cb' = [cb EXCEPT ![g][p] = ProbeCircuit(cb[g][p])]
        /\ UNCHANGED <<live, reload, healthy, streak, missed>>
    BY <1>4 DEF TryNext, history
  <2> DEFINE a == IF Allowed(cb[g][p])
                  THEN [req[r] EXCEPT !.pc = "sent", !.stale = FALSE]
                  ELSE [req[r] EXCEPT !.next = req[r].next + 1]
  <2>3. req' = [req EXCEPT ![r] = a]
    BY <1>4 DEF TryNext, TypeOK
  <2>4. ProbeCircuit(cb[g][p]) \in Circuit
    BY <2>1, CircuitOperations
  <2>5. TypeOK'
    <3>1. cb' \in [Generation -> [Provider -> Circuit]]
      BY <1>1, <2>1, <2>2, <2>4 DEF TypeOK
    <3>2. a \in Activity
      <4>1. req[r].next + 1 \in 1 .. Len(Order) + 1
        BY <1>0, <2>1
      <4> QED BY <1>1, <4>1, ActivityUpdates
    <3>3. req' \in [Request -> Activity]
      <4> HIDE DEF a
      <4> QED BY <2>3, <3>2 DEF TypeOK
    <3> QED BY <3>1, <3>3, <2>2 DEF TypeOK
  <2>6. Soundness'
    <3>1. streak[g][p] \in 0 .. Threshold
      BY <1>1, <2>1 DEF TypeOK
    <3>2. /\ Sound(ProbeCircuit(cb[g][p]))
          /\ p \notin missed[g] => Exact(ProbeCircuit(cb[g][p]), streak[g][p])
      BY <1>1, <2>1, <3>1, OperationsKeepSound DEF Soundness
    <3>3. \A h \in Generation, o \in Provider :
            cb'[h][o] = IF h = g /\ o = p THEN ProbeCircuit(cb[g][p]) ELSE cb[h][o]
      BY <1>1, <2>1, <2>2 DEF TypeOK
    <3> HIDE DEF g, p
    <3> QED BY <2>2, <3>2, <3>3 DEF Soundness
  <2>7. Placement'
    <3>1. a.gen = g /\ (a.pc = "sent" => a.next <= Len(Order))
      BY <1>0, <1>1, <2>1, <1>4 DEF Activity, TryNext
    <3> HIDE DEF a
    <3> QED BY <1>1, <2>2, <2>3, <3>1 DEF TypeOK, Placement
  <2>8. OpenAdmitsNone'
    <3> SUFFICES ASSUME NEW q \in Request, NEW h \in Generation, NEW o \in Provider,
                        Sent(q, h, o)', cb'[h][o].state = "Open"
                 PROVE  req'[q].stale
      BY DEF OpenAdmitsNone
    <3>1. cb[h][o].state = "Open" /\ cb[h][o] \in Circuit
      BY <1>1, <2>1, <2>2, OpensOnlyOnFailure DEF TypeOK
    <3>2. CASE q # r
      BY <2>3, <3>1, <3>2 DEF OpenAdmitsNone, Sent, TypeOK
    <3>3. CASE q = r
      <4>1. Allowed(cb[g][p]) /\ h = g /\ o = p
        BY <2>3, <3>3, <1>4 DEF Sent, TypeOK, Activity, TryNext
      <4>2. cb[g][p].age # Never
        BY <3>1, <4>1, <1>1, <2>1 DEF Soundness, Sound
      <4>3. ProbeCircuit(cb[g][p]).state # "Open"
        BY <2>1, <4>1, <4>2, OpensOnlyOnFailure
      <4> QED BY <4>3, <4>1, <2>2, <1>1, <2>1 DEF TypeOK
    <3> QED BY <3>2, <3>3
  <2> QED BY <2>5, <2>6, <2>7, <2>8
<1>5. CASE Succeed(r)
  <2>1. p \in Provider /\ cb[g][p] \in Circuit /\ streak[g][p] \in 0 .. Threshold
    BY <1>0, <1>1, <1>5 DEF Succeed, TypeOK
  <2>2. /\ cb' = [cb EXCEPT ![g][p] = AfterSuccess(cb[g][p])]
        /\ streak' = [streak EXCEPT ![g][p] = 0]
        /\ missed' = Missing([missed EXCEPT ![g] = @ \ {p}], g, p)
        /\ req' = [req EXCEPT ![r] = Idle]
        /\ UNCHANGED <<live, reload, healthy>>
    BY <1>5 DEF Succeed
  <2>3. Idle \in Activity
    BY IdleActivity
  <2>4. TypeOK'
    <3>1. cb' \in [Generation -> [Provider -> Circuit]]
      BY <1>1, <2>1, <2>2, CircuitOperations DEF TypeOK
    <3>2. streak' \in [Generation -> [Provider -> 0 .. Threshold]]
      <4>1. 0 \in 0 .. Threshold
        BY <1>0
      <4> QED BY <4>1, <1>1, <2>1, <2>2 DEF TypeOK
    <3>3. missed' \in [Generation -> SUBSET Provider]
      <4>1. [missed EXCEPT ![g] = @ \ {p}] \in [Generation -> SUBSET Provider]
        BY DEF TypeOK
      <4> QED BY <1>1, <2>1, <2>2, <4>1, MissingParts
    <3> QED BY <3>1, <3>2, <3>3, <2>2, <2>3 DEF TypeOK
  <2>5. Soundness'
    <3>1. Sound(AfterSuccess(cb[g][p])) /\ Exact(AfterSuccess(cb[g][p]), 0)
      BY <1>1, <2>1, OperationsKeepSound DEF Soundness
    <3>2. \A h \in Generation, o \in Provider :
            /\ cb'[h][o] = IF h = g /\ o = p THEN AfterSuccess(cb[g][p]) ELSE cb[h][o]
            /\ streak'[h][o] = IF h = g /\ o = p THEN 0 ELSE streak[h][o]
      BY <1>1, <2>1, <2>2 DEF TypeOK
    <3>3. \A h \in Generation, o \in Provider :
            ~(h = g /\ o = p) /\ o \notin missed'[h] => o \notin missed[h]
      <4>1. [missed EXCEPT ![g] = @ \ {p}] \in [Generation -> SUBSET Provider]
        BY DEF TypeOK
      <4>2. \A h \in Generation : [missed EXCEPT ![g] = @ \ {p}][h] \subseteq missed'[h]
        BY <1>1, <2>1, <2>2, <4>1, MissingParts
      <4>3. \A h \in Generation :
              [missed EXCEPT ![g] = @ \ {p}][h] = IF h = g THEN missed[h] \ {p} ELSE missed[h]
        BY DEF TypeOK
      <4> QED BY <4>2, <4>3
    <3>4. \A h \in Generation, o \in Provider :
            /\ Sound(cb'[h][o])
            /\ o \notin missed'[h] => Exact(cb'[h][o], streak'[h][o])
      <4> HIDE DEF g, p
      <4> QED BY <3>1, <3>2, <3>3 DEF Soundness
    <3> QED BY <1>1, <2>1, <2>2, <3>4, SnapshotKnows DEF Soundness
  <2>6. Placement'
    BY <2>2 DEF TypeOK, Placement, Idle, Generation
  <2>7. OpenAdmitsNone'
    <3> SUFFICES ASSUME NEW q \in Request, NEW h \in Generation, NEW o \in Provider,
                        Sent(q, h, o)', cb'[h][o].state = "Open"
                 PROVE  req'[q].stale
      BY DEF OpenAdmitsNone
    <3>1. cb[h][o].state = "Open"
      BY <1>1, <2>1, <2>2, OpensOnlyOnFailure DEF TypeOK
    <3>2. q # r /\ req'[q] = req[q]
      BY <2>2 DEF Sent, TypeOK, Idle
    <3> QED BY <3>1, <3>2 DEF OpenAdmitsNone, Sent
  <2> QED BY <2>4, <2>5, <2>6, <2>7
<1>6. CASE Fail(r)
  <2>1. p \in Provider /\ cb[g][p] \in Circuit /\ streak[g][p] \in 0 .. Threshold
        /\ req[r].next \in 1 .. Len(Order)
    BY <1>0, <1>1, <1>6 DEF Fail, TypeOK
  <2>2. /\ cb' = [cb EXCEPT ![g][p] = AfterFailure(cb[g][p])]
        /\ streak' = [streak EXCEPT ![g][p] = Upto(streak[g][p] + 1, Threshold)]
        /\ missed' = Missing(missed, g, p)
        /\ UNCHANGED <<live, reload, healthy>>
    BY <1>6 DEF Fail
  <2>3. req' = [q \in Request |->
                  IF q = r
                  THEN [req[r] EXCEPT !.pc = "pick", !.next = @ + 1]
                  ELSE IF /\ Sent(q, g, p)
                          /\ cb[g][p].state # "Open"
                          /\ cb'[g][p].state = "Open"
                       THEN [req[q] EXCEPT !.stale = TRUE]
                       ELSE req[q]]
    BY <1>6 DEF Fail
  <2>4. TypeOK'
    <3>1. cb' \in [Generation -> [Provider -> Circuit]]
      BY <1>1, <2>1, <2>2, CircuitOperations DEF TypeOK
    <3>2. Upto(streak[g][p] + 1, Threshold) \in 0 .. Threshold
      <4>1. streak[g][p] + 1 \in Nat
        BY <2>1
      <4> QED BY <1>0, <4>1, UptoRange
    <3>3. streak' \in [Generation -> [Provider -> 0 .. Threshold]]
      BY <1>1, <2>1, <2>2, <3>2 DEF TypeOK
    <3>4. \A q \in Request : req'[q] \in Activity
      <4>1. req[r].next + 1 \in 1 .. Len(Order) + 1
        BY <1>0, <2>1
      <4> QED BY <4>1, <2>3, ActivityUpdates DEF TypeOK
    <3>5. missed' \in [Generation -> SUBSET Provider]
      BY <1>1, <2>1, <2>2, MissingParts DEF TypeOK
    <3> QED BY <3>1, <3>3, <3>4, <3>5, <2>2, <2>3 DEF TypeOK
  <2>5. Soundness'
    <3>1. /\ Sound(AfterFailure(cb[g][p]))
          /\ p \notin missed[g] => Exact(AfterFailure(cb[g][p]), Upto(streak[g][p] + 1, Threshold))
      BY <1>1, <2>1, OperationsKeepSound DEF Soundness
    <3>2. \A h \in Generation, o \in Provider :
            /\ cb'[h][o] = IF h = g /\ o = p THEN AfterFailure(cb[g][p]) ELSE cb[h][o]
            /\ streak'[h][o] = IF h = g /\ o = p THEN Upto(streak[g][p] + 1, Threshold)
                               ELSE streak[h][o]
      BY <1>1, <2>1, <2>2 DEF TypeOK
    <3>3. \A h \in Generation, o \in Provider : o \notin missed'[h] => o \notin missed[h]
      BY <1>1, <2>1, <2>2, MissingParts DEF TypeOK
    <3>4. \A h \in Generation, o \in Provider :
            /\ Sound(cb'[h][o])
            /\ o \notin missed'[h] => Exact(cb'[h][o], streak'[h][o])
      <4> HIDE DEF g, p
      <4> QED BY <3>1, <3>2, <3>3 DEF Soundness
    <3> QED BY <1>1, <2>1, <2>2, <3>4, SnapshotKnows DEF Soundness
  <2>6. Placement'
    <3> SUFFICES ASSUME NEW q \in Request
                 PROVE  /\ req'[q].gen <= live
                        /\ req'[q].pc = "sent" => req'[q].next <= Len(Order)
      BY <2>2 DEF Placement
    <3>1. /\ req[q] \in Activity /\ req[q].gen <= live
          /\ req[q].pc = "sent" => req[q].next <= Len(Order)
      BY DEF TypeOK, Placement
    <3>2. CASE q = r
      BY ONLY <2>3, <3>1, <3>2 DEF Activity
    <3>3. CASE q # r
      <4>1. req'[q] = req[q] \/ req'[q] = [req[q] EXCEPT !.stale = TRUE]
        BY ONLY <2>3, <3>3
      <4> QED BY ONLY <3>1, <4>1 DEF Activity
    <3> QED BY <3>2, <3>3
  <2>7. OpenAdmitsNone'
    <3> SUFFICES ASSUME NEW q \in Request, NEW h \in Generation, NEW o \in Provider,
                        Sent(q, h, o)', cb'[h][o].state = "Open"
                 PROVE  req'[q].stale
      BY DEF OpenAdmitsNone
    <3>0. req[q] \in Activity
      BY DEF TypeOK
    <3>1. q # r
      <4>1. ASSUME q = r PROVE req'[q].pc = "pick"
        BY ONLY <2>3, <3>0, <4>1, r \in Request DEF Activity
      <4>2. req'[q].pc = "sent"
        BY DEF Sent
      <4> QED BY <4>1, <4>2
    <3>2. Sent(q, h, o)
      <4>1. req'[q] = req[q] \/ req'[q] = [req[q] EXCEPT !.stale = TRUE]
        BY ONLY <2>3, <3>1, q \in Request
      <4>2. req'[q].pc = "sent" /\ req'[q].gen = h /\ Order[req'[q].next] = o
        BY DEF Sent
      <4> QED BY ONLY <3>0, <4>1, <4>2 DEF Sent, Activity
    <3>3. CASE cb[h][o].state = "Open"
      <4>1. req[q].stale /\ req[q] \in Activity
        BY <3>2, <3>3 DEF OpenAdmitsNone, TypeOK
      <4> QED BY <4>1, <2>3, <3>1 DEF Activity
    <3>4. CASE cb[h][o].state # "Open"
      <4>1. h = g /\ o = p
        BY <3>4, <2>1, <2>2, <1>1 DEF TypeOK
      <4>2. req'[q] = [req[q] EXCEPT !.stale = TRUE]
        BY <4>1, <2>3, <3>1, <3>2, <3>4
      <4> QED BY <4>2 DEF TypeOK, Activity
    <3> QED BY <3>3, <3>4
  <2> QED BY <2>4, <2>5, <2>6, <2>7
<1>7. CASE NoOutcome(r)
  <2> DEFINE a == [req[r] EXCEPT !.pc = "pick", !.next = req[r].next + 1]
  <2>1. UNCHANGED <<cb, live, reload, healthy, history>> /\ req[r].next + 1 \in 1 .. Len(Order) + 1
    BY <1>0, <1>1, <1>7 DEF NoOutcome
  <2>2. CASE req' = [req EXCEPT ![r] = a]
    <3>1. a \in Activity /\ a.pc # "sent" /\ a.gen <= live
      BY <1>1, <2>1, ActivityUpdates, ActivityFields DEF Activity
    <3> HIDE DEF a
    <3> QED BY <2>1, <2>2, <3>1, UnsentKeepsInv
  <2>3. CASE req' = [req EXCEPT ![r] = Idle]
    <3>1. Idle.pc # "sent" /\ Idle.gen <= live
      BY <1>0, IdleActivity
    <3> QED BY <2>1, <2>3, <3>1, IdleActivity, UnsentKeepsInv
  <2> QED BY <1>7, <2>2, <2>3 DEF NoOutcome, TypeOK
<1> QED BY <1>2, <1>3, <1>4, <1>5, <1>6, <1>7 DEF RequestStep

\* What a snapshot, and a manager restored from one, hold.
LEMMA SnapshotRestore ==
    ASSUME NEW m \in [Provider -> Circuit]
    PROVE  /\ Snapshot(m) \in [Provider -> Circuit]
           /\ Restore(m) \in [Provider -> Circuit]
           /\ \A o \in Provider :
                /\ Snapshot(m)[o].state = m[o].state
                /\ Snapshot(m)[o].failures = m[o].failures
                /\ Restore(m)[o].state = m[o].state
                /\ Restore(m)[o].failures = m[o].failures
                /\ Restore(m)[o].state = "Open" => Restore(m)[o].age # Never
<1>1. 0 \in 0 .. Cooldown \cup {Never} /\ 0 # Never
  BY BreakerAssumption
<1>2. \A o \in Provider : [m[o] EXCEPT !.age = Never] \in Circuit
                          /\ [m[o] EXCEPT !.age = 0] \in Circuit
  BY <1>1, CircuitUpdates
<1>3. /\ Snapshot(m) \in [Provider -> Circuit]
      /\ Restore(m) \in [Provider -> Circuit]
  BY <1>2 DEF Snapshot, Restore
<1>4. ASSUME NEW o \in Provider
      PROVE  /\ Snapshot(m)[o].state = m[o].state
             /\ Snapshot(m)[o].failures = m[o].failures
             /\ Restore(m)[o].state = m[o].state
             /\ Restore(m)[o].failures = m[o].failures
             /\ Restore(m)[o].state = "Open" => Restore(m)[o].age # Never
  <2>1. /\ Snapshot(m)[o] = [m[o] EXCEPT !.age = Never]
        /\ Restore(m)[o] = IF m[o].state = "Open" THEN [m[o] EXCEPT !.age = 0] ELSE m[o]
    BY DEF Snapshot, Restore
  <2> QED BY <1>1, <2>1 DEF Circuit
<1> QED BY <1>3, <1>4

\* The two steps of a reload preserve the invariant.
LEMMA ReloadKeepsInv ==
    ASSUME BreakerInv, ReloadSnapshot \/ ReloadPublish
    PROVE  BreakerInv'
<1> USE DEF BreakerInv
<1>0. MaxReloads \in Nat /\ Threshold \in Nat /\ live \in Generation /\ live \in Nat
  BY BreakerAssumption DEF TypeOK, Generation
<1>1. CASE ReloadSnapshot
  <2>1. cb[live] \in [Provider -> Circuit]
    BY <1>0 DEF TypeOK
  <2>2. reload' = <<Snapshot(cb[live])>> /\ live < MaxReloads
        /\ UNCHANGED <<cb, live, req, healthy, streak, missed>>
    BY <1>1 DEF ReloadSnapshot, history
  <2>3. reload'[1] = Snapshot(cb[live])
    BY <2>2
  <2>4. Snapshot(cb[live]) \in [Provider -> Circuit]
    BY <2>1, SnapshotRestore
  <2>5. TypeOK'
    BY <2>2, <2>3, <2>4 DEF TypeOK
  <2>6. Soundness'
    <3>1. ASSUME NEW o \in Provider, Snapshot(cb[live])[o].state = "Closed"
          PROVE  /\ Snapshot(cb[live])[o].failures < Threshold
                 /\ o \notin missed[live] => Snapshot(cb[live])[o].failures = streak[live][o]
      BY <1>0, <2>1, <3>1, SnapshotRestore DEF Soundness, Sound, Exact
    <3> QED BY <2>2, <2>3, <3>1 DEF Soundness, Exact
  <2>7. Placement' /\ OpenAdmitsNone'
    BY <2>2 DEF Placement, OpenAdmitsNone, Sent
  <2> QED BY <2>5, <2>6, <2>7
<1>2. CASE ReloadPublish
  <2> DEFINE m == reload[1]
  <2>1. m \in [Provider -> Circuit] /\ live < MaxReloads /\ live + 1 \in Generation
    BY <1>0, <1>2 DEF ReloadPublish, TypeOK, Generation
  <2>2. /\ cb' = [cb EXCEPT ![live + 1] = Restore(m)]
        /\ streak' = [streak EXCEPT ![live + 1] = streak[live]]
        /\ missed' = [missed EXCEPT ![live + 1] = @ \cup missed[live]]
        /\ live' = live + 1
        /\ reload' = << >>
        /\ UNCHANGED <<req, healthy>>
    BY <1>2 DEF ReloadPublish
  <2>3. /\ streak[live] \in [Provider -> 0 .. Threshold]
        /\ missed[live + 1] \cup missed[live] \in SUBSET Provider
    BY <1>0, <2>1 DEF TypeOK
  <2>4. TypeOK'
    <3>1. cb' \in [Generation -> [Provider -> Circuit]]
      BY <2>1, <2>2, SnapshotRestore DEF TypeOK
    <3>2. streak' \in [Generation -> [Provider -> 0 .. Threshold]]
      BY <2>2, <2>3 DEF TypeOK
    <3>3. missed' \in [Generation -> SUBSET Provider]
      BY <2>2, <2>3 DEF TypeOK
    <3> QED BY <2>1, <2>2, <3>1, <3>2, <3>3 DEF TypeOK
  <2>5. Soundness'
    <3>1. ASSUME NEW o \in Provider
          PROVE  /\ Sound(Restore(m)[o])
                 /\ o \notin missed[live] \cup missed[live + 1] => Exact(Restore(m)[o], streak[live][o])
      BY <1>2, <2>1, SnapshotRestore DEF Sound, Exact, Soundness, ReloadPublish
    <3>2. ASSUME NEW h \in Generation, NEW o \in Provider
          PROVE  /\ Sound(cb'[h][o])
                 /\ o \notin missed'[h] => Exact(cb'[h][o], streak'[h][o])
      <4>1. CASE h = live + 1
        <5>1. /\ cb'[h][o] = Restore(m)[o] /\ streak'[h][o] = streak[live][o]
              /\ missed'[h] = missed[live + 1] \cup missed[live]
          BY <2>1, <2>2, <4>1 DEF TypeOK
        <5> QED BY <3>1, <5>1
      <4>2. CASE h # live + 1
        <5>1. cb'[h] = cb[h] /\ streak'[h] = streak[h] /\ missed'[h] = missed[h]
          BY <2>2, <4>2 DEF TypeOK
        <5> QED BY <5>1 DEF Soundness
      <4> QED BY <4>1, <4>2
    <3> QED BY <2>2, <3>2 DEF Soundness
  <2>6. Placement'
    <3>1. \A q \in Request : req[q].gen \in Nat
      BY <1>0, ActivityFields DEF TypeOK, Generation
    <3> QED BY <1>0, <2>2, <3>1 DEF Placement
  <2>7. OpenAdmitsNone'
    <3>1. \A q \in Request : req[q].gen \in Nat /\ req[q].gen # live + 1
      BY <1>0, ActivityFields DEF TypeOK, Generation, Placement
    <3> QED BY <1>0, <2>1, <2>2, <3>1 DEF OpenAdmitsNone, Sent, TypeOK
  <2> QED BY <2>4, <2>5, <2>6, <2>7
<1> QED BY <1>1, <1>2

\* Time, recovery and stuttering preserve the invariant.
LEMMA EnvironmentKeepsInv ==
    ASSUME BreakerInv, Tick \/ Recover \/ UNCHANGED vars
    PROVE  BreakerInv'
<1> USE DEF BreakerInv
<1>1. CASE Tick
  <2>1. /\ cb' = [h \in Generation |-> [o \in Provider |-> Ages(cb[h][o])]]
        /\ UNCHANGED <<live, reload, req, healthy, streak, missed>>
    BY <1>1 DEF Tick, history
  <2>2. \A h \in Generation, o \in Provider : cb[h][o] \in Circuit /\ streak[h][o] \in 0 .. Threshold
    BY DEF TypeOK
  <2>3. TypeOK'
    BY <2>1, <2>2, CircuitOperations DEF TypeOK
  <2>4. Soundness'
    <3>1. \A h \in Generation, o \in Provider :
            /\ Sound(Ages(cb[h][o]))
            /\ o \notin missed[h] => Exact(Ages(cb[h][o]), streak[h][o])
      BY <2>2, OperationsKeepSound DEF Soundness
    <3> QED BY <2>1, <3>1 DEF Soundness
  <2>5. \A h \in Generation, o \in Provider : cb'[h][o].state = cb[h][o].state
    BY <2>1, <2>2, OpensOnlyOnFailure
  <2>6. Placement' /\ OpenAdmitsNone'
    BY <2>1, <2>5 DEF Placement, OpenAdmitsNone, Sent
  <2> QED BY <2>3, <2>4, <2>6
<1>2. CASE Recover
  BY <1>2 DEF Recover, history, TypeOK, Soundness, Placement, OpenAdmitsNone, Sent
<1>3. CASE UNCHANGED vars
  BY <1>3 DEF vars, TypeOK, Soundness, Placement, OpenAdmitsNone, Sent
<1> QED BY <1>1, <1>2, <1>3

\* The invariant is inductive.
LEMMA NextKeepsInv == BreakerInv /\ [Next]_vars => BreakerInv'
BY RequestKeepsInv, ReloadKeepsInv, EnvironmentKeepsInv DEF Next

-----------------------------------------------------------------------------
(* The theorems.                                                           *)

\* The invariant holds in every behaviour.
THEOREM BreakerInvariant == Spec => []BreakerInv
BY InitialInv, NextKeepsInv, PTL DEF Spec

\* The variables keep their types: no counter or generation leaves its range.
THEOREM BreakerTypeCorrect == Spec => []TypeOK
<1>1. BreakerInv => TypeOK
  BY DEF BreakerInv
<1> QED BY <1>1, BreakerInvariant, PTL

\* While is_allowed says a circuit is open, every request under way to its
\* provider was sent before it opened.
THEOREM OpenShutsOut == Spec => []OpenAdmitsNone
<1>1. BreakerInv => OpenAdmitsNone
  BY DEF BreakerInv
<1> QED BY <1>1, BreakerInvariant, PTL

\* A closed circuit is below the threshold, and its consecutive_failures is the
\* number of failures since the last success, those a replaced manager counted
\* included, unless the reload that replaced it missed an outcome.
THEOREM ClosedIsExact == Spec => []ClosedCountsStreak
<1>1. BreakerInv => ClosedCountsStreak
  BY DEF BreakerInv, Soundness, Sound, Exact, ClosedCountsStreak
<1> QED BY <1>1, BreakerInvariant, PTL

\* The "shouldn't happen" branch of is_allowed, an open circuit without a
\* failure time, is never taken.
THEOREM OpenIsTimed == Spec => []OpenHasFailureTime
<1>1. BreakerInv => OpenHasFailureTime
  BY DEF BreakerInv, Soundness, Sound, OpenHasFailureTime
<1> QED BY <1>1, BreakerInvariant, PTL
==============================================================================
