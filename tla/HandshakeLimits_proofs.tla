------------------------ MODULE HandshakeLimits_proofs ------------------------
(***************************************************************************)
(* Proofs about AdmissionControl and HandshakeLimits, for any finite set   *)
(* of callers, any keys, limits and bounds.                                *)
(*                                                                         *)
(* The controller: CountersExact is inductive with the shape of the state. *)
(* PermitsWithinLimits is not: a permit is preceded by a place in the      *)
(* region, so the invariant bounds everyone the region has let pass.       *)
(*                                                                         *)
(* The handshake implements the controller, so that what is proved of the  *)
(* controller holds here as well.  That no window accepts more than its    *)
(* limit is not inductive: a late caller must not find an older window     *)
(* again, so the invariant says that no window after the current one has   *)
(* accepted anybody and that the current one has accepted no more than it  *)
(* has counted.  Tenants are the exception: each of their windows that is  *)
(* put back is charged with one more filling.                              *)
(***************************************************************************)
EXTENDS HandshakeLimits, FiniteSetTheorems, TLAPS

Location == {"idle", "drop family"} \cup InRegion

\* The callers of key k whose place is in S.
At(p, KeyOf, k, S) == {r \in Request : KeyOf[r] = k /\ p[r] \in S}

\* Those the region has let pass and not yet seen leave.
Passed == {"enter family", "leave family", "held"}

Shape ==
    /\ region \in [Region -> Int]
    /\ family \in [Family -> Int]
    /\ pc \in [Request -> Location]

\* The limits hold for those the region has let pass and for the permits.
Admitted ==
    /\ \A k \in Region : Cardinality(At(pc, RegionOf, k, Passed)) <= MaxRegion
    /\ \A k \in Family : Cardinality(At(pc, FamilyOf, k, {"held"})) <= MaxFamily

AdmissionInv == Shape /\ CountersExact /\ Admitted

\* Nobody but r moves, and by how much that changes the number in S.
OnlyMoves(r) == \A q \in Request : q # r => pc'[q] = pc[q]
Change(r, S) ==
    IF pc'[r] \in S THEN IF pc[r] \in S THEN 0 ELSE 1
    ELSE IF pc[r] \in S THEN -1 ELSE 0

-----------------------------------------------------------------------------

\* The callers at a place are finitely many, and fewer at fewer places.
LEMMA AtFinite ==
    ASSUME NEW p, NEW KeyOf, NEW k, NEW S, NEW T, S \subseteq T
    PROVE  /\ IsFiniteSet(At(p, KeyOf, k, T))
           /\ Cardinality(At(p, KeyOf, k, S)) \in Nat
           /\ Cardinality(At(p, KeyOf, k, T)) \in Nat
           /\ Cardinality(At(p, KeyOf, k, S)) <= Cardinality(At(p, KeyOf, k, T))
           /\ Cardinality(At(p, KeyOf, k, T)) <= Cardinality(Request)
<1>1. IsFiniteSet(Request)
  BY AdmissionAssumption
<1>2. At(p, KeyOf, k, T) \in SUBSET Request /\ At(p, KeyOf, k, S) \in SUBSET At(p, KeyOf, k, T)
  BY DEF At
<1>3. IsFiniteSet(At(p, KeyOf, k, T)) /\ IsFiniteSet(At(p, KeyOf, k, S))
  BY <1>1, <1>2, FS_Subset
<1> QED BY <1>1, <1>2, <1>3, FS_Subset, FS_CardinalityType

\* How the number of callers in S changes when one of them moves.
LEMMA AtMove ==
    ASSUME NEW r \in Request, OnlyMoves(r), NEW KeyOf, NEW k, NEW S
    PROVE  Cardinality(At(pc', KeyOf, k, S)) =
             Cardinality(At(pc, KeyOf, k, S)) + (IF KeyOf[r] = k THEN Change(r, S) ELSE 0)
<1> DEFINE before == At(pc, KeyOf, k, S)
           after == At(pc', KeyOf, k, S)
<1>1. IsFiniteSet(before) /\ Cardinality(before) \in Nat
  BY AtFinite
<1>2. CASE KeyOf[r] # k \/ (pc'[r] \in S <=> pc[r] \in S)
  <2>1. after = before
    BY <1>2 DEF At, OnlyMoves
  <2>2. (IF KeyOf[r] = k THEN Change(r, S) ELSE 0) = 0
    BY <1>2 DEF Change
  <2> HIDE DEF before, after
  <2> QED BY <1>1, <2>1, <2>2 DEF before, after
<1>3. CASE KeyOf[r] = k /\ pc'[r] \in S /\ pc[r] \notin S
  <2>1. after = before \cup {r} /\ r \notin before
    BY <1>3 DEF At, OnlyMoves
  <2>2. Cardinality(after) = Cardinality(before) + 1
    BY <1>1, <2>1, FS_AddElement
  <2> QED BY <1>3, <2>2 DEF Change
<1>4. CASE KeyOf[r] = k /\ pc'[r] \notin S /\ pc[r] \in S
  <2>1. after = before \ {r} /\ r \in before
    BY <1>4 DEF At, OnlyMoves
  <2>2. Cardinality(after) = Cardinality(before) - 1
    BY <1>1, <2>1, FS_RemoveElement
  <2> QED BY <1>1, <1>4, <2>2 DEF Change
<1> QED BY <1>2, <1>3, <1>4

\* CountersExact in terms of At.
LEMMA ExactAt ==
    CountersExact <=>
        /\ \A k \in Region : region[k] = Cardinality(At(pc, RegionOf, k, InRegion))
        /\ \A k \in Family : family[k] = Cardinality(At(pc, FamilyOf, k, InFamily))
BY DEF CountersExact, At

\* The same of the next state.
LEMMA ExactAtNext ==
    CountersExact' <=>
        /\ \A k \in Region : region'[k] = Cardinality(At(pc', RegionOf, k, InRegion))
        /\ \A k \in Family : family'[k] = Cardinality(At(pc', FamilyOf, k, InFamily))
BY DEF CountersExact, At

-----------------------------------------------------------------------------

\* The initial state satisfies the invariant.
LEMMA AdmissionInit == Init => AdmissionInv
<1> SUFFICES ASSUME Init PROVE AdmissionInv
  OBVIOUS
<1>1. Shape
  BY DEF Init, Shape, Location
<1>2. \A k : /\ At(pc, RegionOf, k, InRegion) = {} /\ At(pc, RegionOf, k, Passed) = {}
             /\ At(pc, FamilyOf, k, InFamily) = {} /\ At(pc, FamilyOf, k, {"held"}) = {}
  BY DEF Init, At, InRegion, InFamily, Passed
<1>3. CountersExact
  BY <1>2, ExactAt, FS_EmptySet DEF Init
<1>4. Admitted
  <2>1. Cardinality({}) = 0
    BY FS_EmptySet
  <2>2. 0 <= MaxRegion /\ 0 <= MaxFamily
    BY AdmissionAssumption
  <2> QED BY <1>2, <2>1, <2>2, Zenon DEF Admitted
<1> QED BY <1>1, <1>3, <1>4 DEF AdmissionInv

\* A step that moves only caller r keeps the counters exact if it changes
\* them by as much as the sets of callers inside change.
LEMMA MoveKeepsExact ==
    ASSUME AdmissionInv, NEW r \in Request, OnlyMoves(r),
           \A k \in Region :
              region'[k] = region[k] + (IF RegionOf[r] = k THEN Change(r, InRegion) ELSE 0),
           \A k \in Family :
              family'[k] = family[k] + (IF FamilyOf[r] = k THEN Change(r, InFamily) ELSE 0)
    PROVE  CountersExact'
<1>1. ASSUME NEW k \in Region
      PROVE  region'[k] = Cardinality(At(pc', RegionOf, k, InRegion))
  <2>1. region[k] = Cardinality(At(pc, RegionOf, k, InRegion))
    BY ExactAt DEF AdmissionInv
  <2>2. Cardinality(At(pc', RegionOf, k, InRegion)) =
          Cardinality(At(pc, RegionOf, k, InRegion))
            + (IF RegionOf[r] = k THEN Change(r, InRegion) ELSE 0)
    BY AtMove
  <2> QED BY <2>1, <2>2
<1>2. ASSUME NEW k \in Family
      PROVE  family'[k] = Cardinality(At(pc', FamilyOf, k, InFamily))
  <2>1. family[k] = Cardinality(At(pc, FamilyOf, k, InFamily))
    BY ExactAt DEF AdmissionInv
  <2>2. Cardinality(At(pc', FamilyOf, k, InFamily)) =
          Cardinality(At(pc, FamilyOf, k, InFamily))
            + (IF FamilyOf[r] = k THEN Change(r, InFamily) ELSE 0)
    BY AtMove
  <2> QED BY <2>1, <2>2
<1> QED BY <1>1, <1>2, ExactAtNext

\* A step that moves only caller r keeps the limits if it lets the caller
\* pass only below the limit of the region, and hands out a permit only
\* below the limit of the family.
LEMMA MoveKeepsAdmitted ==
    ASSUME AdmissionInv, NEW r \in Request, OnlyMoves(r),
           pc'[r] \in Passed /\ pc[r] \notin Passed => region[RegionOf[r]] < MaxRegion,
           pc'[r] \in {"held"} /\ pc[r] \notin {"held"} => family[FamilyOf[r]] < MaxFamily
    PROVE  Admitted'
<1>0. MaxRegion \in Nat /\ MaxFamily \in Nat
  BY AdmissionAssumption
<1>1. ASSUME NEW S
      PROVE  \/ Change(r, S) = 0
             \/ Change(r, S) = -1
             \/ Change(r, S) = 1 /\ pc'[r] \in S /\ pc[r] \notin S
  <2>1. CASE pc'[r] \in S
    BY <2>1 DEF Change
  <2>2. CASE pc'[r] \notin S
    BY <2>2 DEF Change
  <2> QED BY <2>1, <2>2
<1>2. ASSUME NEW k \in Region
      PROVE  Cardinality(At(pc', RegionOf, k, Passed)) <= MaxRegion
  <2>1. Cardinality(At(pc', RegionOf, k, Passed)) =
          Cardinality(At(pc, RegionOf, k, Passed))
            + (IF RegionOf[r] = k THEN Change(r, Passed) ELSE 0)
    BY AtMove
  <2>2. Passed \subseteq InRegion
    BY DEF Passed, InRegion
  <2>3. /\ Cardinality(At(pc, RegionOf, k, Passed)) \in Nat
        /\ Cardinality(At(pc, RegionOf, k, InRegion)) \in Nat
        /\ Cardinality(At(pc, RegionOf, k, Passed))
             <= Cardinality(At(pc, RegionOf, k, InRegion))
    BY <2>2, AtFinite
  <2>4. /\ region[k] = Cardinality(At(pc, RegionOf, k, InRegion))
        /\ Cardinality(At(pc, RegionOf, k, Passed)) <= MaxRegion
    BY ExactAt DEF AdmissionInv, Admitted
  <2> QED BY <1>0, <1>1, <2>1, <2>3, <2>4
<1>3. ASSUME NEW k \in Family
      PROVE  Cardinality(At(pc', FamilyOf, k, {"held"})) <= MaxFamily
  <2>1. Cardinality(At(pc', FamilyOf, k, {"held"})) =
          Cardinality(At(pc, FamilyOf, k, {"held"}))
            + (IF FamilyOf[r] = k THEN Change(r, {"held"}) ELSE 0)
    BY AtMove
  <2>2. {"held"} \subseteq InFamily
    BY DEF InFamily
  <2>3. /\ Cardinality(At(pc, FamilyOf, k, {"held"})) \in Nat
        /\ Cardinality(At(pc, FamilyOf, k, InFamily)) \in Nat
        /\ Cardinality(At(pc, FamilyOf, k, {"held"}))
             <= Cardinality(At(pc, FamilyOf, k, InFamily))
    BY <2>2, AtFinite
  <2>4. /\ family[k] = Cardinality(At(pc, FamilyOf, k, InFamily))
        /\ Cardinality(At(pc, FamilyOf, k, {"held"})) <= MaxFamily
    BY ExactAt DEF AdmissionInv, Admitted
  <2> QED BY <1>0, <1>1, <2>1, <2>3, <2>4
<1> QED BY <1>2, <1>3 DEF Admitted

\* The invariant is inductive.
LEMMA AdmissionNext == AdmissionInv /\ [Next]_vars => AdmissionInv'
<1> SUFFICES ASSUME AdmissionInv, [Next]_vars PROVE AdmissionInv'
  OBVIOUS
<1>a. pc \in [Request -> Location]
  BY DEF AdmissionInv, Shape
<1>b. region \in [Region -> Int] /\ family \in [Family -> Int]
  BY DEF AdmissionInv, Shape
<1>c. /\ \A r \in Request : RegionOf[r] \in Region /\ FamilyOf[r] \in Family
      /\ MaxRegion \in Nat /\ MaxFamily \in Nat
  BY AdmissionAssumption
<1>1. ASSUME NEW r \in Request, EnterRegion(r) PROVE AdmissionInv'
  <2> DEFINE there == IF region[RegionOf[r]] >= MaxRegion THEN "leave region" ELSE "enter family"
  <2>a. pc[r] = "idle" /\ pc' = [pc EXCEPT ![r] = there]
    BY <1>1 DEF EnterRegion, Goto
  <2>b. /\ region' = [region EXCEPT ![RegionOf[r]] = @ + 1] /\ family' = family
    BY <1>1 DEF EnterRegion, Add
  <2>c. RegionOf[r] \in Region /\ FamilyOf[r] \in Family
    BY <1>c
  <2>1. OnlyMoves(r) /\ Shape'
    <3>1. there \in Location
      BY DEF Location, InRegion
    <3> HIDE DEF there
    <3>2. OnlyMoves(r)
      BY <1>a, <2>a DEF OnlyMoves
    <3>3. pc' \in [Request -> Location]
      BY <1>a, <2>a, <3>1
    <3>4. region' \in [Region -> Int] /\ family' \in [Family -> Int]
      BY <1>b, <2>b, <2>c
    <3> QED BY <3>2, <3>3, <3>4 DEF Shape
  <2>2. Change(r, InRegion) = 1 /\ Change(r, InFamily) = 0
    <3>1. pc'[r] \in {"leave region", "enter family"} /\ pc[r] = "idle"
      BY <1>a, <2>a
    <3> QED BY <3>1 DEF Change, InRegion, InFamily
  <2>3. \A k \in Region : region'[k] = region[k] + (IF RegionOf[r] = k THEN 1 ELSE 0)
    BY <1>b, <2>b, <2>c
  <2>4. \A k \in Family : family'[k] = family[k] + 0
    BY <1>b, <2>b, <2>c
  <2>5. CountersExact'
    BY <2>1, <2>2, <2>3, <2>4, MoveKeepsExact
  <2>6. /\ pc'[r] \in Passed /\ pc[r] \notin Passed => region[RegionOf[r]] < MaxRegion
        /\ pc'[r] \in {"held"} /\ pc[r] \notin {"held"} => family[FamilyOf[r]] < MaxFamily
    <3>1. CASE region[RegionOf[r]] >= MaxRegion
      <4>1. pc'[r] = "leave region"
        BY <1>a, <2>a, <3>1
      <4> QED BY <4>1 DEF Passed
    <3>2. CASE ~(region[RegionOf[r]] >= MaxRegion)
      <4>1. pc'[r] = "enter family"
        BY <1>a, <2>a, <3>2
      <4>2. region[RegionOf[r]] < MaxRegion
        BY <1>b, <1>c, <2>c, <3>2
      <4> QED BY <4>1, <4>2
    <3> QED BY <3>1, <3>2
  <2>7. Admitted'
    BY <2>1, <2>6, MoveKeepsAdmitted
  <2> QED BY <2>1, <2>5, <2>7 DEF AdmissionInv
<1>2. ASSUME NEW r \in Request, EnterFamily(r) PROVE AdmissionInv'
  <2> DEFINE there == IF family[FamilyOf[r]] >= MaxFamily THEN "leave family" ELSE "held"
  <2>a. pc[r] = "enter family" /\ pc' = [pc EXCEPT ![r] = there]
    BY <1>2 DEF EnterFamily, Goto
  <2>b. /\ family' = [family EXCEPT ![FamilyOf[r]] = @ + 1] /\ region' = region
    BY <1>2 DEF EnterFamily, Add
  <2>c. RegionOf[r] \in Region /\ FamilyOf[r] \in Family
    BY <1>c
  <2>1. OnlyMoves(r) /\ Shape'
    <3>1. there \in Location
      BY DEF Location, InRegion
    <3> HIDE DEF there
    <3>2. OnlyMoves(r)
      BY <1>a, <2>a DEF OnlyMoves
    <3>3. pc' \in [Request -> Location]
      BY <1>a, <2>a, <3>1
    <3>4. region' \in [Region -> Int] /\ family' \in [Family -> Int]
      BY <1>b, <2>b, <2>c
    <3> QED BY <3>2, <3>3, <3>4 DEF Shape
  <2>2. Change(r, InRegion) = 0 /\ Change(r, InFamily) = 1
    <3>1. pc'[r] = there
      BY <1>a, <2>a
    <3> QED BY <2>a, <3>1 DEF Change, InRegion, InFamily
  <2>3. \A k \in Region : region'[k] = region[k] + 0
    BY <1>b, <2>b, <2>c
  <2>4. \A k \in Family : family'[k] = family[k] + (IF FamilyOf[r] = k THEN 1 ELSE 0)
    BY <1>b, <2>b, <2>c
  <2>5. CountersExact'
    BY <2>1, <2>2, <2>3, <2>4, MoveKeepsExact
  <2>6. /\ pc'[r] \in Passed /\ pc[r] \notin Passed => region[RegionOf[r]] < MaxRegion
        /\ pc'[r] \in {"held"} /\ pc[r] \notin {"held"} => family[FamilyOf[r]] < MaxFamily
    <3>0. pc[r] \in Passed
      BY <2>a DEF Passed
    <3>1. CASE family[FamilyOf[r]] >= MaxFamily
      <4>1. pc'[r] = "leave family"
        BY <1>a, <2>a, <3>1
      <4> QED BY <3>0, <4>1
    <3>2. CASE ~(family[FamilyOf[r]] >= MaxFamily)
      <4>1. family[FamilyOf[r]] < MaxFamily
        BY <1>b, <1>c, <2>c, <3>2
      <4> QED BY <3>0, <4>1
    <3> QED BY <3>1, <3>2
  <2>7. Admitted'
    BY <2>1, <2>6, MoveKeepsAdmitted
  <2> QED BY <2>1, <2>5, <2>7 DEF AdmissionInv
<1>3. ASSUME NEW r \in Request, LeaveFamily(r) PROVE AdmissionInv'
  <2> DEFINE there == "leave region"
  <2>a. pc[r] = "leave family" /\ pc' = [pc EXCEPT ![r] = there]
    BY <1>3 DEF LeaveFamily, Goto
  <2>b. /\ family' = [family EXCEPT ![FamilyOf[r]] = @ + -1] /\ region' = region
    BY <1>3 DEF LeaveFamily, Add
  <2>c. RegionOf[r] \in Region /\ FamilyOf[r] \in Family
    BY <1>c
  <2>1. OnlyMoves(r) /\ Shape'
    <3>1. there \in Location
      BY DEF Location, InRegion
    <3> HIDE DEF there
    <3>2. OnlyMoves(r)
      BY <1>a, <2>a DEF OnlyMoves
    <3>3. pc' \in [Request -> Location]
      BY <1>a, <2>a, <3>1
    <3>4. region' \in [Region -> Int] /\ family' \in [Family -> Int]
      BY <1>b, <2>b, <2>c
    <3> QED BY <3>2, <3>3, <3>4 DEF Shape
  <2>2. Change(r, InRegion) = 0 /\ Change(r, InFamily) = -1
    <3>1. pc'[r] = there
      BY <1>a, <2>a
    <3> QED BY <2>a, <3>1 DEF Change, InRegion, InFamily
  <2>3. \A k \in Region : region'[k] = region[k] + 0
    BY <1>b, <2>b, <2>c
  <2>4. \A k \in Family : family'[k] = family[k] + (IF FamilyOf[r] = k THEN -1 ELSE 0)
    BY <1>b, <2>b, <2>c
  <2>5. CountersExact'
    BY <2>1, <2>2, <2>3, <2>4, MoveKeepsExact
  <2>6. /\ pc'[r] \in Passed /\ pc[r] \notin Passed => region[RegionOf[r]] < MaxRegion
        /\ pc'[r] \in {"held"} /\ pc[r] \notin {"held"} => family[FamilyOf[r]] < MaxFamily
    <3>1. pc'[r] = there
      BY <1>a, <2>a
    <3> QED BY <1>b, <1>c, <2>a, <2>c, <3>1 DEF Passed
  <2>7. Admitted'
    BY <2>1, <2>6, MoveKeepsAdmitted
  <2> QED BY <2>1, <2>5, <2>7 DEF AdmissionInv
<1>4. ASSUME NEW r \in Request, LeaveRegion(r) PROVE AdmissionInv'
  <2> DEFINE there == "idle"
  <2>a. pc[r] = "leave region" /\ pc' = [pc EXCEPT ![r] = there]
    BY <1>4 DEF LeaveRegion, Goto
  <2>b. /\ region' = [region EXCEPT ![RegionOf[r]] = @ + -1] /\ family' = family
    BY <1>4 DEF LeaveRegion, Add
  <2>c. RegionOf[r] \in Region /\ FamilyOf[r] \in Family
    BY <1>c
  <2>1. OnlyMoves(r) /\ Shape'
    <3>1. there \in Location
      BY DEF Location, InRegion
    <3> HIDE DEF there
    <3>2. OnlyMoves(r)
      BY <1>a, <2>a DEF OnlyMoves
    <3>3. pc' \in [Request -> Location]
      BY <1>a, <2>a, <3>1
    <3>4. region' \in [Region -> Int] /\ family' \in [Family -> Int]
      BY <1>b, <2>b, <2>c
    <3> QED BY <3>2, <3>3, <3>4 DEF Shape
  <2>2. Change(r, InRegion) = -1 /\ Change(r, InFamily) = 0
    <3>1. pc'[r] = there
      BY <1>a, <2>a
    <3> QED BY <2>a, <3>1 DEF Change, InRegion, InFamily
  <2>3. \A k \in Region : region'[k] = region[k] + (IF RegionOf[r] = k THEN -1 ELSE 0)
    BY <1>b, <2>b, <2>c
  <2>4. \A k \in Family : family'[k] = family[k] + 0
    BY <1>b, <2>b, <2>c
  <2>5. CountersExact'
    BY <2>1, <2>2, <2>3, <2>4, MoveKeepsExact
  <2>6. /\ pc'[r] \in Passed /\ pc[r] \notin Passed => region[RegionOf[r]] < MaxRegion
        /\ pc'[r] \in {"held"} /\ pc[r] \notin {"held"} => family[FamilyOf[r]] < MaxFamily
    <3>1. pc'[r] = there
      BY <1>a, <2>a
    <3> QED BY <1>b, <1>c, <2>a, <2>c, <3>1 DEF Passed
  <2>7. Admitted'
    BY <2>1, <2>6, MoveKeepsAdmitted
  <2> QED BY <2>1, <2>5, <2>7 DEF AdmissionInv
<1>5. ASSUME NEW r \in Request, DropRegion(r) PROVE AdmissionInv'
  <2> DEFINE there == "drop family"
  <2>a. pc[r] = "held" /\ pc' = [pc EXCEPT ![r] = there]
    BY <1>5 DEF DropRegion, Goto
  <2>b. /\ region' = [region EXCEPT ![RegionOf[r]] = @ + -1] /\ family' = family
    BY <1>5 DEF DropRegion, Add
  <2>c. RegionOf[r] \in Region /\ FamilyOf[r] \in Family
    BY <1>c
  <2>1. OnlyMoves(r) /\ Shape'
    <3>1. there \in Location
      BY DEF Location, InRegion
    <3> HIDE DEF there
    <3>2. OnlyMoves(r)
      BY <1>a, <2>a DEF OnlyMoves
    <3>3. pc' \in [Request -> Location]
      BY <1>a, <2>a, <3>1
    <3>4. region' \in [Region -> Int] /\ family' \in [Family -> Int]
      BY <1>b, <2>b, <2>c
    <3> QED BY <3>2, <3>3, <3>4 DEF Shape
  <2>2. Change(r, InRegion) = -1 /\ Change(r, InFamily) = 0
    <3>1. pc'[r] = there
      BY <1>a, <2>a
    <3> QED BY <2>a, <3>1 DEF Change, InRegion, InFamily
  <2>3. \A k \in Region : region'[k] = region[k] + (IF RegionOf[r] = k THEN -1 ELSE 0)
    BY <1>b, <2>b, <2>c
  <2>4. \A k \in Family : family'[k] = family[k] + 0
    BY <1>b, <2>b, <2>c
  <2>5. CountersExact'
    BY <2>1, <2>2, <2>3, <2>4, MoveKeepsExact
  <2>6. /\ pc'[r] \in Passed /\ pc[r] \notin Passed => region[RegionOf[r]] < MaxRegion
        /\ pc'[r] \in {"held"} /\ pc[r] \notin {"held"} => family[FamilyOf[r]] < MaxFamily
    <3>1. pc'[r] = there
      BY <1>a, <2>a
    <3> QED BY <1>b, <1>c, <2>a, <2>c, <3>1 DEF Passed
  <2>7. Admitted'
    BY <2>1, <2>6, MoveKeepsAdmitted
  <2> QED BY <2>1, <2>5, <2>7 DEF AdmissionInv
<1>6. ASSUME NEW r \in Request, DropFamily(r) PROVE AdmissionInv'
  <2> DEFINE there == "idle"
  <2>a. pc[r] = "drop family" /\ pc' = [pc EXCEPT ![r] = there]
    BY <1>6 DEF DropFamily, Goto
  <2>b. /\ family' = [family EXCEPT ![FamilyOf[r]] = @ + -1] /\ region' = region
    BY <1>6 DEF DropFamily, Add
  <2>c. RegionOf[r] \in Region /\ FamilyOf[r] \in Family
    BY <1>c
  <2>1. OnlyMoves(r) /\ Shape'
    <3>1. there \in Location
      BY DEF Location, InRegion
    <3> HIDE DEF there
    <3>2. OnlyMoves(r)
      BY <1>a, <2>a DEF OnlyMoves
    <3>3. pc' \in [Request -> Location]
      BY <1>a, <2>a, <3>1
    <3>4. region' \in [Region -> Int] /\ family' \in [Family -> Int]
      BY <1>b, <2>b, <2>c
    <3> QED BY <3>2, <3>3, <3>4 DEF Shape
  <2>2. Change(r, InRegion) = 0 /\ Change(r, InFamily) = -1
    <3>1. pc'[r] = there
      BY <1>a, <2>a
    <3> QED BY <2>a, <3>1 DEF Change, InRegion, InFamily
  <2>3. \A k \in Region : region'[k] = region[k] + 0
    BY <1>b, <2>b, <2>c
  <2>4. \A k \in Family : family'[k] = family[k] + (IF FamilyOf[r] = k THEN -1 ELSE 0)
    BY <1>b, <2>b, <2>c
  <2>5. CountersExact'
    BY <2>1, <2>2, <2>3, <2>4, MoveKeepsExact
  <2>6. /\ pc'[r] \in Passed /\ pc[r] \notin Passed => region[RegionOf[r]] < MaxRegion
        /\ pc'[r] \in {"held"} /\ pc[r] \notin {"held"} => family[FamilyOf[r]] < MaxFamily
    <3>1. pc'[r] = there
      BY <1>a, <2>a
    <3> QED BY <1>b, <1>c, <2>a, <2>c, <3>1 DEF Passed
  <2>7. Admitted'
    BY <2>1, <2>6, MoveKeepsAdmitted
  <2> QED BY <2>1, <2>5, <2>7 DEF AdmissionInv
<1>7. CASE UNCHANGED vars
  <2>1. pc' = pc /\ region' = region /\ family' = family
    BY <1>7 DEF vars
  <2>2. Shape'
    BY <2>1 DEF AdmissionInv, Shape
  <2>3. CountersExact'
    BY <2>1, ExactAt, ExactAtNext DEF AdmissionInv
  <2>4. Admitted'
    BY <2>1 DEF AdmissionInv, Admitted
  <2> QED BY <2>2, <2>3, <2>4 DEF AdmissionInv
<1> QED BY <1>1, <1>2, <1>3, <1>4, <1>5, <1>6, <1>7 DEF Next, Step

-----------------------------------------------------------------------------

\* The invariant holds in every behaviour.
THEOREM AdmissionInvariant == Spec => []AdmissionInv
BY AdmissionInit, AdmissionNext, PTL DEF Spec

\* The counters never go below zero or beyond the number of callers.
THEOREM AdmissionTypeCorrect == Spec => []TypeOK
<1>1. AdmissionInv => TypeOK
  <2> SUFFICES ASSUME AdmissionInv PROVE TypeOK
    OBVIOUS
  <2>1. \A k \in Region : region[k] \in 0 .. Cardinality(Request)
    <3>1. Cardinality(Request) \in Nat
      BY AdmissionAssumption, FS_CardinalityType
    <3>2. \A k \in Region : region[k] \in Nat /\ region[k] <= Cardinality(Request)
      BY ExactAt, AtFinite DEF AdmissionInv
    <3> QED BY <3>1, <3>2
  <2>2. \A k \in Family : family[k] \in 0 .. Cardinality(Request)
    <3>1. Cardinality(Request) \in Nat
      BY AdmissionAssumption, FS_CardinalityType
    <3>2. \A k \in Family : family[k] \in Nat /\ family[k] <= Cardinality(Request)
      BY ExactAt, AtFinite DEF AdmissionInv
    <3> QED BY <3>1, <3>2
  <2> QED BY <2>1, <2>2 DEF AdmissionInv, Shape, TypeOK, Location
<1> QED BY <1>1, AdmissionInvariant, PTL

\* The counters of try_admit and the permit's Drop are exactly the callers
\* inside, whatever the interleaving.
THEOREM AdmissionExact == Spec => []CountersExact
<1>1. AdmissionInv => CountersExact
  BY DEF AdmissionInv
<1> QED BY <1>1, AdmissionInvariant, PTL

\* The limits of regions and families are never exceeded by permits.
THEOREM AdmissionBounded == Spec => []PermitsWithinLimits
<1>1. AdmissionInv => PermitsWithinLimits
  <2> SUFFICES ASSUME AdmissionInv PROVE PermitsWithinLimits
    OBVIOUS
  <2>0. MaxRegion \in Nat
    BY AdmissionAssumption
  <2>1. ASSUME NEW k \in Region
        PROVE  Cardinality({r \in Request : RegionOf[r] = k /\ pc[r] = "held"}) <= MaxRegion
    <3>1. {r \in Request : RegionOf[r] = k /\ pc[r] = "held"} = At(pc, RegionOf, k, {"held"})
      BY DEF At
    <3>2. {"held"} \subseteq Passed
      BY DEF Passed
    <3>3. /\ Cardinality(At(pc, RegionOf, k, {"held"})) \in Nat
          /\ Cardinality(At(pc, RegionOf, k, Passed)) \in Nat
          /\ Cardinality(At(pc, RegionOf, k, {"held"}))
               <= Cardinality(At(pc, RegionOf, k, Passed))
      BY <3>2, AtFinite
    <3>4. Cardinality(At(pc, RegionOf, k, Passed)) <= MaxRegion
      BY DEF AdmissionInv, Admitted
    <3> QED BY <2>0, <3>1, <3>3, <3>4
  <2>2. ASSUME NEW k \in Family
        PROVE  Cardinality({r \in Request : FamilyOf[r] = k /\ pc[r] = "held"}) <= MaxFamily
    <3>1. {r \in Request : FamilyOf[r] = k /\ pc[r] = "held"} = At(pc, FamilyOf, k, {"held"})
      BY DEF At
    <3> QED BY <3>1 DEF AdmissionInv, Admitted
  <2> QED BY <2>1, <2>2 DEF PermitsWithinLimits
<1> QED BY <1>1, AdmissionInvariant, PTL

-----------------------------------------------------------------------------
(* The handshake and its rate limits.                                      *)

\* A check and a session run under a permit.
UnderPermit == \A r \in Request : stage[r] # "new" => pc[r] = "held"

\* No window after the current one has accepted anybody.
NoneAhead ==
    \A k \in FixedKey : \A t \in 0 .. MaxTime :
       accepted[k][t] # 0 => window[k].start # NoTime /\ t <= window[k].start

\* The current window has counted whom it has accepted.
AcceptedCounted ==
    \A k \in FixedKey :
       window[k].start # NoTime => accepted[k][window[k].start] <= window[k].count

\* The limits of tokens, addresses, users and the gateway.
FixedWithinWindow ==
    \A k \in FixedKey : \A t \in 0 .. MaxTime : accepted[k][t] <= Limit[k]

\* What the present window of a tenant adds to the requests accepted in the
\* window that starts at t: it may be filled, it is being filled, or it is
\* yet to come.
Share(k, t) ==
    CASE window[k].start = NoTime -> 0
      [] window[k].start # NoTime /\ t < window[k].start -> Limit[k]
      [] window[k].start # NoTime /\ t = window[k].start -> window[k].count
      [] window[k].start # NoTime /\ window[k].start < t -> 0

\* Every window of a tenant that was put back allows for one more filling.
TenantCounts ==
    \A k \in TenantKey :
       /\ window[k].count <= Limit[k]
       /\ \A t \in 0 .. MaxTime : accepted[k][t] <= putBack[k] * Limit[k] + Share(k, t)

\* The current window was open when it first refused somebody.
RefusedSince ==
    \A k \in FixedKey :
       refusedAt[k] # NoTime => window[k].start # NoTime /\ window[k].start <= refusedAt[k]

GatewayStart == window[Gateway].start

\* Who has passed the gateway's lock has not read a time after its window,
\* unless that window has no length.
NotBeyond ==
    /\ GatewayStart # NoTime
    /\ \A r \in Request :
          stage[r] = "count global" /\ Gateway \in FixedKey =>
             read[r] < GatewayStart + WindowSeconds[Gateway]

LimitsInv ==
    /\ LimitsTypeOK
    /\ UnderPermit
    /\ NoneAhead
    /\ AcceptedCounted
    /\ FixedWithinWindow
    /\ TenantCounts
    /\ RefusedSince
    /\ NotBeyond

-----------------------------------------------------------------------------
(* The admission controller inside.                                        *)

LEMMA HandshakeIsAdmission == [HandshakeNext]_handshakeVars => [Next]_vars
<1> SUFFICES ASSUME [HandshakeNext]_handshakeVars PROVE [Next]_vars
  OBVIOUS
<1>1. CASE Tick
  BY <1>1 DEF Tick
<1>2. ASSUME NEW r \in Request, Handshake(r) PROVE [Next]_vars
  <2>1. CASE Admission(r)
    BY <2>1 DEF Admission, Next, Step
  <2>2. CASE Release(r)
    BY <2>2 DEF Release, Next, Step
  <2>3. CASE Authenticate(r) \/ PassUncounted(r) \/ CountBucket(r) \/ RenewGlobal(r)
                \/ CountGlobal(r) \/ CountTenant(r)
    BY <2>3 DEF Authenticate, PassUncounted, CountBucket, RenewGlobal, CountGlobal, CountTenant
  <2> QED BY <1>2, <2>1, <2>2, <2>3 DEF Handshake
<1>3. CASE UNCHANGED handshakeVars
  BY <1>3 DEF handshakeVars
<1> QED BY <1>1, <1>2, <1>3 DEF HandshakeNext

\* The handshake takes and gives back permits only as the admission
\* controller does.
THEOREM HandshakeImplementsAdmission == HandshakeSpec => Spec
<1>1. HandshakeInit => Init
  BY DEF HandshakeInit
<1> QED BY <1>1, HandshakeIsAdmission, PTL DEF HandshakeSpec, Spec

-----------------------------------------------------------------------------
(* Windows.                                                                *)

LEMMA FoundTyped ==
    ASSUME LimitsTypeOK, NEW r \in Request, NEW k \in Key
    PROVE  Found(r, k) \in [start : 0 .. clock, count : Nat]
<1>0. NoTime \notin Nat
  BY LimitsAssumption
<1>1. clock \in Nat /\ read[r] \in 0 .. clock
  <2>1. clock \in 0 .. MaxTime /\ read \in [Request -> 0 .. clock] /\ MaxTime \in Nat
    BY LimitsAssumption DEF LimitsTypeOK
  <2> QED BY <2>1
<1>2. window[k] \in [start : 0 .. clock \cup {NoTime}, count : Nat]
  BY DEF LimitsTypeOK
<1>3. CASE Expired(window[k], k, read[r])
  BY <1>1, <1>3 DEF Found, Opened
<1>4. CASE ~Expired(window[k], k, read[r])
  <2>1. window[k].start # NoTime /\ Found(r, k) = window[k]
    BY <1>4 DEF Found, Expired
  <2> QED BY <1>2, <2>1
<1> QED BY <1>3, <1>4

\* A window that is replaced is followed by a later one, which starts at
\* the caller's time.
LEMMA FoundWindow ==
    ASSUME LimitsTypeOK, NEW r \in Request, NEW k \in FixedKey
    PROVE  /\ Found(r, k).start # window[k].start =>
                 /\ Found(r, k) = [start |-> read[r], count |-> 0]
                 /\ window[k].start # NoTime =>
                       window[k].start + WindowSeconds[k] <= read[r]
           /\ Found(r, k).start = window[k].start => Found(r, k) = window[k]
           /\ read[r] < Found(r, k).start + WindowSeconds[k]
<1>0. MaxTime \in Nat /\ NoTime \notin Nat
  BY LimitsAssumption
<1>1. clock \in Nat /\ read[r] \in 0 .. clock
  <2>1. clock \in 0 .. MaxTime /\ read \in [Request -> 0 .. clock]
    BY DEF LimitsTypeOK
  <2> QED BY <1>0, <2>1
<1>2. window[k] \in [start : 0 .. clock \cup {NoTime}, count : Nat]
  BY DEF LimitsTypeOK, FixedKey
<1>3. WindowSeconds[k] \in Nat /\ WindowSeconds[k] > 0
  BY LimitsAssumption DEF FixedKey
<1>4. CASE Expired(window[k], k, read[r])
  <2>1. Found(r, k) = [start |-> read[r], count |-> 0]
    BY <1>4 DEF Found, Opened
  <2>2. window[k].start # NoTime => window[k].start + WindowSeconds[k] <= read[r]
    BY <1>0, <1>1, <1>2, <1>3, <1>4 DEF Expired
  <2>3. read[r] # window[k].start
    BY <1>0, <1>1, <1>2, <1>3, <2>2
  <2> QED BY <1>0, <1>1, <1>2, <1>3, <2>1, <2>2, <2>3
<1>5. CASE ~Expired(window[k], k, read[r])
  <2>1. Found(r, k) = window[k]
    BY <1>5 DEF Found
  <2>2. window[k].start # NoTime /\ read[r] - window[k].start < WindowSeconds[k]
    BY <1>0, <1>1, <1>2, <1>3, <1>5 DEF Expired
  <2> QED BY <1>0, <1>1, <1>2, <1>3, <2>1, <2>2
<1> QED BY <1>4, <1>5

LEMMA AlignedNotAfter ==
    ASSUME NEW n \in Nat, NEW w \in Nat \ {0}
    PROVE  (n \div w) * w \in 0 .. n
OBVIOUS

\* What a caller finds: the current window, or a later one that is empty.
Follows(w, k) ==
    /\ w \in [start : 0 .. clock, count : Nat]
    /\ w.start = window[k].start => w = window[k]
    /\ w.start # window[k].start =>
          w.count = 0 /\ (window[k].start # NoTime => window[k].start < w.start)

\* The parts of the type invariant, one by one.
LEMMA Typed ==
    ASSUME LimitsTypeOK
    PROVE  /\ clock \in Nat /\ clock <= MaxTime
           /\ stage \in [Request -> {"new", "ingress", "count global", "session", "refused"}
                                        \cup Check]
           /\ read \in [Request -> 0 .. clock]
           /\ window \in [Key -> [start : 0 .. clock \cup {NoTime}, count : Nat]]
           /\ handshakes \in 0 .. MaxHandshakes
           /\ accepted \in [Key -> [0 .. MaxTime -> Nat]]
           /\ refusedAt \in [Key -> 0 .. clock \cup {NoTime}]
           /\ putBack \in [Key -> Nat]
<1>1. clock \in 0 .. MaxTime /\ MaxTime \in Nat
  BY LimitsAssumption DEF LimitsTypeOK
<1>2. clock \in Nat /\ clock <= MaxTime
  BY <1>1
<1> QED BY <1>2 DEF LimitsTypeOK

LEMMA CountUpTyped ==
    ASSUME NEW f \in [0 .. MaxTime -> Nat], NEW s \in 0 .. MaxTime
    PROVE  [f EXCEPT ![s] = f[s] + 1] \in [0 .. MaxTime -> Nat]
OBVIOUS

\* Counting in such a window keeps the history's types.
LEMMA CountingTyped ==
    ASSUME LimitsTypeOK, NEW k \in Key, NEW w, NEW ok \in BOOLEAN,
           w \in [start : 0 .. clock, count : Nat],
           \/ window' = [window EXCEPT ![k] = Counted(w)]
           \/ window' = [window EXCEPT ![k] = w],
           Observe(k, ok)
    PROVE  /\ window' \in [Key -> [start : 0 .. clock \cup {NoTime}, count : Nat]]
           /\ accepted' \in [Key -> [0 .. MaxTime -> Nat]]
           /\ refusedAt' \in [Key -> 0 .. clock \cup {NoTime}]
<1>1. /\ clock \in Nat /\ clock <= MaxTime /\ MaxTime \in Nat
      /\ window \in [Key -> [start : 0 .. clock \cup {NoTime}, count : Nat]]
      /\ accepted \in [Key -> [0 .. MaxTime -> Nat]]
      /\ refusedAt \in [Key -> 0 .. clock \cup {NoTime}]
  BY Typed, LimitsAssumption
<1>2. Counted(w) \in [start : 0 .. clock, count : Nat] /\ Counted(w).start = w.start
  BY DEF Counted
<1>3. window' \in [Key -> [start : 0 .. clock \cup {NoTime}, count : Nat]]
  BY <1>1, <1>2
<1>4. window'[k].start = w.start /\ w.start \in 0 .. MaxTime
  BY <1>1, <1>2
<1>5. accepted' \in [Key -> [0 .. MaxTime -> Nat]]
  <2>1. accepted[k] \in [0 .. MaxTime -> Nat] /\ w.start \in 0 .. MaxTime
    BY <1>1, <1>4
  <2> DEFINE row == [accepted[k] EXCEPT ![w.start] = accepted[k][w.start] + 1]
  <2>2. row \in [0 .. MaxTime -> Nat]
    BY <2>1, CountUpTyped
  <2>3. accepted' = accepted \/ accepted' = [accepted EXCEPT ![k] = row]
    BY <1>4 DEF Observe
  <2> HIDE DEF row
  <2> QED BY <1>1, <2>2, <2>3
<1>6. refusedAt' \in [Key -> 0 .. clock \cup {NoTime}]
  BY <1>1 DEF Observe
<1> QED BY <1>3, <1>5, <1>6

LEMMA OneMore ==
    \A a, c, l \in Nat : a <= c /\ c < l => a + 1 <= l
OBVIOUS

\* Tenants whose windows nobody touches.
LEMMA TenantsKept ==
    ASSUME TenantCounts, putBack' = putBack,
           \A k \in TenantKey : window'[k] = window[k] /\ accepted'[k] = accepted[k]
    PROVE  TenantCounts'
<1> SUFFICES ASSUME NEW k \in TenantKey
             PROVE  /\ window'[k].count <= Limit[k]
                    /\ \A t \in 0 .. MaxTime :
                          accepted'[k][t] <= putBack'[k] * Limit[k] + Share(k, t)'
  BY DEF TenantCounts, FixedKey, TenantKey
<1>1. \A t \in 0 .. MaxTime : Share(k, t)' = Share(k, t)
  BY DEF Share
<1> QED BY <1>1 DEF TenantCounts

\* Windows of fixed length that nobody touches.
LEMMA FixedKept ==
    ASSUME NoneAhead, AcceptedCounted, FixedWithinWindow, RefusedSince,
           \A k \in FixedKey : /\ window'[k] = window[k] /\ accepted'[k] = accepted[k]
                               /\ refusedAt'[k] = refusedAt[k]
    PROVE  NoneAhead' /\ AcceptedCounted' /\ FixedWithinWindow' /\ RefusedSince'
<1>1. NoneAhead'
  BY DEF NoneAhead, FixedKey, TenantKey
<1>2. AcceptedCounted'
  BY DEF AcceptedCounted, FixedKey, TenantKey
<1>3. FixedWithinWindow'
  BY DEF FixedWithinWindow, FixedKey, TenantKey
<1>4. RefusedSince'
  BY DEF RefusedSince, FixedKey, TenantKey
<1> QED BY <1>1, <1>2, <1>3, <1>4

\* Counting in the window found keeps the invariant for its key and for the
\* others.
LEMMA CountingKeeps ==
    ASSUME LimitsTypeOK, NoneAhead, AcceptedCounted, FixedWithinWindow, TenantCounts,
           RefusedSince,
           NEW k \in FixedKey, NEW w, Follows(w, k),
           window' = [window EXCEPT ![k] = Counted(w)],
           Observe(k, w.count < Limit[k]), putBack' = putBack
    PROVE  NoneAhead' /\ AcceptedCounted' /\ FixedWithinWindow' /\ TenantCounts' /\ RefusedSince'
<1>0. k \in Key /\ FixedKey \subseteq Key
  BY DEF FixedKey, TenantKey
<1>1. /\ clock \in Nat /\ clock <= MaxTime /\ MaxTime \in Nat /\ NoTime \notin Nat
      /\ window \in [Key -> [start : 0 .. clock \cup {NoTime}, count : Nat]]
      /\ accepted \in [Key -> [0 .. MaxTime -> Nat]]
      /\ refusedAt \in [Key -> 0 .. clock \cup {NoTime}]
      /\ Limit[k] \in Nat
  BY <1>0, Typed, LimitsAssumption
<1>2. /\ w.start \in 0 .. MaxTime /\ w.count \in Nat /\ w.start \in 0 .. clock
      /\ window'[k] = [start |-> w.start, count |-> w.count + 1]
      /\ \A j \in Key \ {k} : window'[j] = window[j]
  BY <1>0, <1>1 DEF Follows, Counted
<1>3. /\ \A j \in Key \ {k} : accepted'[j] = accepted[j] /\ refusedAt'[j] = refusedAt[j]
      /\ \A t \in 0 .. MaxTime \ {w.start} : accepted'[k][t] = accepted[k][t]
      /\ accepted'[k][w.start] = IF w.count < Limit[k] THEN accepted[k][w.start] + 1
                                                        ELSE accepted[k][w.start]
  BY <1>0, <1>1, <1>2 DEF Observe
<1>4. accepted[k][w.start] <= w.count
  <2>1. CASE w.start = window[k].start
    BY <1>1, <1>2, <2>1 DEF Follows, AcceptedCounted
  <2>2. CASE w.start # window[k].start
    <3>1. accepted[k][w.start] = 0
      <4>1. accepted[k][w.start] # 0 => window[k].start # NoTime /\ w.start <= window[k].start
        BY <1>2 DEF NoneAhead
      <4>2. window[k].start # NoTime => window[k].start \in Nat /\ window[k].start < w.start
        BY <1>0, <1>1, <2>2 DEF Follows
      <4> QED BY <1>2, <4>1, <4>2
    <3> QED BY <1>2, <3>1
  <2> QED BY <2>1, <2>2
<1>5. NoneAhead'
  <2> SUFFICES ASSUME NEW j \in FixedKey, NEW t \in 0 .. MaxTime, accepted'[j][t] # 0
               PROVE  window'[j].start # NoTime /\ t <= window'[j].start
    BY DEF NoneAhead, FixedKey, TenantKey
  <2>1. CASE j # k
    BY <1>0, <1>2, <1>3, <2>1 DEF NoneAhead
  <2>2. CASE j = k /\ t = w.start
    BY <1>1, <1>2, <2>2
  <2>3. CASE j = k /\ t # w.start
    <3>1. window[k].start # NoTime /\ t <= window[k].start
      BY <1>3, <2>3 DEF NoneAhead
    <3>2. window[k].start \in Nat /\ window[k].start <= w.start
      <4>1. window[k].start \in Nat
        BY <1>0, <1>1, <3>1
      <4>2. w.start = window[k].start \/ window[k].start < w.start
        BY <3>1 DEF Follows
      <4> QED BY <1>2, <4>1, <4>2
    <3> QED BY <1>1, <1>2, <2>3, <3>1, <3>2
  <2> QED BY <2>1, <2>2, <2>3
<1>6. AcceptedCounted'
  <2> SUFFICES ASSUME NEW j \in FixedKey, window'[j].start # NoTime
               PROVE  accepted'[j][window'[j].start] <= window'[j].count
    BY DEF AcceptedCounted, FixedKey, TenantKey
  <2>1. CASE j # k
    BY <1>0, <1>2, <1>3, <2>1 DEF AcceptedCounted
  <2>2. CASE j = k
    <3>1. accepted[k][w.start] \in Nat
      BY <1>0, <1>1, <1>2
    <3> QED BY <1>2, <1>3, <1>4, <2>2, <3>1
  <2> QED BY <2>1, <2>2
<1>7. FixedWithinWindow'
  <2> SUFFICES ASSUME NEW j \in FixedKey, NEW t \in 0 .. MaxTime
               PROVE  accepted'[j][t] <= Limit[j]
    BY DEF FixedWithinWindow, FixedKey, TenantKey
  <2>1. accepted[j][t] <= Limit[j]
    BY DEF FixedWithinWindow
  <2>2. CASE j # k
    BY <1>0, <1>3, <2>1, <2>2
  <2>3. CASE j = k /\ t # w.start
    BY <1>3, <2>1, <2>3
  <2>4. CASE j = k /\ t = w.start
    <3>1. accepted[k][w.start] \in Nat
      BY <1>0, <1>1, <1>2
    <3>2. accepted'[k][w.start] <= Limit[k]
      <4>1. CASE w.count < Limit[k]
        <5>1. accepted'[k][w.start] = accepted[k][w.start] + 1
          BY <1>3, <4>1
        <5> QED BY <1>1, <1>2, <1>4, <3>1, <4>1, <5>1, OneMore
      <4>2. CASE ~(w.count < Limit[k])
        BY <1>3, <2>1, <2>4, <4>2
      <4> QED BY <4>1, <4>2
    <3> QED BY <2>4, <3>2
  <2> QED BY <2>2, <2>3, <2>4
<1>8. RefusedSince'
  <2> SUFFICES ASSUME NEW j \in FixedKey, refusedAt'[j] # NoTime
               PROVE  window'[j].start # NoTime /\ window'[j].start <= refusedAt'[j]
    BY DEF RefusedSince, FixedKey, TenantKey
  <2>1. CASE j # k
    BY <1>0, <1>2, <1>3, <2>1 DEF RefusedSince
  <2>2. CASE j = k
    <3>1. refusedAt'[k] = clock \/ (refusedAt'[k] = refusedAt[k] /\ w.start = window[k].start)
      BY <1>0, <1>1, <1>2, <2>2 DEF Observe
    <3>2. CASE refusedAt'[k] = clock
      BY <1>1, <1>2, <2>2, <3>2
    <3>3. CASE refusedAt'[k] = refusedAt[k] /\ w.start = window[k].start
      BY <1>2, <2>2, <3>3 DEF RefusedSince
    <3> QED BY <3>1, <3>2, <3>3
  <2> QED BY <2>1, <2>2
<1>9. TenantCounts'
  <2>1. \A j \in TenantKey : window'[j] = window[j] /\ accepted'[j] = accepted[j]
    BY <1>2, <1>3 DEF FixedKey, TenantKey
  <2> QED BY <2>1, TenantsKept
<1> QED BY <1>5, <1>6, <1>7, <1>8, <1>9

\* Counting in a window of no length concerns nobody else.
LEMMA UnlimitedKeeps ==
    ASSUME LimitsTypeOK, NoneAhead, AcceptedCounted, FixedWithinWindow, TenantCounts,
           RefusedSince,
           NEW k \in Key \ TenantKey, k \notin FixedKey, NEW w, NEW ok,
           window' = [window EXCEPT ![k] = Counted(w)],
           Observe(k, ok), putBack' = putBack
    PROVE  NoneAhead' /\ AcceptedCounted' /\ FixedWithinWindow' /\ TenantCounts' /\ RefusedSince'
<1>1. /\ window \in [Key -> [start : 0 .. clock \cup {NoTime}, count : Nat]]
      /\ accepted \in [Key -> [0 .. MaxTime -> Nat]]
      /\ refusedAt \in [Key -> 0 .. clock \cup {NoTime}]
  BY Typed
<1>2. \A j \in Key \ {k} :
         window'[j] = window[j] /\ accepted'[j] = accepted[j] /\ refusedAt'[j] = refusedAt[j]
  BY <1>1 DEF Observe
<1>3. TenantKey \subseteq Key \ {k} /\ FixedKey \subseteq Key \ {k}
  BY DEF TenantKey, FixedKey
<1>4. TenantCounts'
  BY <1>2, <1>3, TenantsKept
<1> QED BY <1>2, <1>3, <1>4, FixedKept

-----------------------------------------------------------------------------
(* The steps of the handshake.                                             *)

StageName == {"new", "ingress", "count global", "session", "refused"} \cup Check

\* Entering a stage keeps the types and the permit.
LEMMA EnterKeeps ==
    ASSUME LimitsTypeOK, UnderPermit, NEW r \in Request, NEW there \in StageName,
           Enter(r, there), pc[r] = "held", pc' = pc
    PROVE  /\ stage' \in [Request -> StageName]
           /\ read' \in [Request -> 0 .. clock]
           /\ stage'[r] = there
           /\ \A q \in Request \ {r} : stage'[q] = stage[q] /\ read'[q] = read[q]
           /\ UnderPermit'
<1>1. /\ clock \in Nat
      /\ stage \in [Request -> StageName]
      /\ read \in [Request -> 0 .. clock]
  BY Typed DEF StageName
<1>2. stage' \in [Request -> StageName] /\ read' \in [Request -> 0 .. clock]
  BY <1>1 DEF Enter
<1>3. /\ stage'[r] = there
      /\ \A q \in Request \ {r} : stage'[q] = stage[q] /\ read'[q] = read[q]
  BY <1>1 DEF Enter
<1>4. UnderPermit'
  BY <1>3 DEF UnderPermit
<1> QED BY <1>2, <1>3, <1>4

\* The next stage is a stage, and no limit leads straight to counting.
LEMMA AfterStage ==
    ASSUME NEW s \in Check \cup {"ingress"}
    PROVE  After[s] \in StageName \ {"count global", "new", "refused"}
<1>1. s \in {"token", "global", "ip", "user", "tenant", "ingress"}
  BY DEF Check
<1>2. After[s] \in {"ingress", "global", "ip", "user", "tenant", "session"}
  BY <1>1 DEF After
<1> QED BY <1>2 DEF StageName, Check

LEMMA SumMonotone ==
    \A a, b, c, w \in Nat : a < b + w /\ b <= c => a < c + w
OBVIOUS

LEMMA ReadTyped ==
    ASSUME LimitsTypeOK, NEW r \in Request
    PROVE  read[r] \in Nat /\ read[r] <= clock /\ clock \in Nat
<1>1. clock \in Nat /\ read \in [Request -> 0 .. clock]
  BY Typed
<1> QED BY <1>1

\* Where windows have a length, the window found is the current one or a
\* later one.
LEMMA FoundFollows ==
    ASSUME LimitsTypeOK, NEW r \in Request, NEW k \in FixedKey
    PROVE  Follows(Found(r, k), k)
<1> DEFINE w == Found(r, k)
<1>1. k \in Key /\ WindowSeconds[k] \in Nat \ {0} /\ NoTime \notin Nat
  BY LimitsAssumption DEF FixedKey
<1>2. /\ w \in [start : 0 .. clock, count : Nat]
      /\ w.start # window[k].start =>
            /\ w = [start |-> read[r], count |-> 0]
            /\ window[k].start # NoTime => window[k].start + WindowSeconds[k] <= read[r]
      /\ w.start = window[k].start => w = window[k]
  BY <1>1, FoundTyped, FoundWindow
<1>3. ASSUME w.start # window[k].start, window[k].start # NoTime
      PROVE  window[k].start < w.start
  <2>1. window[k].start \in Nat
    <3>1. clock \in Nat /\ window \in [Key -> [start : 0 .. clock \cup {NoTime}, count : Nat]]
      BY Typed
    <3> QED BY <1>1, <1>3, <3>1
  <2>2. read[r] \in Nat
    BY ReadTyped
  <2>3. w.start = read[r] /\ window[k].start + WindowSeconds[k] <= read[r]
    BY <1>2, <1>3
  <2> QED BY <1>1, <2>1, <2>2, <2>3
<1>4. w.start # window[k].start => w.count = 0
  BY <1>2
<1> QED BY <1>2, <1>3, <1>4 DEF Follows

LEMMA GatewayTyped ==
    ASSUME LimitsTypeOK, GatewayStart # NoTime
    PROVE  GatewayStart \in Nat /\ GatewayStart <= clock /\ clock \in Nat
<1>1. NoTime \notin Nat /\ Gateway \in Key
  BY LimitsAssumption
<1>2. clock \in Nat /\ window \in [Key -> [start : 0 .. clock \cup {NoTime}, count : Nat]]
  BY Typed
<1>3. GatewayStart \in 0 .. clock \cup {NoTime}
  BY <1>1, <1>2 DEF GatewayStart
<1> QED BY <1>2, <1>3

LEMMA GatewayOpen ==
    ASSUME LimitsTypeOK, NotBeyond
    PROVE  GatewayStart \in Nat /\ GatewayStart <= GatewayStart
<1>1. GatewayStart # NoTime
  BY DEF NotBeyond
<1>2. GatewayStart \in Nat
  BY <1>1, GatewayTyped
<1> QED BY <1>2

\* A window of the gateway that is not older keeps what the callers about to
\* count have read within it.
LEMMA BeyondKeeps ==
    ASSUME LimitsTypeOK, NotBeyond, NEW r \in Request, NEW later \in Nat,
           GatewayStart' = later, Gateway \in FixedKey => GatewayStart <= later,
           \A q \in Request \ {r} : stage'[q] = stage[q] /\ read'[q] = read[q],
           stage'[r] = "count global" /\ Gateway \in FixedKey =>
              read'[r] < later + WindowSeconds[Gateway]
    PROVE  NotBeyond'
<1>1. NoTime \notin Nat
  BY LimitsAssumption
<1>2. WindowSeconds[Gateway] \in Nat
  BY LimitsAssumption
<1>3. GatewayStart \in Nat
  BY GatewayTyped DEF NotBeyond
<1>4. ASSUME NEW q \in Request, stage'[q] = "count global", Gateway \in FixedKey
      PROVE  read'[q] < later + WindowSeconds[Gateway]
  <2>1. CASE q = r
    BY <1>4, <2>1
  <2>2. CASE q # r
    <3>1. read'[q] = read[q] /\ stage[q] = "count global"
      BY <1>4, <2>2
    <3>2. read[q] < GatewayStart + WindowSeconds[Gateway]
      BY <1>4, <3>1 DEF NotBeyond
    <3>3. read[q] \in Nat
      BY ReadTyped
    <3>4. read[q] < later + WindowSeconds[Gateway]
      BY <1>2, <1>3, <1>4, <3>2, <3>3, SumMonotone
    <3> QED BY <3>1, <3>4
  <2> QED BY <2>1, <2>2
<1>5. GatewayStart' # NoTime
  BY <1>1
<1> QED BY <1>4, <1>5 DEF NotBeyond, FixedKey, TenantKey

\* Tokens, addresses, users and the gateway are no tenants.
LEMMA FixedKeys ==
    /\ Gateway \in Key \ TenantKey
    /\ \A r \in Request : \A c \in Check \ {"tenant"} :
          LimitKey[r][c] # NoKey => LimitKey[r][c] \in Key \ TenantKey
    /\ \A r \in Request : LimitKey[r]["tenant"] # NoKey => LimitKey[r]["tenant"] \in TenantKey
    /\ TenantKey \subseteq Key /\ FixedKey \subseteq Key /\ TenantKey \cap FixedKey = {}
<1>1. \A r \in Request : \A c \in Check : LimitKey[r][c] \in Key \cup {NoKey}
  BY LimitsAssumption
<1>2. "tenant" \in Check /\ "global" \in Check /\ "global" # "tenant"
  BY DEF Check
<1>3. \A r, q \in Request : \A c, d \in Check :
         LimitKey[r][c] = LimitKey[q][d] /\ LimitKey[r][c] # NoKey => c = d
  BY LimitsAssumption
<1>4. ASSUME NEW r \in Request, NEW c \in Check \ {"tenant"}, LimitKey[r][c] # NoKey
      PROVE  LimitKey[r][c] \in Key \ TenantKey
  <2>1. \A q \in Request : LimitKey[r][c] # LimitKey[q]["tenant"]
    BY <1>2, <1>3, <1>4
  <2> QED BY <1>1, <1>4, <2>1 DEF TenantKey
<1>5. Gateway \in Key \ TenantKey
  <2>1. ASSUME NEW q \in Request PROVE Gateway # LimitKey[q]["tenant"]
    <3>1. LimitKey[q]["global"] = Gateway /\ Gateway # NoKey
      <4>1. Gateway \in Key /\ NoKey \notin Key
        BY LimitsAssumption
      <4>2. LimitKey[q]["global"] = Gateway
        BY LimitsAssumption
      <4> QED BY <4>1, <4>2
    <3> QED BY <1>2, <1>3, <3>1
  <2>2. Gateway \in Key
    BY LimitsAssumption
  <2> QED BY <2>1, <2>2 DEF TenantKey
<1>6. \A r \in Request : LimitKey[r]["tenant"] # NoKey => LimitKey[r]["tenant"] \in TenantKey
  BY <1>1, <1>2 DEF TenantKey
<1>7. TenantKey \subseteq Key /\ FixedKey \subseteq Key /\ TenantKey \cap FixedKey = {}
  BY DEF TenantKey, FixedKey
<1> QED BY <1>4, <1>5, <1>6, <1>7

\* What a limiter does not touch.
LEMMA WindowsKept ==
    ASSUME LimitsInv, UNCHANGED <<window, accepted, refusedAt, putBack>>
    PROVE  NoneAhead' /\ AcceptedCounted' /\ FixedWithinWindow' /\ TenantCounts' /\ RefusedSince'
<1>1. TenantCounts'
  BY TenantsKept DEF LimitsInv
<1> QED BY <1>1 DEF LimitsInv, NoneAhead, AcceptedCounted, FixedWithinWindow, RefusedSince, FixedKey, TenantKey

\* The type invariant again from its parts, for the steps that leave the
\* clock alone.
LEMMA TypedAgain ==
    ASSUME LimitsTypeOK, clock' = clock,
           stage' \in [Request -> StageName],
           read' \in [Request -> 0 .. clock],
           handshakes' \in 0 .. MaxHandshakes,
           window' \in [Key -> [start : 0 .. clock \cup {NoTime}, count : Nat]],
           accepted' \in [Key -> [0 .. MaxTime -> Nat]],
           refusedAt' \in [Key -> 0 .. clock \cup {NoTime}],
           putBack' \in [Key -> Nat]
    PROVE  LimitsTypeOK'
BY DEF LimitsTypeOK, StageName

LEMMA EnteringKeeps ==
    ASSUME LimitsInv, NEW r \in Request, NEW there \in StageName \ {"count global"},
           Enter(r, there), pc[r] = "held",
           UNCHANGED <<pc, clock, window, accepted, refusedAt, putBack>>,
           handshakes' \in 0 .. MaxHandshakes
    PROVE  LimitsInv'
<1>1. LimitsTypeOK /\ UnderPermit /\ NotBeyond
  BY DEF LimitsInv
<1>2. /\ stage' \in [Request -> StageName]
      /\ read' \in [Request -> 0 .. clock]
      /\ stage'[r] = there
      /\ \A q \in Request \ {r} : stage'[q] = stage[q] /\ read'[q] = read[q]
      /\ UnderPermit'
  BY <1>1, EnterKeeps
<1>3. LimitsTypeOK'
  <2>1. /\ window' \in [Key -> [start : 0 .. clock \cup {NoTime}, count : Nat]]
        /\ accepted' \in [Key -> [0 .. MaxTime -> Nat]]
        /\ refusedAt' \in [Key -> 0 .. clock \cup {NoTime}]
        /\ putBack' \in [Key -> Nat]
    BY <1>1, Typed
  <2> QED BY <1>1, <1>2, <2>1, TypedAgain
<1>4. NotBeyond'
  <2>1. GatewayStart' = GatewayStart
    BY DEF GatewayStart
  <2>2. GatewayStart \in Nat /\ GatewayStart <= GatewayStart
    BY <1>1, GatewayOpen
  <2>3. stage'[r] # "count global"
    BY <1>2
  <2> QED BY <1>1, <1>2, <2>1, <2>2, <2>3, BeyondKeeps
<1> QED BY <1>2, <1>3, <1>4, WindowsKept DEF LimitsInv

LEMMA AuthenticateKeeps ==
    ASSUME LimitsInv, NEW r \in Request, Authenticate(r) PROVE LimitsInv'
<1>1. "token" \in StageName \ {"count global"}
  BY DEF StageName, Check
<1>2. handshakes' \in 0 .. MaxHandshakes
  <2>1. handshakes \in 0 .. MaxHandshakes /\ MaxHandshakes \in Nat
    BY Typed, LimitsAssumption DEF LimitsInv
  <2>2. handshakes' = handshakes + 1 /\ handshakes < MaxHandshakes
    BY DEF Authenticate
  <2> QED BY <2>1, <2>2
<1> QED BY <1>1, <1>2, EnteringKeeps DEF Authenticate, vars

LEMMA PassUncountedKeeps ==
    ASSUME LimitsInv, NEW r \in Request, PassUncounted(r) PROVE LimitsInv'
<1>1. stage[r] \in Check \cup {"ingress"}
  BY DEF PassUncounted
<1>2. After[stage[r]] \in StageName \ {"count global"}
  BY <1>1, AfterStage
<1>3. pc[r] = "held"
  BY <1>1 DEF LimitsInv, UnderPermit, Check
<1>4. handshakes' \in 0 .. MaxHandshakes
  BY Typed DEF LimitsInv, PassUncounted
<1> QED BY <1>2, <1>3, <1>4, EnteringKeeps DEF PassUncounted, vars

LEMMA CountBucketKeeps ==
    ASSUME LimitsInv, NEW r \in Request, CountBucket(r) PROVE LimitsInv'
<1> DEFINE k == KeyAt(r)
           w == Found(r, k)
           ok == w.count < Limit[k]
           there == IF ok THEN After[stage[r]] ELSE "refused"
<1>1. /\ LimitsTypeOK /\ UnderPermit /\ NotBeyond
      /\ NoneAhead /\ AcceptedCounted /\ FixedWithinWindow /\ TenantCounts /\ RefusedSince
  BY DEF LimitsInv
<1>2. /\ stage[r] \in {"token", "ip", "user"}
      /\ k # NoKey
      /\ window' = [window EXCEPT ![k] = Counted(w)]
      /\ Observe(k, ok)
      /\ Enter(r, there)
      /\ pc' = pc /\ clock' = clock /\ handshakes' = handshakes /\ putBack' = putBack
  BY DEF CountBucket, vars
<1>3. k \in Key \ TenantKey
  <2>1. stage[r] \in Check \ {"tenant"}
    BY <1>2 DEF Check
  <2> QED BY <1>2, <2>1, FixedKeys DEF KeyAt
<1>4. w \in [start : 0 .. clock, count : Nat]
  BY <1>1, <1>3, FoundTyped
<1>5. NoneAhead' /\ AcceptedCounted' /\ FixedWithinWindow' /\ TenantCounts' /\ RefusedSince'
  <2>1. CASE k \notin FixedKey
    <3> HIDE DEF k, w, ok
    <3> QED BY <1>1, <1>2, <1>3, <2>1, UnlimitedKeeps
  <2>2. CASE k \in FixedKey
    <3>1. Follows(w, k)
      BY <1>1, <1>4, <2>2, FoundFollows
    <3> HIDE DEF k, w
    <3> QED BY <1>1, <1>2, <2>2, <3>1, CountingKeeps
  <2> QED BY <2>1, <2>2
<1> HIDE DEF k, w
<1>6. there \in StageName \ {"count global"} /\ pc[r] = "held"
  <2>1. stage[r] \in Check \cup {"ingress"} /\ stage[r] # "new"
    BY <1>2 DEF Check
  <2>2. After[stage[r]] \in StageName \ {"count global"}
    BY <2>1, AfterStage
  <2>3. "refused" \in StageName \ {"count global"}
    BY DEF StageName
  <2> QED BY <1>1, <2>1, <2>2, <2>3 DEF UnderPermit
<1> HIDE DEF there, ok
<1>7. /\ stage' \in [Request -> StageName]
      /\ read' \in [Request -> 0 .. clock]
      /\ stage'[r] = there
      /\ \A q \in Request \ {r} : stage'[q] = stage[q] /\ read'[q] = read[q]
      /\ UnderPermit'
  BY <1>1, <1>2, <1>6, EnterKeeps
<1>8. LimitsTypeOK'
  <2>1. ok \in BOOLEAN
    BY DEF ok
  <2>2. /\ window' \in [Key -> [start : 0 .. clock \cup {NoTime}, count : Nat]]
        /\ accepted' \in [Key -> [0 .. MaxTime -> Nat]]
        /\ refusedAt' \in [Key -> 0 .. clock \cup {NoTime}]
    BY <1>1, <1>2, <1>3, <1>4, <2>1, CountingTyped
  <2>3. handshakes' \in 0 .. MaxHandshakes /\ putBack' \in [Key -> Nat]
    BY <1>1, <1>2, Typed
  <2> QED BY <1>1, <1>2, <1>7, <2>2, <2>3, TypedAgain
<1>9. NotBeyond'
  <2>1. GatewayStart' = GatewayStart
    <3>1. k # Gateway
      <4>1. stage[r] \in Check /\ stage[r] # "global" /\ "global" \in Check
        BY <1>2 DEF Check
      <4>2. LimitKey[r]["global"] = Gateway
        BY LimitsAssumption
      <4>3. LimitKey[r][stage[r]] # NoKey
        BY <1>2 DEF k, KeyAt
      <4>4. LimitKey[r][stage[r]] # LimitKey[r]["global"]
        BY <4>1, <4>3, LimitsAssumption
      <4> QED BY <4>2, <4>4 DEF k, KeyAt
    <3>2. window \in [Key -> [start : 0 .. clock \cup {NoTime}, count : Nat]] /\ Gateway \in Key
      BY <1>1, Typed, LimitsAssumption
    <3> QED BY <1>2, <3>1, <3>2 DEF GatewayStart
  <2>2. GatewayStart \in Nat /\ GatewayStart <= GatewayStart
    BY <1>1, GatewayOpen
  <2>3. stage'[r] # "count global"
    BY <1>6, <1>7
  <2> QED BY <1>1, <1>7, <2>1, <2>2, <2>3, BeyondKeeps
<1> QED BY <1>5, <1>7, <1>8, <1>9 DEF LimitsInv

LEMMA RenewGlobalKeeps ==
    ASSUME LimitsInv, NEW r \in Request, RenewGlobal(r) PROVE LimitsInv'
<1> DEFINE w == Found(r, Gateway)
<1>1. /\ LimitsTypeOK /\ UnderPermit /\ NotBeyond
      /\ NoneAhead /\ AcceptedCounted /\ FixedWithinWindow /\ TenantCounts /\ RefusedSince
  BY DEF LimitsInv
<1>2. /\ stage[r] = "global"
      /\ window' = [window EXCEPT ![Gateway] = w]
      /\ refusedAt' = [refusedAt EXCEPT ![Gateway] =
                          IF window'[Gateway].start # window[Gateway].start THEN NoTime ELSE @]
      /\ stage' = [stage EXCEPT ![r] = "count global"]
      /\ pc' = pc /\ clock' = clock /\ read' = read
      /\ handshakes' = handshakes /\ accepted' = accepted /\ putBack' = putBack
  BY DEF RenewGlobal, vars
<1>3. /\ Gateway \in Key \ TenantKey /\ FixedKey \subseteq Key /\ TenantKey \subseteq Key
      /\ MaxTime \in Nat /\ NoTime \notin Nat
      /\ WindowSeconds[Gateway] \in Nat
  BY FixedKeys, LimitsAssumption
<1>4. /\ clock \in Nat /\ clock <= MaxTime
      /\ stage \in [Request -> StageName]
      /\ read \in [Request -> 0 .. clock]
      /\ window \in [Key -> [start : 0 .. clock \cup {NoTime}, count : Nat]]
      /\ handshakes \in 0 .. MaxHandshakes
      /\ accepted \in [Key -> [0 .. MaxTime -> Nat]]
      /\ refusedAt \in [Key -> 0 .. clock \cup {NoTime}]
      /\ putBack \in [Key -> Nat]
  BY <1>1, Typed DEF StageName
<1>5. /\ w \in [start : 0 .. clock, count : Nat]
      /\ Gateway \in FixedKey => /\ Follows(w, Gateway)
                                 /\ read[r] < w.start + WindowSeconds[Gateway]
  BY <1>1, <1>3, FoundTyped, FoundFollows, FoundWindow
<1>6. /\ w.start \in Nat /\ w.start <= clock /\ w.count \in Nat
      /\ read[r] \in Nat
  BY <1>1, <1>4, <1>5, ReadTyped
<1>7. GatewayStart \in Nat /\ GatewayStart # NoTime
  BY <1>1, GatewayOpen DEF NotBeyond
<1>8. Gateway \in FixedKey =>
         /\ GatewayStart <= w.start
         /\ w.start # GatewayStart => GatewayStart < w.start /\ w.count = 0
         /\ w.start = GatewayStart => w = window[Gateway]
  BY <1>5, <1>6, <1>7 DEF Follows, GatewayStart
<1> HIDE DEF w
<1>9. /\ window'[Gateway] = w /\ GatewayStart' = w.start
      /\ \A j \in Key \ {Gateway} : window'[j] = window[j] /\ refusedAt'[j] = refusedAt[j]
  BY <1>2, <1>3, <1>4 DEF GatewayStart
<1>10. refusedAt'[Gateway] = IF w.start # GatewayStart THEN NoTime ELSE refusedAt[Gateway]
  BY <1>2, <1>3, <1>4, <1>9 DEF GatewayStart
<1>11. LimitsTypeOK'
  <2>1. window' \in [Key -> [start : 0 .. clock \cup {NoTime}, count : Nat]]
    BY <1>2, <1>3, <1>4, <1>5
  <2>2. refusedAt' \in [Key -> 0 .. clock \cup {NoTime}]
    BY <1>2, <1>4
  <2>3. stage' \in [Request -> StageName]
    BY <1>2, <1>4 DEF StageName
  <2> QED BY <1>1, <1>2, <1>4, <2>1, <2>2, <2>3, TypedAgain
<1>12. UnderPermit'
  <2>1. stage[r] # "new" /\ pc[r] = "held"
    BY <1>1, <1>2 DEF UnderPermit
  <2> QED BY <1>1, <1>2, <1>4, <2>1 DEF UnderPermit
<1>13. NoneAhead'
  <2> SUFFICES ASSUME NEW j \in FixedKey, NEW t \in 0 .. MaxTime, accepted[j][t] # 0
               PROVE  window'[j].start # NoTime /\ t <= window'[j].start
    BY <1>2 DEF NoneAhead, FixedKey, TenantKey
  <2>1. window[j].start # NoTime /\ t <= window[j].start
    BY <1>1 DEF NoneAhead
  <2>2. CASE j # Gateway
    BY <1>3, <1>9, <2>1, <2>2
  <2>3. CASE j = Gateway
    <3>1. t <= GatewayStart /\ t \in Nat
      BY <1>3, <2>1, <2>3 DEF GatewayStart
    <3>2. t <= w.start
      BY <1>6, <1>7, <1>8, <2>3, <3>1
    <3>3. w.start # NoTime
      BY <1>3, <1>6
    <3> QED BY <1>9, <2>3, <3>2, <3>3
  <2> QED BY <2>2, <2>3
<1>14. AcceptedCounted'
  <2> SUFFICES ASSUME NEW j \in FixedKey, window'[j].start # NoTime
               PROVE  accepted[j][window'[j].start] <= window'[j].count
    BY <1>2 DEF AcceptedCounted, FixedKey, TenantKey
  <2>1. CASE j # Gateway
    BY <1>1, <1>3, <1>9, <2>1 DEF AcceptedCounted
  <2>2. CASE j = Gateway /\ w.start = GatewayStart
    BY <1>1, <1>7, <1>8, <1>9, <2>2 DEF AcceptedCounted, GatewayStart
  <2>3. CASE j = Gateway /\ w.start # GatewayStart
    <3>1. w.start \in 0 .. MaxTime
      BY <1>3, <1>4, <1>6
    <3>2. accepted[Gateway][w.start] # 0 => w.start <= GatewayStart
      BY <1>1, <1>3, <2>3, <3>1 DEF NoneAhead, GatewayStart
    <3>3. ~(w.start <= GatewayStart)
      BY <1>6, <1>7, <1>8, <2>3
    <3>4. accepted[Gateway][w.start] = 0 /\ w.count = 0
      BY <1>8, <2>3, <3>2, <3>3
    <3> QED BY <1>9, <2>3, <3>4
  <2> QED BY <2>1, <2>2, <2>3
<1>15. FixedWithinWindow'
  BY <1>1, <1>2 DEF FixedWithinWindow, FixedKey, TenantKey
<1>16. TenantCounts'
  <2>1. \A j \in TenantKey : window'[j] = window[j] /\ accepted'[j] = accepted[j]
    BY <1>2, <1>3, <1>9
  <2> QED BY <1>1, <1>2, <2>1, TenantsKept
<1>17. RefusedSince'
  <2> SUFFICES ASSUME NEW j \in FixedKey, refusedAt'[j] # NoTime
               PROVE  window'[j].start # NoTime /\ window'[j].start <= refusedAt'[j]
    BY DEF RefusedSince, FixedKey, TenantKey
  <2>1. CASE j # Gateway
    BY <1>1, <1>3, <1>9, <2>1 DEF RefusedSince
  <2>2. CASE j = Gateway
    BY <1>1, <1>7, <1>9, <1>10, <2>2 DEF RefusedSince, GatewayStart
  <2> QED BY <2>1, <2>2
<1>18. NotBeyond'
  <2>1. \A q \in Request \ {r} : stage'[q] = stage[q] /\ read'[q] = read[q]
    BY <1>2, <1>4
  <2>2. Gateway \in FixedKey => read'[r] < w.start + WindowSeconds[Gateway]
    BY <1>2, <1>5
  <2> QED BY <1>1, <1>6, <1>8, <1>9, <2>1, <2>2, BeyondKeeps
<1> QED BY <1>11, <1>12, <1>13, <1>14, <1>15, <1>16, <1>17,
          <1>18 DEF LimitsInv

LEMMA CountGlobalKeeps ==
    ASSUME LimitsInv, NEW r \in Request, CountGlobal(r) PROVE LimitsInv'
<1> DEFINE w == window[Gateway]
           ok == w.count < Limit[Gateway]
           there == IF ok THEN "ip" ELSE "refused"
<1>1. /\ LimitsTypeOK /\ UnderPermit /\ NotBeyond
      /\ NoneAhead /\ AcceptedCounted /\ FixedWithinWindow /\ TenantCounts /\ RefusedSince
  BY DEF LimitsInv
<1>2. /\ Gateway \in Key \ TenantKey
      /\ window \in [Key -> [start : 0 .. clock \cup {NoTime}, count : Nat]]
  BY <1>1, Typed, FixedKeys
<1>3. /\ stage[r] = "count global"
      /\ window' = [window EXCEPT ![Gateway] = Counted(w)]
      /\ Observe(Gateway, ok)
      /\ Enter(r, there)
      /\ pc' = pc /\ clock' = clock /\ handshakes' = handshakes /\ putBack' = putBack
  BY <1>2 DEF CountGlobal, vars
<1>4. Follows(w, Gateway)
  <2>1. w.start \in Nat /\ w.start <= clock /\ clock \in Nat
    BY <1>1, GatewayTyped DEF NotBeyond, GatewayStart
  <2> QED BY <1>2, <2>1 DEF Follows
<1>5. NoneAhead' /\ AcceptedCounted' /\ FixedWithinWindow' /\ TenantCounts' /\ RefusedSince'
  <2>1. CASE Gateway \in FixedKey
    BY <1>1, <1>3, <1>4, <2>1, CountingKeeps
  <2>2. CASE Gateway \notin FixedKey
    BY <1>1, <1>2, <1>3, <2>2, UnlimitedKeeps
  <2> QED BY <2>1, <2>2
<1>6. there \in StageName \ {"count global"} /\ pc[r] = "held"
  BY <1>1, <1>3 DEF UnderPermit, StageName, Check
<1> HIDE DEF there, ok, w
<1>7. /\ stage' \in [Request -> StageName]
      /\ read' \in [Request -> 0 .. clock]
      /\ stage'[r] = there
      /\ \A q \in Request \ {r} : stage'[q] = stage[q] /\ read'[q] = read[q]
      /\ UnderPermit'
  BY <1>1, <1>3, <1>6, EnterKeeps
<1>8. LimitsTypeOK'
  <2>1. w \in [start : 0 .. clock, count : Nat] /\ ok \in BOOLEAN
    BY <1>4 DEF Follows, ok
  <2>2. /\ window' \in [Key -> [start : 0 .. clock \cup {NoTime}, count : Nat]]
        /\ accepted' \in [Key -> [0 .. MaxTime -> Nat]]
        /\ refusedAt' \in [Key -> 0 .. clock \cup {NoTime}]
    BY <1>1, <1>2, <1>3, <2>1, CountingTyped
  <2>3. handshakes' \in 0 .. MaxHandshakes /\ putBack' \in [Key -> Nat]
    BY <1>1, <1>3, Typed
  <2> QED BY <1>1, <1>3, <1>7, <2>2, <2>3, TypedAgain
<1>9. NotBeyond'
  <2>1. GatewayStart' = GatewayStart
    BY <1>2, <1>3 DEF GatewayStart, Counted, w
  <2>2. GatewayStart \in Nat /\ GatewayStart <= GatewayStart
    BY <1>1, GatewayOpen
  <2>3. stage'[r] # "count global"
    BY <1>6, <1>7
  <2> QED BY <1>1, <1>7, <2>1, <2>2, <2>3, BeyondKeeps
<1> QED BY <1>5, <1>7, <1>8, <1>9 DEF LimitsInv

LEMMA OneFillingMore ==
    \A p, l \in Nat : p * l \in Nat /\ (p + 1) * l = p * l + l
OBVIOUS

\* Counting for a tenant, in the window it has or in an empty one that
\* replaces it: a later one comes after everybody accepted so far, and an
\* earlier one is allowed for by the filling it adds.
LEMMA TenantCounted ==
    ASSUME LimitsTypeOK, TenantCounts, NEW k \in TenantKey, NEW w,
           w \in [start : 0 .. clock, count : Nat],
           IF w.start = window[k].start THEN w = window[k] ELSE w.count = 0,
           window' = [window EXCEPT ![k] = IF w.count < Limit[k] THEN Counted(w) ELSE w],
           Observe(k, w.count < Limit[k]),
           putBack' = [putBack EXCEPT ![k] =
              IF window[k].start # NoTime /\ w.start < window[k].start THEN @ + 1 ELSE @]
    PROVE  TenantCounts'
<1> DEFINE ok == w.count < Limit[k]
           count == IF ok THEN w.count + 1 ELSE w.count
<1>0. k \in Key /\ TenantKey \subseteq Key
  BY FixedKeys
<1>1. /\ clock \in Nat /\ clock <= MaxTime /\ MaxTime \in Nat /\ NoTime \notin Nat
      /\ window \in [Key -> [start : 0 .. clock \cup {NoTime}, count : Nat]]
      /\ accepted \in [Key -> [0 .. MaxTime -> Nat]]
      /\ putBack \in [Key -> Nat]
      /\ Limit[k] \in Nat
  BY <1>0, Typed, LimitsAssumption
<1>2. /\ w.start \in Nat /\ w.start \in 0 .. MaxTime /\ w.count \in Nat
      /\ w.start # NoTime
  BY <1>0, <1>1
<1>3. /\ window'[k].start = w.start /\ window'[k].count = count
      /\ \A j \in Key \ {k} : window'[j] = window[j] /\ putBack'[j] = putBack[j]
  BY <1>0, <1>1 DEF Counted
<1>4. /\ \A j \in Key \ {k} : accepted'[j] = accepted[j]
      /\ \A t \in 0 .. MaxTime \ {w.start} : accepted'[k][t] = accepted[k][t]
      /\ accepted'[k][w.start] = IF ok THEN accepted[k][w.start] + 1 ELSE accepted[k][w.start]
  BY <1>0, <1>1, <1>2, <1>3 DEF Observe
<1>5. window[k].count <= Limit[k] /\ window[k].count \in Nat
  BY <1>0, <1>1 DEF TenantCounts
<1>6. count \in Nat /\ count <= Limit[k]
  BY <1>0, <1>1, <1>2, <1>5
<1>7. ASSUME NEW t \in 0 .. MaxTime
      PROVE  accepted'[k][t] <= putBack'[k] * Limit[k] + Share(k, t)'
  <2> DEFINE full == putBack[k] * Limit[k]
             start == window[k].start
             a == accepted[k][t]
  <2>1. a <= full + Share(k, t) /\ a \in Nat /\ full \in Nat /\ t \in Nat
    BY <1>0, <1>1, OneFillingMore DEF TenantCounts
  <2>2. /\ t < w.start => Share(k, t)' = Limit[k]
        /\ t = w.start => Share(k, t)' = count
        /\ w.start < t => Share(k, t)' = 0
    BY <1>2, <1>3, <2>1 DEF Share
  <2>3. /\ start = NoTime => Share(k, t) = 0
        /\ start # NoTime /\ t < start => Share(k, t) = Limit[k]
        /\ start # NoTime /\ t = start => Share(k, t) = window[k].count
        /\ start # NoTime /\ start < t => Share(k, t) = 0
        /\ start # NoTime => start \in Nat
    <3>1. start # NoTime => start \in Nat
      BY <1>0, <1>1
    <3> QED BY <2>1, <3>1 DEF Share
  <2>4. accepted'[k][t] = IF t = w.start /\ ok THEN a + 1 ELSE a
    BY <1>4
  <2> HIDE DEF count, ok, a, full, start
  <2>5. Share(k, t) \in Nat /\ Share(k, t) <= Limit[k]
    <3>1. CASE start = NoTime
      BY <1>0, <1>1, <2>3, <3>1
    <3>2. CASE start # NoTime
      <4>1. t < start \/ t = start \/ start < t
        BY <2>1, <2>3, <3>2
      <4> QED BY <1>0, <1>1, <1>5, <2>3, <3>2, <4>1
    <3> QED BY <3>1, <3>2
  <2>6. CASE start # NoTime /\ w.start < start
    <3>1. putBack'[k] * Limit[k] = full + Limit[k]
      <4>1. putBack'[k] = putBack[k] + 1 /\ putBack[k] \in Nat
        BY <1>0, <1>1, <2>6 DEF start
      <4> QED BY <1>0, <1>1, <4>1, OneFillingMore DEF full
    <3>2. a <= full + Limit[k]
      BY <1>0, <1>1, <2>1, <2>5
    <3>3. CASE t = w.start
      <4>1. w.count = 0
        BY <1>2, <2>3, <2>6 DEF start
      <4>2. accepted'[k][t] = a + count
        BY <2>1, <2>4, <3>3, <4>1 DEF count
      <4>3. Share(k, t)' = count
        BY <2>2, <3>3
      <4> QED BY <1>0, <1>1, <1>6, <2>1, <3>1, <3>2, <4>2, <4>3
    <3>4. CASE t # w.start
      <4>1. accepted'[k][t] = a
        BY <2>4, <3>4
      <4>2. Share(k, t)' = Limit[k] \/ Share(k, t)' = 0
        BY <1>2, <2>1, <2>2, <3>4
      <4> QED BY <1>0, <1>1, <2>1, <3>1, <3>2, <4>1, <4>2
    <3> QED BY <3>3, <3>4
  <2>7. CASE ~(start # NoTime /\ w.start < start)
    <3>1. putBack'[k] * Limit[k] = full
      <4>1. putBack'[k] = putBack[k]
        BY <1>0, <1>1, <2>7 DEF start
      <4> QED BY <4>1 DEF full
    <3>2. CASE t = w.start
      <4>1. a <= full + w.count
        BY <1>0, <1>1, <1>2, <2>1, <2>3, <2>7, <3>2 DEF start
      <4>2. accepted'[k][t] = IF ok THEN a + 1 ELSE a
        BY <2>4, <3>2
      <4>3. Share(k, t)' = count
        BY <2>2, <3>2
      <4> QED BY <1>2, <2>1, <3>1, <4>1, <4>2, <4>3 DEF count
    <3>3. CASE t < w.start
      <4>1. Share(k, t)' = Limit[k]
        BY <2>2, <3>3
      <4>2. accepted'[k][t] = a
        BY <1>2, <2>1, <2>4, <3>3
      <4> QED BY <1>0, <1>1, <2>1, <2>5, <3>1, <4>1, <4>2
    <3>4. CASE w.start < t
      <4>1. Share(k, t) = 0
        BY <1>2, <2>1, <2>3, <2>7, <3>4
      <4> QED BY <1>2, <2>1, <2>2, <2>4, <3>1, <3>4, <4>1
    <3> QED BY <1>2, <2>1, <3>2, <3>3, <3>4
  <2> QED BY <2>6, <2>7
<1>8. ASSUME NEW j \in TenantKey
      PROVE  /\ window'[j].count <= Limit[j]
             /\ \A t \in 0 .. MaxTime :
                   accepted'[j][t] <= putBack'[j] * Limit[j] + Share(j, t)'
  <2>1. CASE j = k
    BY <1>3, <1>6, <1>7, <2>1
  <2>2. CASE j # k
    <3>1. window'[j] = window[j] /\ putBack'[j] = putBack[j] /\ accepted'[j] = accepted[j]
      BY <1>0, <1>3, <1>4, <2>2
    <3>2. \A t \in 0 .. MaxTime : Share(j, t)' = Share(j, t)
      BY <3>1 DEF Share
    <3> QED BY <3>1, <3>2 DEF TenantCounts
  <2> QED BY <2>1, <2>2
<1> QED BY <1>8 DEF TenantCounts, FixedKey, TenantKey

LEMMA CountTenantKeeps ==
    ASSUME LimitsInv, NEW r \in Request, CountTenant(r) PROVE LimitsInv'
<1> DEFINE k == KeyAt(r)
           w == FoundAligned(r, k)
           ok == w.count < Limit[k]
           there == IF ok THEN "session" ELSE "refused"
<1>1. /\ LimitsTypeOK /\ UnderPermit /\ NotBeyond
      /\ NoneAhead /\ AcceptedCounted /\ FixedWithinWindow /\ TenantCounts /\ RefusedSince
  BY DEF LimitsInv
<1>2. /\ stage[r] = "tenant"
      /\ k # NoKey
      /\ window' = [window EXCEPT ![k] = IF ok THEN Counted(w) ELSE w]
      /\ Observe(k, ok)
      /\ putBack' = [putBack EXCEPT ![k] =
             IF window[k].start # NoTime /\ w.start < window[k].start THEN @ + 1 ELSE @]
      /\ Enter(r, there)
      /\ pc' = pc /\ clock' = clock /\ handshakes' = handshakes
  BY DEF CountTenant, vars
<1>3. k \in TenantKey /\ k \in Key /\ k \notin FixedKey /\ FixedKey \subseteq Key
  <2>1. k = LimitKey[r]["tenant"]
    BY <1>2 DEF KeyAt
  <2> QED BY <1>2, <2>1, FixedKeys
<1>4. /\ window \in [Key -> [start : 0 .. clock \cup {NoTime}, count : Nat]]
      /\ accepted \in [Key -> [0 .. MaxTime -> Nat]]
      /\ refusedAt \in [Key -> 0 .. clock \cup {NoTime}]
      /\ clock \in Nat
      /\ putBack \in [Key -> Nat]
  BY <1>1, Typed
<1>5. w \in [start : 0 .. clock, count : Nat]
  <2>1. read[r] \in Nat /\ read[r] <= clock /\ TenantSeconds(k) \in Nat \ {0}
    <3>1. WindowSeconds[k] \in Nat
      BY <1>3, LimitsAssumption
    <3> QED BY <1>1, <3>1, ReadTyped DEF TenantSeconds
  <2>2. Aligned(k, read[r]) \in 0 .. read[r]
    BY <2>1, AlignedNotAfter DEF Aligned
  <2>3. Aligned(k, read[r]) \in 0 .. clock
    BY <1>4, <2>1, <2>2
  <2>4. CASE window[k].start # Aligned(k, read[r])
    BY <2>3, <2>4 DEF FoundAligned, Opened
  <2>5. CASE window[k].start = Aligned(k, read[r])
    <3>1. window[k] \in [start : 0 .. clock \cup {NoTime}, count : Nat]
      BY <1>3, <1>4
    <3>2. window[k] \in [start : 0 .. clock, count : Nat]
      BY <2>3, <2>5, <3>1
    <3> QED BY <2>5, <3>2 DEF FoundAligned
  <2> QED BY <2>4, <2>5
<1>6. IF w.start = window[k].start THEN w = window[k] ELSE w.count = 0
  <2>1. w = window[k] \/ w = [start |-> Aligned(k, read[r]), count |-> 0]
    BY DEF FoundAligned, Opened
  <2>2. w = window[k] \/ w.start # window[k].start
    BY DEF FoundAligned, Opened
  <2> HIDE DEF w, k
  <2> QED BY <2>1, <2>2
<1>7. there \in StageName \ {"count global"} /\ pc[r] = "held"
  BY <1>1, <1>2 DEF UnderPermit, StageName, Check
<1> HIDE DEF there, ok, w, k
<1>8. /\ stage' \in [Request -> StageName]
      /\ read' \in [Request -> 0 .. clock]
      /\ stage'[r] = there
      /\ \A q \in Request \ {r} : stage'[q] = stage[q] /\ read'[q] = read[q]
      /\ UnderPermit'
  BY <1>1, <1>2, <1>7, EnterKeeps
<1>9. LimitsTypeOK'
  <2>1. ok \in BOOLEAN
    BY DEF ok
  <2>2. \/ window' = [window EXCEPT ![k] = Counted(w)]
        \/ window' = [window EXCEPT ![k] = w]
    BY <1>2
  <2>3. /\ window' \in [Key -> [start : 0 .. clock \cup {NoTime}, count : Nat]]
        /\ accepted' \in [Key -> [0 .. MaxTime -> Nat]]
        /\ refusedAt' \in [Key -> 0 .. clock \cup {NoTime}]
    BY <1>1, <1>2, <1>3, <1>5, <2>1, <2>2, CountingTyped
  <2>4. handshakes' \in 0 .. MaxHandshakes
    BY <1>1, <1>2, Typed
  <2>5. putBack' \in [Key -> Nat]
    <3>1. putBack[k] \in Nat /\ putBack[k] + 1 \in Nat
      BY <1>3, <1>4
    <3>2. putBack' = [putBack EXCEPT ![k] = putBack[k] + 1] \/ putBack' = putBack
      BY <1>2, <1>4
    <3> QED BY <1>4, <3>1, <3>2
  <2> QED BY <1>1, <1>2, <1>8, <2>3, <2>4, <2>5, TypedAgain
<1>10. \A j \in FixedKey :
         window'[j] = window[j] /\ accepted'[j] = accepted[j] /\ refusedAt'[j] = refusedAt[j]
  BY <1>2, <1>3, <1>4 DEF Observe
<1>11. TenantCounts'
  BY <1>1, <1>2, <1>3, <1>5, <1>6, TenantCounted DEF ok
<1>12. NoneAhead' /\ AcceptedCounted' /\ FixedWithinWindow' /\ RefusedSince'
  BY <1>1, <1>10, FixedKept
<1>13. NotBeyond'
  <2>1. GatewayStart' = GatewayStart
    BY <1>2, <1>3, <1>4, FixedKeys DEF GatewayStart
  <2>2. GatewayStart \in Nat /\ GatewayStart <= GatewayStart
    BY <1>1, GatewayOpen
  <2>3. stage'[r] # "count global"
    BY <1>7, <1>8
  <2> QED BY <1>1, <1>8, <2>1, <2>2, <2>3, BeyondKeeps
<1> QED BY <1>8, <1>9, <1>11, <1>12, <1>13 DEF LimitsInv

LEMMA ReleaseKeeps ==
    ASSUME Shape, LimitsInv, NEW r \in Request, Release(r) PROVE LimitsInv'
<1>1. LimitsTypeOK /\ UnderPermit /\ NotBeyond
  BY DEF LimitsInv
<1>2. /\ stage' = [stage EXCEPT ![r] = "new"]
      /\ pc' = [pc EXCEPT ![r] = "drop family"]
      /\ UNCHANGED <<clock, read, window, handshakes, accepted, refusedAt, putBack>>
  BY DEF Release, DropRegion, Goto
<1>3. stage \in [Request -> StageName] /\ pc \in [Request -> Location]
  BY <1>1, Typed DEF StageName, Shape
<1>4. LimitsTypeOK'
  <2>1. stage' \in [Request -> StageName]
    BY <1>2, <1>3 DEF StageName
  <2> QED BY <1>1, <1>2, <2>1, Typed, TypedAgain
<1>5. UnderPermit'
  BY <1>1, <1>2, <1>3 DEF UnderPermit
<1>6. NotBeyond'
  <2>1. GatewayStart' = GatewayStart
    BY <1>2 DEF GatewayStart
  <2>2. GatewayStart \in Nat /\ GatewayStart <= GatewayStart
    BY <1>1, GatewayOpen
  <2>3. /\ stage'[r] # "count global"
        /\ \A q \in Request \ {r} : stage'[q] = stage[q] /\ read'[q] = read[q]
    BY <1>2, <1>3
  <2> QED BY <1>1, <2>1, <2>2, <2>3, BeyondKeeps
<1> QED BY <1>2, <1>4, <1>5, <1>6, WindowsKept DEF LimitsInv

\* The windows and the stages stay; only the permits may move.
LEMMA LimitsUntouched ==
    ASSUME LimitsInv, UNCHANGED limitVars, UnderPermit' PROVE LimitsInv'
<1>1. UNCHANGED <<clock, stage, read, window, handshakes, accepted, refusedAt, putBack>>
  BY DEF limitVars
<1>2. LimitsTypeOK'
  BY <1>1 DEF LimitsInv, LimitsTypeOK
<1>3. NotBeyond'
  BY <1>1 DEF LimitsInv, NotBeyond, GatewayStart, FixedKey, TenantKey
<1> QED BY <1>1, <1>2, <1>3, WindowsKept DEF LimitsInv

LEMMA AdmissionKeeps ==
    ASSUME Shape, LimitsInv, NEW r \in Request, Admission(r) PROVE LimitsInv'
<1>1. pc \in [Request -> Location] /\ pc[r] # "held"
  BY DEF Shape, Admission, EnterRegion, EnterFamily, LeaveFamily, LeaveRegion, DropFamily
<1>2. /\ \A q \in Request \ {r} : pc'[q] = pc[q]
      /\ stage' = stage
  BY <1>1 DEF Admission, EnterRegion, EnterFamily, LeaveFamily, LeaveRegion, DropFamily, Goto,
              limitVars
<1>3. UnderPermit'
  BY <1>1, <1>2 DEF LimitsInv, UnderPermit
<1> QED BY <1>3, LimitsUntouched DEF Admission

LEMMA TickKeeps ==
    ASSUME LimitsInv, Tick PROVE LimitsInv'
<1>1. LimitsTypeOK /\ UnderPermit /\ NotBeyond
  BY DEF LimitsInv
<1>2. /\ clock < MaxTime /\ clock' = clock + 1
      /\ UNCHANGED <<pc, stage, read, window, handshakes, accepted, refusedAt, putBack>>
  BY DEF Tick, vars
<1>3. clock \in Nat /\ MaxTime \in Nat
  BY <1>1, Typed, LimitsAssumption
<1>4. clock' \in 0 .. MaxTime /\ 0 .. clock \subseteq 0 .. clock'
  BY <1>2, <1>3
<1>5. LimitsTypeOK'
  <2>1. read' \in [Request -> 0 .. clock']
    <3>1. read \in [Request -> 0 .. clock]
      BY <1>1, Typed
    <3> QED BY <1>2, <1>4, <3>1
  <2>2. window' \in [Key -> [start : 0 .. clock' \cup {NoTime}, count : Nat]]
    <3>1. window \in [Key -> [start : 0 .. clock \cup {NoTime}, count : Nat]]
      BY <1>1, Typed
    <3>2. [start : 0 .. clock \cup {NoTime}, count : Nat]
             \subseteq [start : 0 .. clock' \cup {NoTime}, count : Nat]
      BY <1>4
    <3> QED BY <1>2, <3>1, <3>2
  <2>3. refusedAt' \in [Key -> 0 .. clock' \cup {NoTime}]
    <3>1. refusedAt \in [Key -> 0 .. clock \cup {NoTime}]
      BY <1>1, Typed
    <3> QED BY <1>2, <1>4, <3>1
  <2> QED BY <1>1, <1>2, <1>4, <2>1, <2>2, <2>3 DEF LimitsTypeOK
<1>6. UnderPermit'
  BY <1>1, <1>2 DEF UnderPermit
<1>7. NotBeyond'
  BY <1>1, <1>2 DEF NotBeyond, GatewayStart, FixedKey, TenantKey
<1> QED BY <1>2, <1>5, <1>6, <1>7, WindowsKept DEF LimitsInv

LEMMA LimitsInit == HandshakeInit => LimitsInv
<1> SUFFICES ASSUME HandshakeInit PROVE LimitsInv
  OBVIOUS
<1>1. /\ clock = 0 /\ handshakes = 0
      /\ stage = [r \in Request |-> "new"]
      /\ read = [r \in Request |-> 0]
      /\ window = [k \in Key |-> [start |-> IF k = Gateway THEN 0 ELSE NoTime, count |-> 0]]
      /\ accepted = [k \in Key |-> [t \in 0 .. MaxTime |-> 0]]
      /\ refusedAt = [k \in Key |-> NoTime]
      /\ putBack = [k \in Key |-> 0]
  BY DEF HandshakeInit
<1>2. /\ MaxTime \in Nat /\ MaxHandshakes \in Nat /\ NoTime \notin Nat
      /\ Gateway \in Key /\ FixedKey \subseteq Key
      /\ \A k \in Key : Limit[k] \in Nat
  BY LimitsAssumption DEF FixedKey, TenantKey
<1>3. LimitsTypeOK
  <2>1. window \in [Key -> [start : 0 .. clock \cup {NoTime}, count : Nat]]
    BY <1>1
  <2>2. accepted \in [Key -> [0 .. MaxTime -> Nat]]
    BY <1>1
  <2>3. /\ clock \in 0 .. MaxTime /\ handshakes \in 0 .. MaxHandshakes
        /\ read \in [Request -> 0 .. clock]
    BY <1>1, <1>2
  <2>4. refusedAt \in [Key -> 0 .. clock \cup {NoTime}]
    BY <1>1
  <2>5. stage \in [Request -> {"new", "ingress", "count global", "session", "refused"} \cup Check]
    BY <1>1
  <2>6. putBack \in [Key -> Nat]
    BY <1>1
  <2> QED BY <2>1, <2>2, <2>3, <2>4, <2>5, <2>6 DEF LimitsTypeOK
<1>4. \A k \in FixedKey : /\ \A t \in 0 .. MaxTime : accepted[k][t] = 0
                          /\ window[k].count = 0
                          /\ window[k].start \in {0, NoTime}
                          /\ refusedAt[k] = NoTime
  BY <1>1, <1>2
<1>5. UnderPermit
  BY <1>1 DEF UnderPermit
<1>6. NoneAhead
  BY <1>4 DEF NoneAhead
<1>7. AcceptedCounted
  <2> SUFFICES ASSUME NEW k \in FixedKey, window[k].start # NoTime
               PROVE  accepted[k][window[k].start] <= window[k].count
    BY DEF AcceptedCounted
  <2>1. window[k].start = 0 /\ 0 \in 0 .. MaxTime
    BY <1>2, <1>4
  <2>2. accepted[k][0] = 0 /\ window[k].count = 0
    BY <1>4, <2>1
  <2> QED BY <2>1, <2>2
<1>8. FixedWithinWindow
  <2> SUFFICES ASSUME NEW k \in FixedKey, NEW t \in 0 .. MaxTime
               PROVE  accepted[k][t] <= Limit[k]
    BY DEF FixedWithinWindow
  <2>1. accepted[k][t] = 0 /\ Limit[k] \in Nat
    BY <1>2, <1>4
  <2> QED BY <2>1
<1>9. RefusedSince
  BY <1>4 DEF RefusedSince
<1>10. NotBeyond
  <2>1. GatewayStart = 0
    BY <1>1, <1>2 DEF GatewayStart
  <2> QED BY <1>1, <1>2, <2>1 DEF NotBeyond
<1>11. TenantCounts
  <2> SUFFICES ASSUME NEW k \in TenantKey
               PROVE  /\ window[k].count <= Limit[k]
                      /\ \A t \in 0 .. MaxTime :
                            accepted[k][t] <= putBack[k] * Limit[k] + Share(k, t)
    BY DEF TenantCounts
  <2>1. k \in Key /\ k # Gateway /\ Limit[k] \in Nat
    BY <1>2, FixedKeys
  <2>2. /\ window[k].start = NoTime /\ window[k].count = 0
        /\ putBack[k] = 0 /\ \A t \in 0 .. MaxTime : accepted[k][t] = 0
    BY <1>1, <2>1
  <2>3. \A t \in 0 .. MaxTime : Share(k, t) = 0
    BY <2>2 DEF Share
  <2>4. 0 * Limit[k] = 0
    BY <2>1
  <2> QED BY <2>1, <2>2, <2>3, <2>4
<1> QED BY <1>3, <1>5, <1>6, <1>7, <1>8, <1>9, <1>10, <1>11 DEF LimitsInv

LEMMA LimitsNext == Shape /\ LimitsInv /\ [HandshakeNext]_handshakeVars => LimitsInv'
<1> SUFFICES ASSUME Shape, LimitsInv, [HandshakeNext]_handshakeVars PROVE LimitsInv'
  OBVIOUS
<1>1. CASE Tick
  BY <1>1, TickKeeps
<1>2. ASSUME NEW r \in Request, Handshake(r) PROVE LimitsInv'
  BY <1>2, AdmissionKeeps, AuthenticateKeeps, PassUncountedKeeps, CountBucketKeeps,
     RenewGlobalKeeps, CountGlobalKeeps, CountTenantKeeps, ReleaseKeeps DEF Handshake
<1>3. CASE UNCHANGED handshakeVars
  <2>1. UNCHANGED limitVars /\ UnderPermit'
    BY <1>3 DEF handshakeVars, limitVars, vars, LimitsInv, UnderPermit
  <2> QED BY <2>1, LimitsUntouched
<1> QED BY <1>1, <1>2, <1>3 DEF HandshakeNext

\* The invariant of the limits, on top of the admission controller's.
THEOREM LimitsInvariant == HandshakeSpec => []LimitsInv
<1>1. AdmissionInv => Shape
  BY DEF AdmissionInv
<1>2. HandshakeSpec => []AdmissionInv
  BY HandshakeImplementsAdmission, AdmissionInvariant, PTL
<1> QED BY <1>1, <1>2, LimitsInit, LimitsNext, PTL DEF HandshakeSpec

\* Every variable keeps its type, and no caller and no window knows a time
\* that has not come.
THEOREM LimitsTypeCorrect == HandshakeSpec => []LimitsTypeOK
<1>1. LimitsInv => LimitsTypeOK
  BY DEF LimitsInv
<1> QED BY <1>1, LimitsInvariant, PTL

\* What a window of a tenant adds is one filling at most.
LEMMA ShareBounded ==
    ASSUME LimitsInv, NEW k \in TenantKey, NEW t \in 0 .. MaxTime
    PROVE  /\ accepted[k][t] <= putBack[k] * Limit[k] + Share(k, t)
           /\ Share(k, t) \in Nat /\ Share(k, t) <= Limit[k]
           /\ accepted[k][t] \in Nat /\ putBack[k] \in Nat /\ Limit[k] \in Nat
<1>1. /\ window[k].count <= Limit[k]
      /\ accepted[k][t] <= putBack[k] * Limit[k] + Share(k, t)
  BY DEF LimitsInv, TenantCounts
<1>2. /\ window[k] \in [start : 0 .. clock \cup {NoTime}, count : Nat] /\ clock \in Nat
      /\ accepted[k][t] \in Nat /\ putBack[k] \in Nat /\ Limit[k] \in Nat
      /\ MaxTime \in Nat
  <2>1. LimitsTypeOK /\ k \in Key
    BY DEF LimitsInv, TenantKey
  <2>2. /\ window \in [Key -> [start : 0 .. clock \cup {NoTime}, count : Nat]]
        /\ accepted \in [Key -> [0 .. MaxTime -> Nat]]
        /\ putBack \in [Key -> Nat] /\ clock \in Nat
    BY <2>1, Typed
  <2> QED BY <2>1, <2>2, LimitsAssumption
<1>3. Share(k, t) \in Nat /\ Share(k, t) <= Limit[k]
  <2>1. window[k].count \in Nat /\ t \in Nat
    BY <1>2
  <2>2. CASE window[k].start = NoTime
    BY <1>2, <2>2 DEF Share
  <2>3. CASE window[k].start # NoTime
    <3>1. window[k].start \in Nat
      BY <1>2, <2>3
    <3>2. t < window[k].start \/ t = window[k].start \/ window[k].start < t
      BY <2>1, <3>1
    <3> QED BY <1>1, <1>2, <2>1, <2>3, <3>1, <3>2 DEF Share
  <2> QED BY <2>2, <2>3
<1> QED BY <1>1, <1>2, <1>3

\* No window of a token, the gateway, an address or a user accepts more than
\* its limit, whatever the order in which late callers get the locks, and no
\* window of a tenant does before a late caller has put an older one back.
THEOREM WindowsNeverOverfull == HandshakeSpec => []AcceptedWithinWindow
<1>1. LimitsInv => AcceptedWithinWindow
  <2> SUFFICES ASSUME LimitsInv PROVE AcceptedWithinWindow
    OBVIOUS
  <2>1. \A k \in FixedKey : \A t \in 0 .. MaxTime : accepted[k][t] <= Limit[k]
    BY DEF LimitsInv, FixedWithinWindow
  <2>2. ASSUME NEW k \in TenantKey, NEW t \in 0 .. MaxTime, putBack[k] = 0
        PROVE  accepted[k][t] <= Limit[k]
    <3>1. putBack[k] * Limit[k] = 0
      BY <2>2, ShareBounded
    <3> QED BY <3>1, ShareBounded
  <2> QED BY <2>1, <2>2 DEF AcceptedWithinWindow
<1> QED BY <1>1, LimitsInvariant, PTL

\* A tenant's limit and its windows put back.
TenantExcess ==
    \A k \in TenantKey : \A t \in 0 .. MaxTime : accepted[k][t] <= (putBack[k] + 1) * Limit[k]

\* How far the tenant's counter can miss its limit: every window that a late
\* caller puts back lets a window be filled once more, and nothing else does.
THEOREM TenantExcessBounded == HandshakeSpec => []TenantExcess
<1>1. LimitsInv => TenantExcess
  <2> SUFFICES ASSUME LimitsInv, NEW k \in TenantKey, NEW t \in 0 .. MaxTime
               PROVE  accepted[k][t] <= (putBack[k] + 1) * Limit[k]
    BY DEF TenantExcess
  <2>1. /\ accepted[k][t] <= putBack[k] * Limit[k] + Share(k, t)
        /\ Share(k, t) \in Nat /\ Share(k, t) <= Limit[k]
        /\ accepted[k][t] \in Nat /\ putBack[k] \in Nat /\ Limit[k] \in Nat
    BY ShareBounded
  <2>2. putBack[k] * Limit[k] \in Nat
        /\ (putBack[k] + 1) * Limit[k] = putBack[k] * Limit[k] + Limit[k]
    BY <2>1, OneFillingMore
  <2> QED BY <2>1, <2>2
<1> QED BY <1>1, LimitsInvariant, PTL

\* No region and no family ever has more sessions open than its limit: a
\* session lasts no longer than the permit it was admitted with.
THEOREM SessionsBounded == HandshakeSpec => []SessionsWithinLimits
<1>1. PermitsWithinLimits /\ LimitsInv => SessionsWithinLimits
  <2> SUFFICES ASSUME PermitsWithinLimits, LimitsInv PROVE SessionsWithinLimits
    OBVIOUS
  <2>1. \A r \in Request : stage[r] = "session" => pc[r] = "held"
    BY DEF LimitsInv, UnderPermit
  <2>2. ASSUME NEW S \in SUBSET Request, NEW T \in SUBSET S
        PROVE  /\ Cardinality(S) \in Nat /\ Cardinality(T) \in Nat
               /\ Cardinality(T) <= Cardinality(S)
    BY AdmissionAssumption, FS_Subset, FS_CardinalityType
  <2>3. ASSUME NEW k \in Region
        PROVE  Cardinality({r \in Request : RegionOf[r] = k /\ stage[r] = "session"}) <= MaxRegion
    <3> DEFINE S == {r \in Request : RegionOf[r] = k /\ pc[r] = "held"}
               T == {r \in Request : RegionOf[r] = k /\ stage[r] = "session"}
    <3>1. S \in SUBSET Request /\ T \in SUBSET S
      BY <2>1
    <3>2. Cardinality(S) <= MaxRegion
      BY DEF PermitsWithinLimits
    <3> HIDE DEF S, T
    <3>3. Cardinality(T) <= MaxRegion
      BY <2>2, <3>1, <3>2, AdmissionAssumption
    <3> QED BY <3>3 DEF T
  <2>4. ASSUME NEW k \in Family
        PROVE  Cardinality({r \in Request : FamilyOf[r] = k /\ stage[r] = "session"}) <= MaxFamily
    <3> DEFINE S == {r \in Request : FamilyOf[r] = k /\ pc[r] = "held"}
               T == {r \in Request : FamilyOf[r] = k /\ stage[r] = "session"}
    <3>1. S \in SUBSET Request /\ T \in SUBSET S
      BY <2>1
    <3>2. Cardinality(S) <= MaxFamily
      BY DEF PermitsWithinLimits
    <3> HIDE DEF S, T
    <3>3. Cardinality(T) <= MaxFamily
      BY <2>2, <3>1, <3>2, AdmissionAssumption
    <3> QED BY <3>3 DEF T
  <2> QED BY <2>3, <2>4 DEF SessionsWithinLimits
<1> QED BY <1>1, LimitsInvariant, HandshakeImplementsAdmission, AdmissionBounded, PTL

-----------------------------------------------------------------------------
(* Retry-After.                                                            *)

LEMMA CountedStart ==
    ASSUME NEW w, NEW v, v = Counted(w) PROVE v.start = w.start
BY DEF Counted

\* Who is refused in a window has read a time before its end; it was open
\* when it first refused somebody.
LEMMA RefusedInTime ==
    ASSUME LimitsInv, NEW r \in Request, NEW k \in FixedKey,
           refusedAt[k] # NoTime,
           read[r] < window[k].start + WindowSeconds[k]
    PROVE  read[r] < refusedAt[k] + WindowSeconds[k]
<1>1. LimitsTypeOK /\ RefusedSince
  BY DEF LimitsInv
<1>2. k \in Key /\ NoTime \notin Nat /\ WindowSeconds[k] \in Nat
  BY LimitsAssumption DEF FixedKey, TenantKey
<1>3. window[k].start # NoTime /\ window[k].start <= refusedAt[k]
  BY <1>1 DEF RefusedSince
<1>4. clock \in Nat /\ window[k] \in [start : 0 .. clock \cup {NoTime}, count : Nat]
                     /\ refusedAt[k] \in 0 .. clock \cup {NoTime}
  BY <1>1, <1>2, Typed
<1>5. window[k].start \in Nat
  BY <1>3, <1>4
<1>6. refusedAt[k] \in Nat
  BY <1>4
<1>7. read[r] \in Nat
  BY <1>1, ReadTyped
<1> QED BY <1>2, <1>3, <1>5, <1>6, <1>7, SumMonotone

\* A caller that comes back after the Retry-After of somebody's refusal is
\* not refused by the same window.
THEOREM RetryAfterSuffices == HandshakeSpec => RetryAfterHonest
<1> DEFINE Honest ==
      \A r \in Request, k \in FixedKey :
         /\ stage[r] # "refused" /\ stage'[r] = "refused"
         /\ k = IF stage[r] = "count global" THEN Gateway ELSE KeyAt(r)
         /\ refusedAt[k] # NoTime
         /\ window'[k].start = window[k].start
         => read[r] < refusedAt[k] + WindowSeconds[k]
<1>1. LimitsInv /\ [HandshakeNext]_handshakeVars => [Honest]_handshakeVars
  <2> SUFFICES ASSUME LimitsInv, HandshakeNext,
                      NEW r \in Request, NEW k \in FixedKey,
                      stage[r] # "refused", stage'[r] = "refused",
                      k = IF stage[r] = "count global" THEN Gateway ELSE KeyAt(r),
                      refusedAt[k] # NoTime,
                      window'[k].start = window[k].start
               PROVE  read[r] < refusedAt[k] + WindowSeconds[k]
    OBVIOUS
  <2>0. LimitsTypeOK /\ NotBeyond /\ k \in Key
    BY DEF LimitsInv, FixedKey, TenantKey
  <2>1. stage \in [Request -> StageName]
    BY <2>0, Typed DEF StageName
  <2>2. Handshake(r)
    <3>1. ~Tick
      BY DEF Tick
    <3>2. PICK q \in Request : Handshake(q)
      BY <3>1 DEF HandshakeNext
    <3>3. CASE q # r
      <4>1. stage'[r] = stage[r]
        BY <2>1, <3>2, <3>3 DEF Handshake, Admission, limitVars, Authenticate, PassUncounted,
           CountBucket, RenewGlobal, CountGlobal, CountTenant, Release, Enter
      <4> QED BY <4>1
    <3> QED BY <3>2, <3>3
  <2>3. CASE CountBucket(r)
    <3>1. k = KeyAt(r) /\ window' = [window EXCEPT ![k] = Counted(Found(r, k))]
      BY <2>3 DEF CountBucket
    <3>2. window'[k].start = Found(r, k).start
      <4>1. window'[k] = Counted(Found(r, k))
        BY <2>0, <3>1, Typed
      <4> QED BY <4>1, CountedStart
    <3>3. read[r] < window[k].start + WindowSeconds[k]
      BY <2>0, <3>2, FoundWindow
    <3> QED BY <3>3, RefusedInTime
  <2>4. CASE CountGlobal(r)
    <3>1. stage[r] = "count global" /\ k = Gateway
      BY <2>4 DEF CountGlobal
    <3>2. read[r] < window[k].start + WindowSeconds[k]
      BY <2>0, <3>1 DEF NotBeyond, GatewayStart
    <3> QED BY <3>2, RefusedInTime
  <2>5. CASE CountTenant(r)
    <3>1. k = LimitKey[r]["tenant"] /\ LimitKey[r]["tenant"] # NoKey
      BY <2>5 DEF CountTenant, KeyAt
    <3> QED BY <3>1, FixedKeys
  <2>6. CASE Admission(r) \/ Release(r) \/ RenewGlobal(r)
    BY <2>1, <2>6 DEF Admission, limitVars, Release, RenewGlobal
  <2>7. CASE Authenticate(r)
    BY <2>1, <2>7 DEF Authenticate, Enter
  <2>8. CASE PassUncounted(r)
    <3>1. stage[r] \in Check \cup {"ingress"}
      BY <2>8 DEF PassUncounted
    <3>2. After[stage[r]] # "refused"
      BY <3>1, AfterStage
    <3>3. stage'[r] = After[stage[r]]
      BY <2>1, <2>8 DEF PassUncounted, Enter
    <3> QED BY <3>2, <3>3
  <2> QED BY <2>2, <2>3, <2>4, <2>5, <2>6, <2>7, <2>8 DEF Handshake
<1> QED BY <1>1, LimitsInvariant, PTL DEF HandshakeSpec, RetryAfterHonest
===============================================================================
