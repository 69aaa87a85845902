--------------------------- MODULE AdmissionControl ---------------------------
(***************************************************************************)
(* The admission controller (src/src/gateway/admission_control.rs), which  *)
(* the websocket handlers ask for a permit before they upgrade.            *)
(*                                                                         *)
(* try_admit and the permit's Drop are sequences of relaxed fetch_add and  *)
(* fetch_sub operations on two counters; each operation is one step.       *)
(***************************************************************************)
EXTENDS Integers, FiniteSets

CONSTANTS
    Request,     \* concurrent callers
    Region,      \* keys of region_counters
    Family,      \* keys of family_counters
    RegionOf,    \* region_key of each caller
    FamilyOf,    \* family_key of each caller
    MaxRegion,   \* max_concurrent_per_region
    MaxFamily    \* max_concurrent_per_family

ASSUME AdmissionAssumption ==
    /\ IsFiniteSet(Request)
    /\ RegionOf \in [Request -> Region]
    /\ FamilyOf \in [Request -> Family]
    /\ MaxRegion \in Nat \ {0}
    /\ MaxFamily \in Nat \ {0}

VARIABLES
    region,   \* region_counters
    family,   \* family_counters
    pc        \* where each caller is

vars == <<region, family, pc>>

Goto(r, there) == pc' = [pc EXCEPT ![r] = there]
Add(counters, key, n) == [counters EXCEPT ![key] = @ + n]

-----------------------------------------------------------------------------
(* try_admit.                                                              *)

EnterRegion(r) ==
    /\ pc[r] = "idle"
    /\ region' = Add(region, RegionOf[r], 1)
    /\ Goto(r, IF region[RegionOf[r]] >= MaxRegion THEN "leave region" ELSE "enter family")
    /\ UNCHANGED family

EnterFamily(r) ==
    /\ pc[r] = "enter family"
    /\ family' = Add(family, FamilyOf[r], 1)
    /\ Goto(r, IF family[FamilyOf[r]] >= MaxFamily THEN "leave family" ELSE "held")
    /\ UNCHANGED region

\* Mutation: a caller the family refuses keeps its place in the region.
LeaveFamily_KeepRegion(r) ==
    /\ pc[r] = "leave family"
    /\ family' = Add(family, FamilyOf[r], -1)
    /\ Goto(r, "idle")
    /\ UNCHANGED region

\* A caller the family refuses leaves the family first, then the region.
LeaveFamily(r) ==
    /\ pc[r] = "leave family"
    /\ family' = Add(family, FamilyOf[r], -1)
    /\ Goto(r, "leave region")
    /\ UNCHANGED region

LeaveRegion(r) ==
    /\ pc[r] = "leave region"
    /\ region' = Add(region, RegionOf[r], -1)
    /\ Goto(r, "idle")
    /\ UNCHANGED family

-----------------------------------------------------------------------------
(* AdmissionPermit::drop: the region first, then the family.               *)

DropRegion(r) ==
    /\ pc[r] = "held"
    /\ region' = Add(region, RegionOf[r], -1)
    /\ Goto(r, "drop family")
    /\ UNCHANGED family

DropFamily(r) ==
    /\ pc[r] = "drop family"
    /\ family' = Add(family, FamilyOf[r], -1)
    /\ Goto(r, "idle")
    /\ UNCHANGED region

Init ==
    /\ region = [k \in Region |-> 0]
    /\ family = [k \in Family |-> 0]
    /\ pc = [r \in Request |-> "idle"]

Step(r) ==
    \/ EnterRegion(r)
    \/ EnterFamily(r)
    \/ LeaveFamily(r)
    \/ LeaveRegion(r)
    \/ DropRegion(r)
    \/ DropFamily(r)

Next == \E r \in Request : Step(r)

Spec == Init /\ [][Next]_vars

-----------------------------------------------------------------------------
(* Properties.                                                             *)

InRegion == {"enter family", "leave family", "leave region", "held"}
InFamily == {"leave family", "held", "drop family"}

\* Every variable has its type: no counter goes below zero or beyond the
\* callers.
TypeOK ==
    /\ region \in [Region -> 0 .. Cardinality(Request)]
    /\ family \in [Family -> 0 .. Cardinality(Request)]
    /\ pc \in [Request -> {"idle", "drop family"} \cup InRegion]

\* The counters are exactly the callers inside: whatever the order of
\* refusals and drops, nothing is leaked and nothing freed twice.
CountersExact ==
    /\ \A k \in Region :
          region[k] = Cardinality({r \in Request : RegionOf[r] = k /\ pc[r] \in InRegion})
    /\ \A k \in Family :
          family[k] = Cardinality({r \in Request : FamilyOf[r] = k /\ pc[r] \in InFamily})

\* No region and no family ever has more permits out than its limit,
\* although counters and limits are compared without a lock.
PermitsWithinLimits ==
    /\ \A k \in Region :
          Cardinality({r \in Request : RegionOf[r] = k /\ pc[r] = "held"}) <= MaxRegion
    /\ \A k \in Family :
          Cardinality({r \in Request : FamilyOf[r] = k /\ pc[r] = "held"}) <= MaxFamily
===============================================================================
