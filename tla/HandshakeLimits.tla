---------------------------- MODULE HandshakeLimits ----------------------------
(***************************************************************************)
(* A websocket handshake behind the admission controller and the request   *)
(* limits.  The handler takes a permit, authenticates the caller, and      *)
(* asks in turn the token's, the gateway's, the client address's, the      *)
(* user's and the tenant's limit (src/src/gateway/rate_limit.rs,           *)
(* distributed_rate_limit.rs); a refusal anywhere drops the permit, and    *)
(* what the limits before it have counted stays counted.                   *)
(*                                                                         *)
(* Every limiter reads the time before it takes its lock, so a caller may  *)
(* count with a time older than the window it finds.  The gateway-wide     *)
(* limiter also counts after it has released the lock.                     *)
(*                                                                         *)
(* The other request handlers ask the same limits without a permit.  To    *)
(* the limits they are callers like these, admitted by a controller whose  *)
(* own limits never refuse anybody.                                        *)
(***************************************************************************)
EXTENDS AdmissionControl

CONSTANTS
    Key,            \* a token, the gateway, an address, a user, a tenant
    NoKey,          \* the limit is not configured or does not apply
    LimitKey,          \* whom each caller counts for, at each limit
    Gateway,        \* the only key of the global limiter
    Limit,          \* max_requests, rate_limit_rpm
    WindowSeconds,  \* window_seconds, which may be zero; 60 for tokens
    NoTime,         \* the start of a window nobody has opened
    MaxTime,        \* bound: the clock's last second
    MaxHandshakes   \* bound: callers that pass authentication

Check == {"token", "global", "ip", "user", "tenant"}

ASSUME LimitsAssumption ==
    /\ NoKey \notin Key
    /\ LimitKey \in [Request -> [Check -> Key \cup {NoKey}]]
    /\ \A r, q \in Request : \A c, d \in Check :
          LimitKey[r][c] = LimitKey[q][d] /\ LimitKey[r][c] # NoKey => c = d
    /\ Gateway \in Key
    /\ \A r \in Request : LimitKey[r]["global"] = Gateway
    /\ Limit \in [Key -> Nat]
    /\ WindowSeconds \in [Key -> Nat]
    /\ NoTime \notin Nat
    /\ MaxTime \in Nat
    /\ MaxHandshakes \in Nat

VARIABLES
    clock,       \* seconds since the gateway started
    stage,       \* how far the handshake of each caller has come
    read,        \* the time each caller has read for its check
    window,      \* the count and the start of each key's window
    handshakes   \* how many callers have been authenticated

\* History: what the properties speak of and the code does not keep.
VARIABLES
    accepted,    \* requests accepted in the window that starts at a time
    refusedAt,   \* when the current window refused somebody first
    putBack      \* how often a late caller put back an older window of a tenant

limitVars == <<clock, stage, read, window, handshakes, accepted, refusedAt, putBack>>
handshakeVars == <<vars, limitVars>>

After == [token |-> "ingress", ingress |-> "global", global |-> "ip",
          ip |-> "user", user |-> "tenant", tenant |-> "session"]

KeyAt(r) == LimitKey[r][stage[r]]

\* The caller goes on; a check begins by reading the time.
Enter(r, there) ==
    /\ stage' = [stage EXCEPT ![r] = there]
    /\ read' = [read EXCEPT ![r] = IF there \in Check THEN clock ELSE 0]

-----------------------------------------------------------------------------
(* Fixed windows.                                                          *)

\* Mutation: a window is over when its second is not the caller's.
Expired_Differs(w, k, now) == w.start # now

\* Mutation: the last second of a window is counted twice.
Expired_Late(w, k, now) ==
    w.start = NoTime \/ now - w.start > WindowSeconds[k]

\* duration_since is zero for a time before the window's start, so a window
\* of no length is always over and every caller opens its own.
Expired(w, k, now) ==
    w.start = NoTime \/ WindowSeconds[k] = 0 \/ now - w.start >= WindowSeconds[k]

Opened(k, now) == [start |-> now, count |-> 0]
Counted(w) == [start |-> w.start, count |-> w.count + 1]

\* The window a caller counts in.
Found(r, k) ==
    IF Expired(window[k], k, read[r]) THEN Opened(k, read[r]) ELSE window[k]

\* The window a wall clock second lies in, for the tenant's counter, whose
\* windows last a second at least.
TenantSeconds(k) == IF WindowSeconds[k] = 0 THEN 1 ELSE WindowSeconds[k]
Aligned(k, now) == (now \div TenantSeconds(k)) * TenantSeconds(k)

FoundAligned(r, k) ==
    IF window[k].start # Aligned(k, read[r]) THEN Opened(k, Aligned(k, read[r])) ELSE window[k]

\* What became of the caller, for the history.
Observe(k, ok) ==
    LET w == window'[k]
    IN  /\ accepted' = IF ok THEN [accepted EXCEPT ![k][w.start] = @ + 1] ELSE accepted
        /\ refusedAt' = [refusedAt EXCEPT ![k] =
               IF w.start # window[k].start \/ @ = NoTime
               THEN IF ok THEN NoTime ELSE clock
               ELSE @]

-----------------------------------------------------------------------------
(* The checks, in the order of the handler.                                *)

\* The caller's token is accepted, which takes an answer from the API.
Authenticate(r) ==
    /\ pc[r] = "held" /\ stage[r] = "new"
    /\ handshakes < MaxHandshakes
    /\ handshakes' = handshakes + 1
    /\ Enter(r, "token")
    /\ UNCHANGED <<vars, clock, window, accepted, refusedAt, putBack>>

\* A limit that does not apply; and the ingress checks and the allowlists,
\* which count nothing.
PassUncounted(r) ==
    /\ \/ stage[r] = "ingress"
       \/ stage[r] \in Check /\ KeyAt(r) = NoKey
    /\ Enter(r, After[stage[r]])
    /\ UNCHANGED <<vars, clock, window, handshakes, accepted, refusedAt, putBack>>

\* Token, address and user: the bucket is found, renewed and counted under
\* one lock.  A refused request is counted as well.
CountBucket(r) ==
    /\ stage[r] \in {"token", "ip", "user"}
    /\ KeyAt(r) # NoKey
    /\ LET k == KeyAt(r)
           w == Found(r, k)
           ok == w.count < Limit[k]
       IN  /\ window' = [window EXCEPT ![k] = Counted(w)]
           /\ Observe(k, ok)
           /\ Enter(r, IF ok THEN After[stage[r]] ELSE "refused")
    /\ UNCHANGED <<vars, clock, handshakes, putBack>>

\* The gateway's window is renewed under the lock ...
RenewGlobal(r) ==
    /\ stage[r] = "global"
    /\ window' = [window EXCEPT ![Gateway] = Found(r, Gateway)]
    /\ refusedAt' = [refusedAt EXCEPT ![Gateway] =
                        IF window'[Gateway].start # window[Gateway].start THEN NoTime ELSE @]
    /\ stage' = [stage EXCEPT ![r] = "count global"]
    /\ UNCHANGED <<vars, clock, read, handshakes, accepted, putBack>>

\* ... and counted after it.
CountGlobal(r) ==
    /\ stage[r] = "count global"
    /\ LET ok == window[Gateway].count < Limit[Gateway]
       IN  /\ window' = [window EXCEPT ![Gateway] = Counted(@)]
           /\ Observe(Gateway, ok)
           /\ Enter(r, IF ok THEN "ip" ELSE "refused")
    /\ UNCHANGED <<vars, clock, handshakes, putBack>>

\* The tenant's counter, without a shared store: a refused request is not
\* counted, and any other window than the caller's own is replaced.
CountTenant(r) ==
    /\ stage[r] = "tenant"
    /\ KeyAt(r) # NoKey
    /\ LET k == KeyAt(r)
           w == FoundAligned(r, k)
           ok == w.count < Limit[k]
       IN  /\ window' = [window EXCEPT ![k] = IF ok THEN Counted(w) ELSE w]
           /\ Observe(k, ok)
           /\ putBack' = [putBack EXCEPT ![k] =
                  IF window[k].start # NoTime /\ w.start < window[k].start THEN @ + 1 ELSE @]
           /\ Enter(r, IF ok THEN "session" ELSE "refused")
    /\ UNCHANGED <<vars, clock, handshakes>>

\* Mutation: the session goes on after the handler has dropped the permit.
Release_PermitOnly(r) ==
    /\ stage[r] \in {"new", "ingress", "session", "refused"}
    /\ DropRegion(r)
    /\ stage' = [stage EXCEPT ![r] = IF @ = "session" THEN @ ELSE "new"]
    /\ UNCHANGED <<clock, read, window, handshakes, accepted, refusedAt, putBack>>

\* The permit goes: the caller was refused, its connection closed while the
\* handler waited for somebody, or its session is over.
Release(r) ==
    /\ stage[r] \in {"new", "ingress", "session", "refused"}
    /\ DropRegion(r)
    /\ stage' = [stage EXCEPT ![r] = "new"]
    /\ UNCHANGED <<clock, read, window, handshakes, accepted, refusedAt, putBack>>

\* The other steps of the admission controller.
Admission(r) ==
    /\ EnterRegion(r) \/ EnterFamily(r) \/ LeaveFamily(r) \/ LeaveRegion(r) \/ DropFamily(r)
    /\ UNCHANGED limitVars

Tick ==
    /\ clock < MaxTime
    /\ clock' = clock + 1
    /\ UNCHANGED <<vars, stage, read, window, handshakes, accepted, refusedAt, putBack>>

HandshakeInit ==
    /\ Init
    /\ clock = 0
    /\ stage = [r \in Request |-> "new"]
    /\ read = [r \in Request |-> 0]
    /\ window = [k \in Key |-> [start |-> IF k = Gateway THEN 0 ELSE NoTime, count |-> 0]]
    /\ handshakes = 0
    /\ accepted = [k \in Key |-> [t \in 0 .. MaxTime |-> 0]]
    /\ refusedAt = [k \in Key |-> NoTime]
    /\ putBack = [k \in Key |-> 0]

Handshake(r) ==
    \/ Admission(r)
    \/ Authenticate(r)
    \/ PassUncounted(r)
    \/ CountBucket(r)
    \/ RenewGlobal(r)
    \/ CountGlobal(r)
    \/ CountTenant(r)
    \/ Release(r)

HandshakeNext == Tick \/ \E r \in Request : Handshake(r)

HandshakeSpec == HandshakeInit /\ [][HandshakeNext]_handshakeVars

-----------------------------------------------------------------------------
(* Properties.                                                             *)

TenantKey == Key \cap {LimitKey[r]["tenant"] : r \in Request}

\* The keys whose windows have a length.  A token, the gateway, an address
\* or a user whose window_seconds is zero is not limited at all, and a
\* tenant's windows are looked at apart.
FixedKey == {k \in Key \ TenantKey : WindowSeconds[k] > 0}

\* Every variable has its type, and nobody knows a time that has not come.
LimitsTypeOK ==
    /\ clock \in 0 .. MaxTime
    /\ stage \in [Request -> {"new", "ingress", "count global", "session", "refused"} \cup Check]
    /\ read \in [Request -> 0 .. clock]
    /\ window \in [Key -> [start : 0 .. clock \cup {NoTime}, count : Nat]]
    /\ handshakes \in 0 .. MaxHandshakes
    /\ accepted \in [Key -> [0 .. MaxTime -> Nat]]
    /\ refusedAt \in [Key -> 0 .. clock \cup {NoTime}]
    /\ putBack \in [Key -> Nat]

\* The permit a handshake was admitted with lasts as long as its session: no
\* region and no family ever has more sessions open than its limit.
SessionsWithinLimits ==
    /\ \A k \in Region :
          Cardinality({r \in Request : RegionOf[r] = k /\ stage[r] = "session"}) <= MaxRegion
    /\ \A k \in Family :
          Cardinality({r \in Request : FamilyOf[r] = k /\ stage[r] = "session"}) <= MaxFamily

\* No window of a token, the gateway, an address or a user ever accepts more
\* than its limit, although callers count late, with old times, and (at the
\* gateway's limit) outside the lock that guards the window.  The same holds
\* of a tenant until a late caller replaces the tenant's window by the older
\* one it read the time of; from then on the next caller starts the current
\* window again from zero, and the limit is not kept.  Nor is one with
\* a window of zero seconds, which the configuration accepts for the gateway,
\* addresses and users: every caller finds the window expired.
AcceptedWithinWindow ==
    \A k \in FixedKey \cup {tenant \in TenantKey : putBack[tenant] = 0} :
       \A t \in 0 .. MaxTime : accepted[k][t] <= Limit[k]

\* Retry-After is honest: whoever comes back window_seconds after the limit
\* of a token, the gateway, an address or a user has refused somebody is not
\* refused by the same window again.  (Left out are windows of zero seconds,
\* whose Retry-After is no wait, and tenants, whose windows are those
\* of the wall clock, and of which an older one may be put back.)
RetryAfterHonest ==
    [][\A r \in Request, k \in FixedKey :
          /\ stage[r] # "refused" /\ stage'[r] = "refused"
          /\ k = IF stage[r] = "count global" THEN Gateway ELSE KeyAt(r)
          /\ refusedAt[k] # NoTime
          /\ window'[k].start = window[k].start
          => read[r] < refusedAt[k] + WindowSeconds[k]]_handshakeVars
===============================================================================
