-------------------------- MODULE MCHandshakeLimits --------------------------
(* TLC instance of HandshakeLimits.                                         *)
EXTENDS HandshakeLimits

CONSTANTS r1, r2, r3, ws, chat_completions, responses,
          token, gateway, address, user, tenant

\* The keys the two handlers ask with.
MCRegionOf == [r \in Request |-> ws]
MCFamilyOf == [r \in Request |-> IF r = r2 THEN responses ELSE chat_completions]

\* One address and one tenant; the token of r3 has no limit of its own, and
\* r1 names no user.
MCLimitKey ==
    [r \in Request |->
        [c \in Check |->
            CASE c = "token"  -> IF r = r3 THEN NoKey ELSE token
              [] c = "global" -> gateway
              [] c = "ip"     -> address
              [] c = "user"   -> IF r = r1 THEN NoKey ELSE user
              [] c = "tenant" -> tenant]]

MCLimit == [k \in Key |-> IF k \in {gateway, address} THEN 2 ELSE 1]

\* A user's limit is configured with no window, and so is the tenant's.
MCWindowSeconds == [k \in Key |-> CASE k = address -> 2 [] k \in {user, tenant} -> 0 [] OTHER -> 1]
===============================================================================
