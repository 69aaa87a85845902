---------------------------- MODULE MCShadowQueue ----------------------------
(* TLC instance of ShadowQueue: fewer slots than jobs, and two jobs whose    *)
(* payloads exceed the budget together.                                      *)
EXTENDS ShadowQueue

CONSTANTS j1, j2, w1, w2

MCPayload == [j \in Job |-> IF j = j2 THEN 2 ELSE 1]
==============================================================================
