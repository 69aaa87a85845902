---------------------------- MODULE MCRelayClient ----------------------------
(* TLC instance of RelayClient: chunks that cut a character in two.        *)
EXTENDS RelayClient

CONSTANTS r1, r2

MCChunk == {<<"one", "first">>, <<"last">>}
=============================================================================
