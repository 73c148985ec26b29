---------------------------- MODULE MCSporkDeque ----------------------------
(* SporkDeque on a few addresses.                                          *)
EXTENDS SporkDeque

MCJobTokens == 0..MAX_HEARTBEAT_TOKENS
=============================================================================
