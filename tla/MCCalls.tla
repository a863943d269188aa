------------------------------ MODULE MCCalls ------------------------------
(* Small instances of the call layer: two or three browsers and up to four  *)
(* peer connections, enough for a redial, a call to somebody else, a double *)
(* acceptance and a glare.                                                  *)
EXTENDS Calls, TLC

CONSTANTS u1, u2, u3
=============================================================================
