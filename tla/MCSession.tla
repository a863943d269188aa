----------------------------- MODULE MCSession -----------------------------
(* One page of the browser: two users log in, a token expires, a request is *)
(* lost.                                                                    *)
EXTENDS Session

CONSTANTS u1, u2
=============================================================================
