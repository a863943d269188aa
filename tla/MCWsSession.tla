---------------------------- MODULE MCWsSession ----------------------------
(* The browser with four successive (id, token) pairs: a login, two token   *)
(* refreshes and a login after a logout.                                    *)
EXTENDS WsSession
=============================================================================
