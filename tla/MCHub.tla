------------------------------- MODULE MCHub -------------------------------
(* Small instances of the hub: two connections of one user (a reconnection), *)
(* and one of another user.                                                  *)
EXTENDS Hub, TLC

CONSTANTS u1, u2, c1, c2, c3

TwoOfOneUser == (c1 :> u1) @@ (c2 :> u1)
ThreeOfOneUser == (c1 :> u1) @@ (c2 :> u1) @@ (c3 :> u1)
TwoAndOne == (c1 :> u1) @@ (c2 :> u1) @@ (c3 :> u2)
=============================================================================
