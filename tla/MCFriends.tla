----------------------------- MODULE MCFriends -----------------------------
(* Two users who may both ask, also themselves, at two tabs they share, and *)
(* two handlers at a time.                                                  *)
EXTENDS Friends, TLC

Symmetry == Permutations(Users) \cup Permutations(Tabs) \cup Permutations(Workers)
=============================================================================
