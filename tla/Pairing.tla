------------------------------ MODULE Pairing ------------------------------
(***************************************************************************)
(* What a call promises: a connection is made by one user for another, is  *)
(* described with one connection that the other user made for it, once and *)
(* for good, and comes up only with a connection that is described with it *)
(* in turn.  Calls.tla implements this with an offer and an answer that    *)
(* pass through a relay and wait in stores, with awaits in which further   *)
(* calls are started, answered and abandoned.                              *)
(***************************************************************************)
EXTENDS Naturals, Sequences

CONSTANT Users

VARIABLE ends   \* the connections, by the order they were made in

No == 0         \* no connection

Roles == {"caller", "callee"}

Init == ends = <<>>

\* User u makes a connection for user p: it dials p, or takes p's call.
Make(u, p, role) ==
    ends' = Append(ends, [own |-> u, peer |-> p, role |-> role, with |-> No, up |-> FALSE])

\* One of them is a call from one user to the other, the other its answer.
Opposite(i, j) ==
    /\ ends[j].own = ends[i].peer /\ ends[j].peer = ends[i].own
    /\ ends[j].role # ends[i].role

\* Connection i is described with connection j.
Describe(i, j) ==
    /\ ends[i].with = No /\ Opposite(i, j)
    /\ ends' = [ends EXCEPT ![i].with = j]

\* Two connections are a pair when each is described with the other.
Paired(i) ==
    /\ ends[i].with \in DOMAIN ends
    /\ ends[ends[i].with].with = i

ComeUp(i) == Paired(i) /\ ends' = [ends EXCEPT ![i].up = TRUE]

GoDown(i) == ends' = [ends EXCEPT ![i].up = FALSE]

Next ==
    \/ \E u, p \in Users, role \in Roles : Make(u, p, role)
    \/ \E i, j \in DOMAIN ends : Describe(i, j)
    \/ \E i \in DOMAIN ends : ComeUp(i) \/ GoDown(i)

Spec == Init /\ [][Next]_ends

----------------------------------------------------------------------------
(* Properties.                                                             *)

\* Whoever's call is up is connected with the user it is for, who made the
\* other connection for this user; and no connection serves two calls, though
\* one offer may be answered twice (the accept button stays) and one user may
\* be called by several.
UpInPairs ==
    \A i \in DOMAIN ends : ends[i].up =>
        /\ Paired(i) /\ Opposite(i, ends[i].with)
        /\ \A j \in DOMAIN ends : ends[j].up /\ ends[j].with = ends[i].with => j = i

\* A connection is described once: a second answer, a repeated offer or an
\* answer that is late does not redirect a call (setRemoteDescription rejects
\* in "stable").
DescribedOnce ==
    [][\A i \in DOMAIN ends : ends[i].with # No =>
           i \in DOMAIN ends' /\ ends'[i].with = ends[i].with]_ends
=============================================================================
