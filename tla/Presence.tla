------------------------------ MODULE Presence ------------------------------
(***************************************************************************)
(* What the hub promises: at any time a user has at most one current       *)
(* connection, the newest one; a connection that is replaced or that       *)
(* leaves is retired, for good, in the same step.  Hub.tla implements this *)
(* with a map, a Stop call and a map write that other goroutines can see   *)
(* in between.  The promise ends, for that user alone, when two loops of   *)
(* the hub serve him at the same time: nobody is his current connection    *)
(* any more, and which of his connections are retired is left open.        *)
(***************************************************************************)
CONSTANTS Users, Conns, Owner, None

VARIABLES
    current,    \* per user: its live connection, or None
    retired,    \* connections that were replaced or left
    contested   \* users to whom nothing is promised any more

presenceVars == <<current, retired, contested>>

Init ==
    /\ current = [u \in Users |-> None]
    /\ retired = {}
    /\ contested = {}

\* A new connection becomes the user's current one and retires the previous.
Connect(c) ==
    /\ Owner[c] \notin contested
    /\ c \notin retired /\ current[Owner[c]] # c
    /\ current' = [current EXCEPT ![Owner[c]] = c]
    /\ retired' = retired \cup ({current[Owner[c]]} \ {None})
    /\ UNCHANGED contested

\* Only the current connection can leave: a late leave of a replaced one
\* does not touch its successor.
Disconnect(c) ==
    /\ current[Owner[c]] = c
    /\ current' = [current EXCEPT ![Owner[c]] = None]
    /\ retired' = retired \cup {c}
    /\ UNCHANGED contested

\* Two loops meet over the user.
Contest(u) ==
    /\ contested' = contested \cup {u}
    /\ current' = [current EXCEPT ![u] = None]
    /\ UNCHANGED retired

\* A connection of a contested user may be retired, or be left behind.
Retire(c) ==
    /\ Owner[c] \in contested
    /\ retired' = retired \cup {c}
    /\ UNCHANGED <<current, contested>>

Next ==
    \/ \E c \in Conns : Connect(c) \/ Disconnect(c) \/ Retire(c)
    \/ \E u \in Users : Contest(u)

Spec == Init /\ [][Next]_presenceVars

----------------------------------------------------------------------------
(* Properties.                                                             *)

\* The connection of a user is one he opened, and nobody has retired it.
CurrentIsAlive ==
    \A u \in Users : current[u] # None =>
        Owner[current[u]] = u /\ current[u] \notin retired

\* A connection that was replaced or that left never comes back, though its
\* user may connect again and its own leave may come late.
RetiredForGood ==
    [][\A c \in retired : c \in retired' /\ \A u \in Users : current'[u] # c]_presenceVars
=============================================================================
