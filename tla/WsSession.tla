----------------------------- MODULE WsSession -----------------------------
(***************************************************************************)
(* The WebSocket of one browser: the effect of useWebSocketConnection.ts,  *)
(* which opens a socket for each login or token, the socket's events, the  *)
(* stores they write, and the effect of useGlobalSignalingListener.ts,     *)
(* which listens on the socket in the store.                               *)
(*                                                                         *)
(* The effect awaits initWebSocketSession; meanwhile the user may log in   *)
(* again, refresh the token or be cleared, and React runs the effect again *)
(* for the new values.  A socket that the page closes fires its close      *)
(* event later.                                                            *)
(***************************************************************************)
EXTENDS Naturals

CONSTANT MaxRuns    \* bound: times the user gets a new id or token

ASSUME WsAssumption == MaxRuns \in Nat

Runs == 1..MaxRuns
No == 0             \* no user, no socket

VARIABLES
    user,       \* the (id, token) pair, numbered; No if either is missing
    last,       \* how many pairs there have been
    ran,        \* the pair the connection effect last ran for
    step,       \* per run: "none", "init" (awaiting), "done"
    unmounted,  \* per run: isUnmounted
    socket,     \* per run: the state of the socket it opened
    wsRef,      \* wsRef.current
    store,      \* websocketStore.ws
    online,     \* user.isOnline
    dirty,      \* a store changed and React has not yet rendered
    listening   \* the socket that has the message listener

vars == <<user, last, ran, step, unmounted, socket, wsRef, store, online, dirty,
          listening>>

TypeOK ==
    /\ user \in Runs \cup {No}
    /\ last \in 0..MaxRuns
    /\ ran \in Runs \cup {No}
    /\ step \in [Runs -> {"none", "init", "done"}]
    /\ unmounted \in [Runs -> BOOLEAN]
    /\ socket \in [Runs -> {"none", "connecting", "open", "closing", "closed"}]
    /\ wsRef \in Runs \cup {No}
    /\ store \in Runs \cup {No}
    /\ online \in BOOLEAN
    /\ dirty \in BOOLEAN
    /\ listening \in Runs \cup {No}
    /\ \A r \in Runs : socket[r] # "none" => step[r] = "done"

Init ==
    /\ user = No
    /\ last = 0
    /\ ran = No
    /\ step = [r \in Runs |-> "none"]
    /\ unmounted = [r \in Runs |-> FALSE]
    /\ socket = [r \in Runs |-> "none"]
    /\ wsRef = No
    /\ store = No
    /\ online = FALSE
    /\ dirty = FALSE
    /\ listening = No

Live(r) == socket[r] \in {"connecting", "open"}

----------------------------------------------------------------------------
(* The user store.                                                         *)

\* login, register, useAuthCheck or a refreshed token.
SetUser ==
    /\ last < MaxRuns
    /\ last' = last + 1
    /\ user' = last + 1
    /\ dirty' = TRUE
    /\ UNCHANGED <<ran, step, unmounted, socket, wsRef, store, online, listening>>

\* setUser of anything else: the store changes, the pair does not.
Touch ==
    /\ dirty' = TRUE
    /\ UNCHANGED <<user, last, ran, step, unmounted, socket, wsRef, store, online,
                   listening>>

\* clearUser, after a refresh that failed, whether a user is set or not.
ClearUser ==
    /\ user' = No
    /\ online' = FALSE
    /\ dirty' = TRUE
    /\ UNCHANGED <<last, ran, step, unmounted, socket, wsRef, store, listening>>

----------------------------------------------------------------------------
(* The connection effect.                                                  *)

\* Fault: the cleanup forgets the socket without closing it.
CleanupLeaves ==
    /\ socket' = socket
    /\ wsRef' = No
    /\ store' = No
    /\ online' = FALSE
    /\ dirty' = TRUE

\* cleanup(): close the socket of the ref, whichever run opened it.
Cleanup ==
    /\ socket' = [r \in Runs |-> IF r = wsRef /\ Live(r) THEN "closing" ELSE socket[r]]
    /\ wsRef' = No
    /\ store' = No
    /\ online' = FALSE
    /\ dirty' = TRUE

\* The effect of useGlobalSignalingListener, which every render runs again:
\* it listens on the rendered socket if that is open by now.
Listen == listening' = IF store # No /\ socket'[store] = "open" THEN store ELSE No

\* A render with the same user: only the listener's effect runs.
Render ==
    /\ dirty /\ user = ran
    /\ dirty' = FALSE
    /\ UNCHANGED <<user, last, ran, step, unmounted, socket, wsRef, store, online>>
    /\ Listen

\* Fault: the effect has no cleanup function when the token changes.
RenderNewUserKeeps ==
    /\ dirty /\ user # ran
    /\ ran' = user
    /\ step' = [r \in Runs |-> IF r = user THEN "init" ELSE step[r]]
    /\ unmounted' = [r \in Runs |-> unmounted[r] \/ r = ran]
    /\ dirty' = FALSE
    /\ UNCHANGED <<socket, wsRef, store, online>>
    /\ Listen
    /\ UNCHANGED <<user, last>>

\* A render with a new user: the previous run is unmounted and cleaned up;
\* without a user the effect cleans up again, else it starts awaiting.
RenderNewUser ==
    /\ dirty /\ user # ran
    /\ ran' = user
    /\ step' = [r \in Runs |-> IF r = user THEN "init" ELSE step[r]]
    /\ unmounted' = [r \in Runs |-> unmounted[r] \/ r = ran]
    /\ IF ran # No \/ user = No THEN Cleanup
       ELSE dirty' = FALSE /\ UNCHANGED <<socket, wsRef, store, online>>
    /\ Listen
    /\ UNCHANGED <<user, last>>

\* Fault: the run does not look at isUnmounted.
InitOkAlways(r) ==
    /\ step[r] = "init"
    /\ step' = [step EXCEPT ![r] = "done"]
    /\ socket' = [socket EXCEPT ![r] = "connecting"]
    /\ wsRef' = r
    /\ store' = r
    /\ dirty' = TRUE
    /\ UNCHANGED <<user, last, ran, unmounted, online, listening>>

\* initWebSocketSession said yes: open the socket, unless unmounted.
InitOk(r) ==
    /\ step[r] = "init"
    /\ step' = [step EXCEPT ![r] = "done"]
    /\ IF unmounted[r] THEN UNCHANGED <<socket, wsRef, store, dirty>>
       ELSE /\ socket' = [socket EXCEPT ![r] = "connecting"]
            /\ wsRef' = r
            /\ store' = r
            /\ dirty' = TRUE
    /\ UNCHANGED <<user, last, ran, unmounted, online, listening>>

\* It said no, or threw: cleanup, unmounted or not.
InitFail(r) ==
    /\ step[r] = "init"
    /\ step' = [step EXCEPT ![r] = "done"]
    /\ Cleanup
    /\ UNCHANGED <<user, last, ran, unmounted, listening>>

----------------------------------------------------------------------------
(* Events of the sockets.                                                  *)

\* Fault: the open event tells no store, so nothing renders.
OnOpenSilent(r) ==
    /\ socket[r] = "connecting"
    /\ socket' = [socket EXCEPT ![r] = "open"]
    /\ UNCHANGED <<user, last, ran, step, unmounted, wsRef, store, online, dirty,
                   listening>>

OnOpen(r) ==
    /\ socket[r] = "connecting"
    /\ socket' = [socket EXCEPT ![r] = "open"]
    /\ online' = TRUE
    /\ dirty' = TRUE
    /\ UNCHANGED <<user, last, ran, step, unmounted, wsRef, store, listening>>

\* Fault: the close event leaves the socket in the store.
OnCloseKeepsStore(r) ==
    /\ Live(r) \/ socket[r] = "closing"
    /\ socket' = [socket EXCEPT ![r] = "closed"]
    /\ online' = FALSE
    /\ dirty' = TRUE
    /\ UNCHANGED <<user, last, ran, step, unmounted, wsRef, store, listening>>

\* Fault: the close event leaves the user online.
OnCloseKeepsOnline(r) ==
    /\ Live(r) \/ socket[r] = "closing"
    /\ socket' = [socket EXCEPT ![r] = "closed"]
    /\ store' = No
    /\ dirty' = TRUE
    /\ UNCHANGED <<user, last, ran, step, unmounted, wsRef, online, listening>>

\* The server or the network closed the socket, it could not be opened, or
\* the page closed it before.
OnClose(r) ==
    /\ Live(r) \/ socket[r] = "closing"
    /\ socket' = [socket EXCEPT ![r] = "closed"]
    /\ online' = FALSE
    /\ store' = No
    /\ dirty' = TRUE
    /\ UNCHANGED <<user, last, ran, step, unmounted, wsRef, listening>>

Next ==
    \/ SetUser
    \/ Touch
    \/ ClearUser
    \/ Render
    \/ RenderNewUser
    \/ \E r \in Runs : InitOk(r) \/ InitFail(r) \/ OnOpen(r) \/ OnClose(r)

Spec == Init /\ [][Next]_vars

\* React renders what changed; users and sockets owe nothing.
FairSpec == Spec /\ WF_vars(Render \/ RenderNewUser)

----------------------------------------------------------------------------
(* Properties.                                                             *)

\* However logins, refreshes and failures interleave, at most one socket is
\* connecting or open, and it is the one in wsRef: no run loses track of a
\* socket it cannot close any more.
OneLiveSocket == \A r \in Runs : Live(r) => r = wsRef

\* A live socket belongs to the run of the user that is rendered now: none
\* outlives a logout or the token it was opened with.
LiveIsCurrent == \A r \in Runs : Live(r) => r = ran

\* What the stores tell the rest of the application is true: the socket
\* handed to the signalling code is not closed, and an online user has an
\* open socket.
StoreIsLive == store # No => Live(store)
OnlineIsReal == online => \E r \in Runs : socket[r] = "open"

\* Sockets are opened in the order of the logins: an init call whose answer
\* comes late, after a token was replaced or a user cleared and another set,
\* never opens a socket for an older pair than one that had a socket
\* (useWebsocketConnection.ts: isUnmounted after the await).
OpenedInOrder ==
    [][\A r, q \in Runs :
        socket[r] = "none" /\ socket'[r] # "none" /\ socket[q] # "none" => q < r]_vars

\* Once React has rendered, the open socket in the store is listened on,
\* although it was still connecting when it was stored.
Listened == ~dirty /\ store # No /\ socket[store] = "open" => listening = store

\* A user who is cleared and stays so ends up with no live socket.
LogoutDisconnects == (user = No) ~> (user # No \/ \A r \in Runs : ~Live(r))

\* The claim of RootProvider.tsx:10: while the user is logged in and the
\* socket is up, its signalling is subscribed to.
OpenIsSubscribed ==
    \A r \in Runs : user = r /\ socket[r] = "open" /\ ~dirty => listening = r
=============================================================================
