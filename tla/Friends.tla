------------------------------ MODULE Friends ------------------------------
(***************************************************************************)
(* Friend requests: the HTTP handlers that store them (two duplicate       *)
(* checks, an insert and a notification, each a step of its own), the      *)
(* notifications on their way to a browser, the toasts the browser shows,  *)
(* and the approvals that store a friendship.                              *)
(*                                                                         *)
(* A pair <<a, b>> is a request of a to b.  Each statement may fail: a     *)
(* duplicate check that fails counts as "no such request" in the code.     *)
(***************************************************************************)
EXTENDS Naturals, Sequences, FiniteSets

CONSTANTS
    Users,
    NoUser,         \* nobody is logged in
    Tabs,           \* browser tabs
    Workers,        \* request handlers that can run at the same time
    MaxRequests,    \* bound: calls of the request handler
    MaxFaults,      \* bound: duplicate checks that fail in the database
    MaxFriendships  \* bound: friend_ships rows

ASSUME FriendsAssumption ==
    /\ NoUser \notin Users
    /\ IsFiniteSet(Workers)
    /\ MaxRequests \in Nat /\ MaxFaults \in Nat /\ MaxFriendships \in Nat

Pairs == Users \X Users
NoPair == <<NoUser, NoUser>>
Reverse(p) == <<p[2], p[1]>>

VARIABLES
    requests,    \* friend_requests: rows per pair
    friendships, \* friend_ships: <<user1, user2>> rows in order
    at,          \* per handler: its next statement
    pair,        \* per handler: <<userID, req.FriendID>>
    user,        \* per tab: the user who is logged in
    toasts,      \* per tab: the keys of notificationStore.friendRequests
    wire,        \* notifications per pair and per tab they are sent to
    started, faults, \* counters of the bounds
    used,        \* history, per tab: everybody who was logged in
    lost         \* history: pairs a notification of which was lost

server == <<requests, friendships, at, pair, started, faults>>
vars == <<requests, friendships, at, pair, user, toasts, wire, started, faults,
          used, lost>>

TypeOK ==
    /\ requests \in [Pairs -> Nat]
    /\ friendships \in Seq(Pairs)
    /\ at \in [Workers -> {"idle", "check", "checkReverse", "insert", "notify"}]
    /\ pair \in [Workers -> Pairs \cup {NoPair}]
    /\ \A w \in Workers : at[w] = "idle" <=> pair[w] = NoPair
    /\ user \in [Tabs -> Users \cup {NoUser}]
    /\ toasts \in [Tabs -> SUBSET Users]
    /\ wire \in [Pairs \X Tabs -> Nat]
    /\ started \in Nat /\ faults \in Nat
    /\ used \in [Tabs -> SUBSET Users]
    /\ lost \in SUBSET Pairs

Init ==
    /\ requests = [p \in Pairs |-> 0]
    /\ friendships = << >>
    /\ at = [w \in Workers |-> "idle"]
    /\ pair = [w \in Workers |-> NoPair]
    /\ user = [t \in Tabs |-> NoUser]
    /\ toasts = [t \in Tabs |-> {}]
    /\ wire = [m \in Pairs \X Tabs |-> 0]
    /\ started = 0
    /\ faults = 0
    /\ used = [t \in Tabs |-> {}]
    /\ lost = {}

----------------------------------------------------------------------------
(* The tabs.                                                               *)

\* A login replaces the user of the tab; nothing resets the toasts.
Login(t, u) ==
    /\ user' = [user EXCEPT ![t] = u]
    /\ used' = [used EXCEPT ![t] = @ \cup {u}]
    /\ UNCHANGED <<server, toasts, wire, lost>>

\* clearUser, after a refresh that failed.
ClearUser(t) ==
    /\ user[t] # NoUser
    /\ user' = [user EXCEPT ![t] = NoUser]
    /\ UNCHANGED <<server, toasts, wire, used, lost>>

\* The page is loaded again: its socket and its stores are new.
Reload(t) ==
    /\ user' = [user EXCEPT ![t] = NoUser]
    /\ toasts' = [toasts EXCEPT ![t] = {}]
    /\ wire' = [m \in Pairs \X Tabs |-> IF m[2] = t THEN 0 ELSE wire[m]]
    /\ lost' = lost \cup {p \in Pairs : p[1] \in toasts[t] /\ p[2] \in used[t]}
                    \cup {p \in Pairs : wire[<<p, t>>] > 0}
    /\ UNCHANGED <<server, used>>

----------------------------------------------------------------------------
(* The request handler.                                                    *)

Goto(w, step) == at' = [at EXCEPT ![w] = step] /\ UNCHANGED pair

\* The handler answers, whatever the answer.
Return(w) ==
    /\ at' = [at EXCEPT ![w] = "idle"]
    /\ pair' = [pair EXCEPT ![w] = NoPair]

\* The handler is called for the user of the token, and goes on to
\* CreateFriendRequest.
FriendRequestHandler(w, u, to) ==
    /\ at[w] = "idle" /\ u # NoUser
    /\ at' = [at EXCEPT ![w] = "check"]
    /\ pair' = [pair EXCEPT ![w] = <<u, to>>]

\* The button of the search page.  A user may find, and ask, himself.
FriendRequest(w, t, to) ==
    /\ started < MaxRequests
    /\ started' = started + 1
    /\ FriendRequestHandler(w, user[t], to)
    /\ UNCHANGED <<requests, friendships, user, toasts, wire, faults, used, lost>>

\* DuplicateRequestCheckByID: a row ends the request; no row, or an error of
\* the database, lets it go on to the next statement.
DuplicateRequestCheckByID(w, p, next) ==
    \/ requests[p] > 0 /\ Return(w) /\ UNCHANGED faults
    \/ requests[p] = 0 /\ Goto(w, next) /\ UNCHANGED faults
    \/ faults < MaxFaults /\ faults' = faults + 1 /\ Goto(w, next)

Check(w) ==
    /\ at[w] = "check"
    /\ DuplicateRequestCheckByID(w, pair[w], "checkReverse")
    /\ UNCHANGED <<requests, friendships, user, toasts, wire, started, used, lost>>

\* Fault: the reverse pattern is not checked.
CheckReverseSkipped(w) ==
    /\ at[w] = "checkReverse"
    /\ Goto(w, "insert")
    /\ UNCHANGED <<requests, friendships, user, toasts, wire, started, faults,
                   used, lost>>

CheckReverse(w) ==
    /\ at[w] = "checkReverse"
    /\ DuplicateRequestCheckByID(w, Reverse(pair[w]), "insert")
    /\ UNCHANGED <<requests, friendships, user, toasts, wire, started, used, lost>>

Store(p) == requests' = [requests EXCEPT ![p] = @ + 1]

\* Fault: the handler ignores an error of Create.
CreateIgnored(w) ==
    /\ at[w] = "insert"
    /\ Store(pair[w]) \/ UNCHANGED requests
    /\ Goto(w, "notify")
    /\ UNCHANGED <<friendships, user, toasts, wire, started, faults, used, lost>>

\* Fault: a stored request is answered before anybody is notified.
CreateSilent(w) ==
    /\ at[w] = "insert"
    /\ Store(pair[w]) \/ UNCHANGED requests
    /\ Return(w)
    /\ UNCHANGED <<friendships, user, toasts, wire, started, faults, used, lost>>

\* The insert: stored; not stored; or stored, and its answer does not come
\* back.  Both errors end the request without a notification.
Create(w) ==
    /\ at[w] = "insert"
    /\ \/ Store(pair[w]) /\ Goto(w, "notify") /\ UNCHANGED lost
       \/ UNCHANGED <<requests, lost>> /\ Return(w)
       \/ Store(pair[w]) /\ lost' = lost \cup {pair[w]} /\ Return(w)
    /\ UNCHANGED <<friendships, user, toasts, wire, started, faults, used>>

\* SendUserToUser, whose error is dropped: to a tab the user is logged in at,
\* or to nobody (not connected, buffer full).
Notify(w) ==
    /\ at[w] = "notify"
    /\ Return(w)
    /\ \/ /\ \E t \in Tabs :
               /\ user[t] = pair[w][2]
               /\ wire' = [wire EXCEPT ![<<pair[w], t>>] = @ + 1]
          /\ UNCHANGED lost
       \/ lost' = lost \cup {pair[w]} /\ UNCHANGED wire
    /\ UNCHANGED <<requests, friendships, user, toasts, started, faults, used>>

----------------------------------------------------------------------------
(* Notifications and approvals.                                            *)

\* The notification reaches the tab; one toast per sender.  The tab may have
\* another user by now.
Deliver(p, t) ==
    /\ wire[<<p, t>>] > 0
    /\ wire' = [wire EXCEPT ![<<p, t>>] = @ - 1]
    /\ toasts' = [toasts EXCEPT ![t] = @ \cup {p[1]}]
    /\ UNCHANGED <<server, user, used, lost>>

\* Or its socket is closed first.
Lose(p, t) ==
    /\ wire[<<p, t>>] > 0
    /\ wire' = [wire EXCEPT ![<<p, t>>] = @ - 1]
    /\ lost' = lost \cup {p}
    /\ UNCHANGED <<server, user, toasts, used>>

AddFriend(user1, user2) ==
    /\ Len(friendships) < MaxFriendships
    /\ friendships' = Append(friendships, <<user1, user2>>)

\* Fault: an approval without a user (user?.id ?? 0) is stored all the same.
ApproveUnknown(from, approver) == AddFriend(from, approver)

\* AddFriend, which reads nothing.  Without a user the request is refused: it
\* has no token, and friend_ships refers to users.
ApproveRequestHandler(from, approver) ==
    /\ approver # NoUser
    /\ AddFriend(from, approver)

\* A click on a toast, with the user of the store.  The toast and the request
\* stay as they are: a second click stores a second row.
Approve(t, from) ==
    /\ from \in toasts[t]
    /\ ApproveRequestHandler(from, user[t])
    /\ UNCHANGED <<requests, at, pair, user, toasts, wire, started, faults, used, lost>>

\* Fault: the rows of everybody are listed.
FriendsOfAll(u) ==
    {IF friendships[i][1] = u THEN friendships[i][2] ELSE friendships[i][1] :
        i \in 1..Len(friendships)}

\* GetFriendsByUserID: the other end of every row of the user.
FriendsOf(u) ==
    {IF friendships[i][1] = u THEN friendships[i][2] ELSE friendships[i][1] :
        i \in {j \in 1..Len(friendships) : u \in {friendships[j][1], friendships[j][2]}}}

Next ==
    \/ \E t \in Tabs : (\E u \in Users : Login(t, u)) \/ ClearUser(t) \/ Reload(t)
    \/ \E w \in Workers, t \in Tabs, to \in Users : FriendRequest(w, t, to)
    \/ \E w \in Workers : Check(w) \/ CheckReverse(w) \/ Create(w) \/ Notify(w)
    \/ \E p \in Pairs, t \in Tabs : Deliver(p, t) \/ Lose(p, t)
    \/ \E t \in Tabs, from \in Users : Approve(t, from)

Spec == Init /\ [][Next]_vars

----------------------------------------------------------------------------
(* Properties.                                                             *)

\* The rows between two users, in either direction.
Rows(p) == requests[p] + (IF p = Reverse(p) THEN 0 ELSE requests[Reverse(p)])

\* The duplicate checks are two reads and the insert is a third statement, so
\* they do not keep requests unique.  They keep what is left: the requests
\* between two users, in both directions and for ever, are at most as many as
\* the handlers that run at once, and one more for each check that failed.
\* A server that handles one request at a time stores one.
RowsBounded == \A p \in Pairs : Rows(p) <= Cardinality(Workers) + faults

\* The handlers that may still store a request between the users of p.
Late(p) ==
    {w \in Workers :
        /\ pair[w] \in {p, Reverse(p)}
        /\ \/ at[w] = "insert"
           \/ at[w] = "checkReverse" /\ requests[Reverse(pair[w])] = 0}

\* Once a request between two users is stored and no handler is past its
\* checks, the pair is closed: no further request is stored between them, in
\* either direction, unless a check fails (friend_service.go: both checks).
ClosedPairs ==
    [][\A p \in Pairs :
        Rows(p) > 0 /\ Late(p) = {} /\ faults' = faults =>
            Rows(p)' = Rows(p) /\ Late(p)' = {}]_vars

\* a asked somebody who was logged in at a tab that b was logged in at too.
Asked(a, b) ==
    \E t \in Tabs : b \in used[t] /\ \E c \in used[t] : requests[<<a, c>>] > 0

\* Nobody is told of a request that is not stored: neither by a notification
\* under way nor by a toast, whatever fails and whoever logs in meanwhile.
ToldOfStored ==
    /\ \A p \in Pairs, t \in Tabs : wire[<<p, t>>] > 0 => requests[p] > 0
    /\ \A t \in Tabs : \A a \in toasts[t] :
         \E c \in used[t] : requests[<<a, c>>] > 0

\* The friends list of u holds only users one of whom asked the other, or
\* asked another user of the other's tab: toasts outlive a login, so the next
\* user of a tab can approve what the one before was asked.
FriendsWereRequested ==
    \A u \in Users : \A v \in FriendsOf(u) : Asked(u, v) \/ Asked(v, u)

\* A stored request is never forgotten without a trace.  The duplicate checks
\* refuse to repeat it and nothing reads pending requests back, so its one
\* notification must be about to be sent, under way, on the screen, or one of
\* the cases in which the code drops it.
NoSilentLoss ==
    \A p \in Pairs : requests[p] > 0 =>
        \/ \E w \in Workers : at[w] = "notify" /\ pair[w] = p
        \/ \E t \in Tabs : wire[<<p, t>>] > 0
        \/ \E t \in Tabs : p[1] \in toasts[t] /\ p[2] \in used[t]
        \/ p \in lost
=============================================================================
