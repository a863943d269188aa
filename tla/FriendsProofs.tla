--------------------------- MODULE FriendsProofs ---------------------------
(***************************************************************************)
(* The properties of Friends, for any number of users, tabs, handlers and  *)
(* failures.                                                               *)
(*                                                                         *)
(* RowsBounded rests on Late: once a request between two users is stored,  *)
(* only the handlers that have passed both checks, or will pass the second *)
(* one, can store another; each of them was running when the first was     *)
(* stored, or passed a check that failed.                                  *)
(***************************************************************************)
EXTENDS Friends, FiniteSetTheorems, TLAPS

\* A tab has seen the user who is logged in at it.
Logged == \A t \in Tabs : user[t] # NoUser => user[t] \in used[t]

\* What the handlers and the notifications on their way know.
Grounded ==
    /\ \A w \in Workers : at[w] = "notify" => requests[pair[w]] > 0
    /\ \A p \in Pairs, t \in Tabs : wire[<<p, t>>] > 0 => p[2] \in used[t]

\* Every friendship row is of a user who asked and one who could see it.
RowsAsked ==
    \A i \in 1..Len(friendships) : Asked(friendships[i][1], friendships[i][2])

\* RowsBounded, with the handlers that may still add a row.
LateBounded ==
    \A p \in Pairs :
        Rows(p) > 0 => Rows(p) + Cardinality(Late(p)) <= Cardinality(Workers) + faults

\* Pairs and their parts.
LEMMA PairFacts ==
    ASSUME NEW p \in Pairs
    PROVE  /\ p[1] \in Users /\ p[2] \in Users /\ p = <<p[1], p[2]>>
           /\ Reverse(p) \in Pairs /\ Reverse(Reverse(p)) = p
           /\ p # NoPair
BY FriendsAssumption DEF FriendsAssumption, Pairs, Reverse, NoPair

----------------------------------------------------------------------------
(* Types.                                                                  *)

\* The types hold initially.
LEMMA TypeInit == Init => TypeOK
<1> SUFFICES ASSUME Init PROVE TypeOK
    OBVIOUS
<1>1. friendships \in Seq(Pairs)
      BY DEF Init
<1>2. /\ requests \in [Pairs -> Nat] /\ wire \in [Pairs \X Tabs -> Nat]
      /\ at \in [Workers -> {"idle", "check", "checkReverse", "insert", "notify"}]
      /\ pair \in [Workers -> Pairs \cup {NoPair}]
      /\ user \in [Tabs -> Users \cup {NoUser}]
      BY DEF Init
<1>3. toasts \in [Tabs -> SUBSET Users] /\ used \in [Tabs -> SUBSET Users]
      BY DEF Init
<1>4. \A w \in Workers : at[w] = "idle" <=> pair[w] = NoPair
      BY DEF Init
<1> QED BY <1>1, <1>2, <1>3, <1>4 DEF Init, TypeOK

\* Every step keeps the types.
LEMMA TypeStep == TypeOK /\ [Next]_vars => TypeOK'
<1> SUFFICES ASSUME TypeOK, [Next]_vars PROVE TypeOK'
    OBVIOUS
<1> USE DEF TypeOK, server
<1>1. CASE \E t \in Tabs, u \in Users : Login(t, u)
      BY <1>1 DEF Login
<1>2. CASE \E t \in Tabs : ClearUser(t)
      BY <1>2 DEF ClearUser
<1>3. CASE \E t \in Tabs : Reload(t)
      BY <1>3 DEF Reload
<1>4. ASSUME NEW w \in Workers, NEW t \in Tabs, NEW to \in Users, FriendRequest(w, t, to)
      PROVE  TypeOK'
      <2>1. <<user[t], to>> \in Pairs
            BY <1>4 DEF FriendRequest, FriendRequestHandler, Pairs
      <2>2. <<user[t], to>> # NoPair
            BY <2>1, PairFacts
      <2> QED BY <1>4, <2>1, <2>2 DEF FriendRequest, FriendRequestHandler
<1>5. ASSUME NEW w \in Workers, Check(w) \/ CheckReverse(w) PROVE TypeOK'
      <2>1. /\ \/ Return(w) \/ Goto(w, "checkReverse") \/ Goto(w, "insert")
            /\ at[w] # "idle" /\ faults' \in Nat
            /\ UNCHANGED <<requests, friendships, user, toasts, wire, started, used, lost>>
            BY <1>5 DEF Check, CheckReverse, DuplicateRequestCheckByID
      <2> QED BY <2>1 DEF Return, Goto
<1>6. ASSUME NEW w \in Workers, Create(w) PROVE TypeOK'
      <2>1. pair[w] \in Pairs
            BY <1>6 DEF Create
      <2>2. /\ requests' \in [Pairs -> Nat] /\ lost' \in SUBSET Pairs
            /\ UNCHANGED <<friendships, user, toasts, wire, started, faults, used>>
            BY <1>6, <2>1 DEF Create, Store
      <2>3. Return(w) \/ Goto(w, "notify")
            BY <1>6 DEF Create
      <2>4. at[w] # "idle"
            BY <1>6 DEF Create
      <2> QED BY <2>2, <2>3, <2>4 DEF Return, Goto
<1>7. ASSUME NEW w \in Workers, Notify(w) PROVE TypeOK'
      <2>1. pair[w] \in Pairs
            BY <1>7 DEF Notify
      <2>2. wire' \in [Pairs \X Tabs -> Nat]
            <3>1. CASE UNCHANGED wire
                  BY <3>1
            <3>2. ASSUME NEW t \in Tabs, wire' = [wire EXCEPT ![<<pair[w], t>>] = @ + 1]
                  PROVE  wire' \in [Pairs \X Tabs -> Nat]
                  <4> DEFINE m == <<pair[w], t>>
                  <4>1. m \in Pairs \X Tabs /\ wire' = [wire EXCEPT ![m] = wire[m] + 1]
                        BY <2>1, <3>2
                  <4> HIDE DEF m
                  <4> QED BY <4>1
            <3> QED BY <1>7, <3>1, <3>2 DEF Notify
      <2>3. lost' \in SUBSET Pairs
            BY <1>7, <2>1 DEF Notify
      <2> QED BY <1>7, <2>2, <2>3 DEF Notify, Return
<1>8. CASE \E p \in Pairs, t \in Tabs : Deliver(p, t)
      BY <1>8, PairFacts DEF Deliver
<1>9. CASE \E p \in Pairs, t \in Tabs : Lose(p, t)
      BY <1>9 DEF Lose
<1>10. ASSUME NEW t \in Tabs, NEW from \in Users, Approve(t, from) PROVE TypeOK'
      <2>1. <<from, user[t]>> \in Pairs
            BY <1>10 DEF Approve, ApproveRequestHandler, AddFriend, Pairs
      <2>2. friendships' \in Seq(Pairs)
            BY <1>10, <2>1 DEF Approve, ApproveRequestHandler, AddFriend
      <2> QED BY <1>10, <2>2 DEF Approve, ApproveRequestHandler, AddFriend
<1>11. CASE UNCHANGED vars
      BY <1>11 DEF vars
<1> QED BY <1>1, <1>2, <1>3, <1>4, <1>5, <1>6, <1>7, <1>8, <1>9, <1>10, <1>11 DEF Next

\* The types of Friends, for every value of the constants.
THEOREM FriendsTypeCorrect == Spec => []TypeOK
BY TypeInit, TypeStep, PTL DEF Spec

----------------------------------------------------------------------------
(* Who asked, who was told, who approved.                                  *)

\* Requests are never deleted, and a tab does not forget who used it: so what
\* was asked stays asked.
LEMMA AskedGrows ==
    ASSUME TypeOK, [Next]_vars
    PROVE  /\ \A p \in Pairs : requests[p] <= requests'[p]
           /\ \A t \in Tabs : used[t] \subseteq used'[t]
<1> USE DEF TypeOK, server
<1>1. CASE \E t \in Tabs, u \in Users : Login(t, u)
      BY <1>1 DEF Login
<1>2. CASE \E t \in Tabs : ClearUser(t) \/ Reload(t)
      BY <1>2 DEF ClearUser, Reload
<1>3. CASE \E w \in Workers, t \in Tabs, to \in Users : FriendRequest(w, t, to)
      BY <1>3 DEF FriendRequest, FriendRequestHandler
<1>4. CASE \E w \in Workers : Check(w) \/ CheckReverse(w) \/ Notify(w)
      BY <1>4 DEF Check, CheckReverse, Notify
<1>5. CASE \E w \in Workers : Create(w)
      BY <1>5 DEF Create, Store
<1>6. CASE \E p \in Pairs, t \in Tabs : Deliver(p, t) \/ Lose(p, t)
      BY <1>6 DEF Deliver, Lose
<1>7. CASE \E t \in Tabs, from \in Users : Approve(t, from)
      BY <1>7 DEF Approve, ApproveRequestHandler, AddFriend
<1>8. CASE UNCHANGED vars
      BY <1>8 DEF vars
<1> QED BY <1>1, <1>2, <1>3, <1>4, <1>5, <1>6, <1>7, <1>8 DEF Next

\* Only a login changes the user of a tab to somebody, and the tab sees it.
LEMMA LoggedStep == TypeOK /\ Logged /\ [Next]_vars => Logged'
<1> SUFFICES ASSUME TypeOK, Logged, [Next]_vars PROVE Logged'
    OBVIOUS
<1> USE DEF TypeOK, Logged, server
<1>1. CASE \E t \in Tabs, u \in Users : Login(t, u)
      BY <1>1 DEF Login
<1>2. CASE \E t \in Tabs : ClearUser(t) \/ Reload(t)
      BY <1>2 DEF ClearUser, Reload
<1>3. CASE UNCHANGED <<user, used>>
      BY <1>3
<1> QED BY <1>1, <1>2, <1>3 DEF Next, FriendRequest, Check, CheckReverse, Create, Notify,
           Deliver, Lose, Approve, vars

\* A handler that notifies has stored its request; a notification goes to a
\* tab of its receiver.
LEMMA GroundedStep == TypeOK /\ Logged /\ Grounded /\ [Next]_vars => Grounded'
<1> SUFFICES ASSUME TypeOK, Logged, Grounded, [Next]_vars PROVE Grounded'
    OBVIOUS
<1>1. \A w \in Workers : at'[w] = "notify" => requests'[pair'[w]] > 0
      <2>1. SUFFICES ASSUME NEW w \in Workers, at'[w] = "notify"
                     PROVE  requests'[pair'[w]] > 0
            OBVIOUS
      <2>2. CASE at[w] = "notify" /\ UNCHANGED pair[w]
            <3>1. pair[w] \in Pairs
                  BY <2>2 DEF TypeOK
            <3>2. requests[pair[w]] \in Nat /\ requests'[pair[w]] \in Nat
                  BY <3>1, TypeStep DEF TypeOK
            <3> QED BY <2>2, <3>1, <3>2, AskedGrows DEF Grounded
      <2>3. CASE Create(w) /\ Store(pair[w]) /\ UNCHANGED pair
            <3>1. pair[w] \in Pairs
                  BY <2>3 DEF TypeOK, Create
            <3> QED BY <2>3, <3>1 DEF Store, TypeOK
      <2>4. ASSUME NEW v \in Workers, Check(v) \/ CheckReverse(v) \/ Create(v) \/ Notify(v)
            PROVE  \/ at[w] = "notify" /\ UNCHANGED pair[w]
                   \/ Create(w) /\ Store(pair[w]) /\ UNCHANGED pair
            <3>1. CASE v = w
                  BY <2>1, <2>4, <3>1 DEF TypeOK, Check, CheckReverse, Create, Notify,
                     DuplicateRequestCheckByID, Goto, Return
            <3>2. CASE v # w
                  BY <2>1, <2>4, <3>2 DEF TypeOK, Check, CheckReverse, Create, Notify,
                     DuplicateRequestCheckByID, Goto, Return
            <3> QED BY <3>1, <3>2
      <2>5. CASE \E v \in Workers, t \in Tabs, to \in Users : FriendRequest(v, t, to)
            BY <2>1, <2>2, <2>5 DEF FriendRequest, FriendRequestHandler, TypeOK
      <2>6. CASE UNCHANGED <<at, pair>>
            BY <2>1, <2>2, <2>6
      <2> QED BY <2>2, <2>3, <2>4, <2>5, <2>6 DEF Next, server, Login, ClearUser, Reload,
                 Deliver, Lose, Approve, vars
<1>2. \A p \in Pairs, t \in Tabs : wire'[<<p, t>>] > 0 => p[2] \in used'[t]
      <2>1. SUFFICES ASSUME NEW p \in Pairs, NEW t \in Tabs, wire'[<<p, t>>] > 0
                     PROVE  p[2] \in used'[t]
            OBVIOUS
      <2>2. CASE wire[<<p, t>>] > 0
            BY <2>2, AskedGrows DEF Grounded
      <2>3. ASSUME NEW w \in Workers, Notify(w) PROVE p[2] \in used'[t]
            <3>1. CASE UNCHANGED wire
                  BY <2>1, <2>2, <3>1
            <3>2. ASSUME NEW s \in Tabs, user[s] = pair[w][2],
                         wire' = [wire EXCEPT ![<<pair[w], s>>] = @ + 1]
                  PROVE  p[2] \in used'[t]
                  <4>1. CASE <<p, t>> = <<pair[w], s>>
                        <5>1. user[t] = p[2] /\ user[t] # NoUser
                              BY <3>2, <4>1, PairFacts, FriendsAssumption DEF FriendsAssumption
                        <5> QED BY <5>1, <2>3 DEF Logged, Notify
                  <4>2. CASE <<p, t>> # <<pair[w], s>>
                        <5>1. wire'[<<p, t>>] = wire[<<p, t>>]
                              BY <3>2, <4>2 DEF TypeOK
                        <5> QED BY <2>1, <2>2, <5>1
                  <4> QED BY <4>1, <4>2
            <3> QED BY <2>3, <3>1, <3>2 DEF Notify
      <2>4. CASE \E q \in Pairs, s \in Tabs : Deliver(q, s) \/ Lose(q, s)
            <3>1. PICK q \in Pairs, s \in Tabs :
                     wire[<<q, s>>] > 0 /\ wire' = [wire EXCEPT ![<<q, s>>] = @ - 1]
                  BY <2>4 DEF Deliver, Lose
            <3>2. wire[<<p, t>>] > 0
                  BY <2>1, <3>1 DEF TypeOK
            <3> QED BY <2>2, <3>2
      <2>5. CASE \E s \in Tabs : Reload(s)
            <3>1. wire[<<p, t>>] > 0
                  BY <2>1, <2>5 DEF Reload
            <3> QED BY <2>2, <3>1
      <2>6. CASE UNCHANGED wire
            BY <2>1, <2>2, <2>6
      <2> QED BY <2>3, <2>4, <2>5, <2>6 DEF Next, Login, ClearUser, FriendRequest, Check,
                 CheckReverse, Create, Approve, vars
<1> QED BY <1>1, <1>2 DEF Grounded

\* A toast comes from a notification, and a notification from a stored row.
LEMMA ToldStep ==
    TypeOK /\ Grounded /\ ToldOfStored /\ [Next]_vars => ToldOfStored'
<1> SUFFICES ASSUME TypeOK, Grounded, ToldOfStored, [Next]_vars PROVE ToldOfStored'
    OBVIOUS
<1>0. /\ \A p \in Pairs : requests[p] \in Nat /\ requests'[p] \in Nat
      /\ \A p \in Pairs : requests[p] > 0 => requests'[p] > 0
      BY AskedGrows, TypeStep DEF TypeOK
<1>1. \A p \in Pairs, t \in Tabs : wire'[<<p, t>>] > 0 => requests'[p] > 0
      <2>1. SUFFICES ASSUME NEW p \in Pairs, NEW t \in Tabs, wire'[<<p, t>>] > 0
                     PROVE  requests'[p] > 0
            OBVIOUS
      <2>2. CASE wire[<<p, t>>] > 0
            BY <2>2, <1>0 DEF ToldOfStored
      <2>3. ASSUME NEW w \in Workers, Notify(w) PROVE requests'[p] > 0
            <3>1. requests[pair[w]] > 0 /\ UNCHANGED requests
                  BY <2>3 DEF Grounded, Notify
            <3>2. CASE p = pair[w]
                  BY <3>1, <3>2
            <3>3. CASE p # pair[w]
                  BY <2>1, <2>2, <2>3, <3>3 DEF Notify, TypeOK
            <3> QED BY <3>2, <3>3
      <2>4. CASE \E q \in Pairs, s \in Tabs : Deliver(q, s) \/ Lose(q, s)
            <3>1. PICK q \in Pairs, s \in Tabs :
                     wire[<<q, s>>] > 0 /\ wire' = [wire EXCEPT ![<<q, s>>] = @ - 1]
                  BY <2>4 DEF Deliver, Lose
            <3> QED BY <2>1, <2>2, <3>1 DEF TypeOK
      <2>5. CASE \E s \in Tabs : Reload(s)
            BY <2>1, <2>2, <2>5 DEF Reload
      <2>6. CASE UNCHANGED wire
            BY <2>1, <2>2, <2>6
      <2> QED BY <2>3, <2>4, <2>5, <2>6 DEF Next, Login, ClearUser, FriendRequest, Check,
                 CheckReverse, Create, Approve, vars
<1>2. \A t \in Tabs : \A a \in toasts'[t] : \E c \in used'[t] : requests'[<<a, c>>] > 0
      <2>1. SUFFICES ASSUME NEW t \in Tabs, NEW a \in toasts'[t]
                     PROVE  \E c \in used'[t] : requests'[<<a, c>>] > 0
            OBVIOUS
      <2>2. CASE a \in toasts[t]
            <3>1. PICK c \in used[t] : requests[<<a, c>>] > 0
                  BY <2>2 DEF ToldOfStored
            <3>2. <<a, c>> \in Pairs /\ c \in used'[t]
                  BY <2>2, AskedGrows DEF TypeOK, Pairs
            <3> QED BY <1>0, <3>1, <3>2
      <2>3. ASSUME NEW p \in Pairs, NEW s \in Tabs, Deliver(p, s)
            PROVE  \E c \in used'[t] : requests'[<<a, c>>] > 0
            <3>1. CASE s = t /\ a = p[1]
                  <4>1. wire[<<p, t>>] > 0 /\ UNCHANGED <<requests, used>>
                        BY <2>3, <3>1 DEF Deliver, server
                  <4>2. requests[p] > 0 /\ p[2] \in used[t]
                        BY <4>1 DEF ToldOfStored, Grounded
                  <4>3. p = <<a, p[2]>>
                        BY <3>1, PairFacts
                  <4> QED BY <4>1, <4>2, <4>3
            <3>2. CASE ~(s = t /\ a = p[1])
                  BY <2>1, <2>2, <2>3, <3>2 DEF Deliver, TypeOK
            <3> QED BY <3>1, <3>2
      <2>4. CASE \E s \in Tabs : Reload(s)
            BY <2>1, <2>2, <2>4 DEF Reload, TypeOK
      <2>5. CASE UNCHANGED toasts
            BY <2>1, <2>2, <2>5
      <2> QED BY <2>3, <2>4, <2>5 DEF Next, Login, ClearUser, FriendRequest, Check,
                 CheckReverse, Create, Notify, Lose, Approve, vars
<1> QED BY <1>1, <1>2 DEF ToldOfStored

\* An approval is of a toast, which is of somebody who asked.
LEMMA RowsAskedStep ==
    TypeOK /\ Logged /\ ToldOfStored /\ RowsAsked /\ [Next]_vars => RowsAsked'
<1> SUFFICES ASSUME TypeOK, Logged, ToldOfStored, RowsAsked, [Next]_vars,
                    NEW i \in 1..Len(friendships')
             PROVE  \E t \in Tabs :
                       /\ friendships'[i][2] \in used'[t]
                       /\ \E c \in used'[t] : requests'[<<friendships'[i][1], c>>] > 0
    BY DEF RowsAsked, Asked
<1> DEFINE a == friendships'[i][1]
           b == friendships'[i][2]
<1>1. ASSUME NEW t \in Tabs, NEW c \in used[t], a \in Users, b \in used[t],
             requests[<<a, c>>] > 0
      PROVE  b \in used'[t] /\ \E d \in used'[t] : requests'[<<a, d>>] > 0
      <2>1. <<a, c>> \in Pairs /\ c \in used'[t] /\ b \in used'[t]
            <3>1. c \in Users /\ used[t] \subseteq used'[t]
                  BY <1>1, AskedGrows DEF TypeOK
            <3> QED BY <1>1, <3>1 DEF Pairs
      <2>2. requests'[<<a, c>>] > 0
            <3>1. requests[<<a, c>>] \in Nat /\ requests'[<<a, c>>] \in Nat
                  BY <2>1, TypeStep DEF TypeOK
            <3>2. requests[<<a, c>>] <= requests'[<<a, c>>]
                  BY <2>1, AskedGrows
            <3> QED BY <1>1, <3>1, <3>2
      <2> QED BY <2>1, <2>2
<1>2. CASE i \in 1..Len(friendships) /\ friendships'[i] = friendships[i]
      <2>1. a \in Users
            BY <1>2, PairFacts DEF TypeOK
      <2>2. Asked(a, b)
            BY <1>2 DEF RowsAsked
      <2>3. PICK t \in Tabs : b \in used[t] /\ \E c \in used[t] : requests[<<a, c>>] > 0
            BY <2>2 DEF Asked
      <2> QED BY <1>1, <2>1, <2>3
<1>3. ASSUME NEW t \in Tabs, NEW from \in Users, Approve(t, from)
      PROVE  \E s \in Tabs : b \in used'[s] /\ \E c \in used'[s] : requests'[<<a, c>>] > 0
      <2>1. friendships' = Append(friendships, <<from, user[t]>>)
            BY <1>3 DEF Approve, ApproveRequestHandler, AddFriend
      <2>2. CASE i = Len(friendships) + 1
            <3>1. a = from /\ b = user[t]
                  BY <2>1, <2>2 DEF TypeOK
            <3>2. b \in used[t]
                  BY <1>3, <3>1 DEF Approve, ApproveRequestHandler, AddFriend, Logged
            <3>3. \E c \in used[t] : requests[<<a, c>>] > 0
                  BY <1>3, <3>1 DEF Approve, ApproveRequestHandler, AddFriend, ToldOfStored
            <3>4. PICK c \in used[t] : requests[<<a, c>>] > 0
                  BY <3>3
            <3>5. b \in used'[t] /\ \E d \in used'[t] : requests'[<<a, d>>] > 0
                  BY <1>1, <3>1, <3>2, <3>4
            <3> QED BY <3>5
      <2>3. CASE i # Len(friendships) + 1
            <3>1. friendships \in Seq(Pairs)
                  BY DEF TypeOK
            <3>2. i \in 1..Len(friendships) /\ friendships'[i] = friendships[i]
                  BY <2>1, <2>3, <3>1
            <3> QED BY <1>2, <3>2
      <2> QED BY <2>2, <2>3
<1>4. CASE UNCHANGED friendships
      BY <1>2, <1>4
<1> QED BY <1>3, <1>4 DEF Next, server, Login, ClearUser, Reload, FriendRequest, Check,
           CheckReverse, Create, Notify, Deliver, Lose, vars

\* A stored request leaves no state without leaving its trace in the next.
LEMMA NoSilentLossStep ==
    TypeOK /\ Grounded /\ NoSilentLoss /\ [Next]_vars => NoSilentLoss'
<1> SUFFICES ASSUME TypeOK, Grounded, NoSilentLoss, [Next]_vars,
                    NEW p \in Pairs, requests'[p] > 0
             PROVE  \/ \E w \in Workers : at'[w] = "notify" /\ pair'[w] = p
                    \/ \E t \in Tabs : wire'[<<p, t>>] > 0
                    \/ \E t \in Tabs : p[1] \in toasts'[t] /\ p[2] \in used'[t]
                    \/ p \in lost'
    BY DEF NoSilentLoss
<1> DEFINE Traced == \/ \E w \in Workers : at'[w] = "notify" /\ pair'[w] = p
                     \/ \E t \in Tabs : wire'[<<p, t>>] > 0
                     \/ \E t \in Tabs : p[1] \in toasts'[t] /\ p[2] \in used'[t]
                     \/ p \in lost'
<1> USE DEF server
<1>0. p[1] \in Users /\ p[2] \in Users
      BY PairFacts
<1>1. ASSUME NEW w \in Workers, Create(w) PROVE Traced
      <2>1. pair[w] \in Pairs
            BY <1>1 DEF Create, TypeOK
      <2>2. CASE p = pair[w] /\ Store(pair[w])
            <3>1. CASE Goto(w, "notify")
                  BY <2>2, <3>1 DEF Goto, TypeOK
            <3>2. CASE lost' = lost \cup {pair[w]}
                  BY <2>2, <3>2
            <3>3. CASE UNCHANGED <<requests, lost>>
                  BY <2>1, <2>2, <3>3 DEF Store, TypeOK
            <3> QED BY <1>1, <3>1, <3>2, <3>3 DEF Create
      <2>3. CASE ~(p = pair[w] /\ Store(pair[w]))
            <3>1. requests[p] > 0
                  BY <1>1, <2>1, <2>3 DEF Create, Store, TypeOK
            <3>2. \A v \in Workers : at[v] = "notify" => at'[v] = "notify" /\ pair'[v] = pair[v]
                  BY <1>1 DEF Create, Goto, Return, TypeOK
            <3> QED BY <1>1, <3>1, <3>2 DEF Create, NoSilentLoss
      <2> QED BY <2>2, <2>3
<1>2. ASSUME UNCHANGED requests
      PROVE  \/ \E w \in Workers : at[w] = "notify" /\ pair[w] = p
             \/ \E t \in Tabs : wire[<<p, t>>] > 0
             \/ \E t \in Tabs : p[1] \in toasts[t] /\ p[2] \in used[t]
             \/ p \in lost
      BY <1>2 DEF NoSilentLoss
<1>3. ASSUME NEW w \in Workers, Notify(w) PROVE Traced
      <2>1. \A v \in Workers : v # w => at'[v] = at[v] /\ pair'[v] = pair[v]
            BY <1>3 DEF Notify, Return, TypeOK
      <2>2. pair[w] \in Pairs
            BY <1>3 DEF Notify, TypeOK
      <2>3. \A t \in Tabs : wire'[<<p, t>>] >= wire[<<p, t>>]
            <3>1. CASE UNCHANGED wire
                  BY <3>1 DEF TypeOK
            <3>2. ASSUME NEW s \in Tabs, wire' = [wire EXCEPT ![<<pair[w], s>>] = @ + 1],
                         NEW t \in Tabs
                  PROVE  wire'[<<p, t>>] >= wire[<<p, t>>]
                  <4> DEFINE m == <<pair[w], s>>
                             n == <<p, t>>
                  <4>1. /\ m \in Pairs \X Tabs /\ n \in Pairs \X Tabs
                        /\ wire' = [wire EXCEPT ![m] = wire[m] + 1]
                        BY <2>2, <3>2
                  <4> HIDE DEF m, n
                  <4>2. wire'[n] >= wire[n]
                        BY <4>1 DEF TypeOK
                  <4> QED BY <4>2 DEF n
            <3> QED BY <1>3, <3>1, <3>2 DEF Notify
      <2>4. CASE p = pair[w]
            <3>1. ASSUME NEW s \in Tabs, wire' = [wire EXCEPT ![<<p, s>>] = @ + 1]
                  PROVE  wire'[<<p, s>>] > 0
                  BY <3>1 DEF TypeOK
            <3> QED BY <1>3, <2>4, <3>1 DEF Notify
      <2>5. CASE p # pair[w]
            <3>1. \A t \in Tabs : wire[<<p, t>>] > 0 => wire'[<<p, t>>] > 0
                  BY <2>3, TypeStep DEF TypeOK
            <3> QED BY <1>2, <1>3, <2>1, <2>5, <3>1 DEF Notify
      <2> QED BY <2>4, <2>5
<1>4. ASSUME NEW q \in Pairs, NEW s \in Tabs, Deliver(q, s) \/ Lose(q, s) PROVE Traced
      <2>1. CASE p = q
            <3>1. p[2] \in used[s]
                  BY <1>4, <2>1 DEF Grounded, Deliver, Lose
            <3>2. CASE Deliver(q, s)
                  <4>1. p[1] \in toasts'[s] /\ p[2] \in used'[s]
                        BY <2>1, <3>1, <3>2 DEF Deliver, TypeOK
                  <4> QED BY <4>1
            <3>3. CASE Lose(q, s)
                  BY <2>1, <3>3 DEF Lose
            <3> QED BY <1>4, <3>2, <3>3
      <2>2. CASE p # q
            <3>1. \A t \in Tabs : wire'[<<p, t>>] = wire[<<p, t>>]
                  BY <1>4, <2>2 DEF Deliver, Lose, TypeOK
            <3>2. \A t \in Tabs : toasts[t] \subseteq toasts'[t]
                  <4>1. CASE toasts' = [toasts EXCEPT ![s] = @ \cup {q[1]}]
                        BY <4>1 DEF TypeOK
                  <4>2. CASE toasts' = toasts
                        BY <4>2
                  <4> QED BY <1>4, <4>1, <4>2 DEF Deliver, Lose
            <3> QED BY <1>2, <1>4, <3>1, <3>2 DEF Deliver, Lose
      <2> QED BY <2>1, <2>2
<1>5. ASSUME NEW s \in Tabs, Reload(s) PROVE Traced
      <2>1. \A t \in Tabs : t # s => toasts'[t] = toasts[t] /\ wire'[<<p, t>>] = wire[<<p, t>>]
            BY <1>5 DEF Reload, TypeOK
      <2>2. CASE wire[<<p, s>>] > 0 \/ (p[1] \in toasts[s] /\ p[2] \in used[s])
            BY <1>5, <2>2 DEF Reload
      <2>3. CASE ~(wire[<<p, s>>] > 0 \/ (p[1] \in toasts[s] /\ p[2] \in used[s]))
            BY <1>2, <1>5, <2>1, <2>3 DEF Reload
      <2> QED BY <2>2, <2>3
<1>6. CASE \E t \in Tabs, u \in Users : Login(t, u)
      BY <1>2, <1>6, AskedGrows DEF Login
<1>7. ASSUME NEW w \in Workers, NEW t \in Tabs, NEW to \in Users, FriendRequest(w, t, to)
      PROVE  Traced
      BY <1>2, <1>7 DEF FriendRequest, FriendRequestHandler, TypeOK
<1>8. ASSUME NEW w \in Workers, Check(w) \/ CheckReverse(w) PROVE Traced
      <2>1. \A v \in Workers : at[v] = "notify" => at'[v] = "notify" /\ pair'[v] = pair[v]
            BY <1>8 DEF Check, CheckReverse, DuplicateRequestCheckByID, Goto, Return, TypeOK
      <2> QED BY <1>2, <1>8, <2>1 DEF Check, CheckReverse
<1>9. CASE (\E t \in Tabs : ClearUser(t)) \/ (\E t \in Tabs, from \in Users : Approve(t, from))
      BY <1>2, <1>9 DEF ClearUser, Approve
<1>10. CASE UNCHANGED vars
      BY <1>2, <1>10 DEF vars
<1> QED BY <1>1, <1>3, <1>4, <1>5, <1>6, <1>7, <1>8, <1>9, <1>10 DEF Next

----------------------------------------------------------------------------
(* How many requests two users can have between them.                      *)

\* Late handlers are handlers, and so finitely many.
LEMMA LateFinite ==
    ASSUME NEW p \in Pairs
    PROVE  IsFiniteSet(Late(p)) /\ Cardinality(Late(p)) \in Nat
           /\ Cardinality(Late(p)) <= Cardinality(Workers)
           /\ Cardinality(Workers) \in Nat
<1>1. Late(p) \in SUBSET Workers /\ IsFiniteSet(Workers)
      BY FriendsAssumption DEF FriendsAssumption, Late
<1>2. IsFiniteSet(Late(p)) /\ Cardinality(Late(p)) <= Cardinality(Workers)
      BY <1>1, FS_Subset
<1>3. Cardinality(Late(p)) \in Nat /\ Cardinality(Workers) \in Nat
      BY <1>1, <1>2, FS_CardinalityType
<1> QED BY <1>2, <1>3

\* A finite set that gains one element at most.
LEMMA OneMore ==
    ASSUME NEW S, NEW T, NEW x, IsFiniteSet(S), T \subseteq S \cup {x}
    PROVE  IsFiniteSet(T) /\ Cardinality(T) <= Cardinality(S) + 1
<1>0. Cardinality(S) \in Nat
      BY FS_CardinalityType
<1>1. IsFiniteSet(S \cup {x}) /\ Cardinality(S \cup {x}) <= Cardinality(S) + 1
      BY <1>0, FS_AddElement
<1>2. IsFiniteSet(T) /\ Cardinality(T) <= Cardinality(S \cup {x})
      BY <1>1, FS_Subset
<1>3. Cardinality(S \cup {x}) \in Nat /\ Cardinality(T) \in Nat
      BY <1>1, <1>2, FS_CardinalityType
<1> QED BY <1>0, <1>1, <1>2, <1>3

\* A finite set that loses one.
LEMMA OneLess ==
    ASSUME NEW S, NEW T, NEW x, IsFiniteSet(S), x \in S, T \subseteq S \ {x}
    PROVE  Cardinality(T) <= Cardinality(S) - 1
<1>1. IsFiniteSet(S \ {x}) /\ Cardinality(S \ {x}) = Cardinality(S) - 1
      BY FS_RemoveElement
<1>2. Cardinality(T) <= Cardinality(S \ {x})
      BY <1>1, FS_Subset
<1> QED BY <1>1, <1>2

\* The rows between two users are a number.
LEMMA RowsType ==
    ASSUME TypeOK, NEW p \in Pairs
    PROVE  Rows(p) \in Nat /\ (Rows(p) = 0 => requests[p] = 0 /\ requests[Reverse(p)] = 0)
BY PairFacts DEF TypeOK, Rows

\* A step that neither stores a request nor lets a handler through.
LEMMA QuietBounded ==
    ASSUME TypeOK, LateBounded, UNCHANGED <<requests, faults>>,
           \A p \in Pairs : Rows(p) > 0 => Late(p)' \subseteq Late(p)
    PROVE  LateBounded'
<1> SUFFICES ASSUME NEW p \in Pairs, Rows(p)' > 0
             PROVE  Rows(p)' + Cardinality(Late(p)') <= Cardinality(Workers) + faults'
    BY DEF LateBounded
<1>1. Rows(p)' = Rows(p) /\ faults' = faults
      BY DEF Rows
<1>2. Cardinality(Late(p)') <= Cardinality(Late(p)) /\ Cardinality(Late(p)') \in Nat
      BY <1>1, LateFinite, FS_Subset, FS_CardinalityType
<1>3. Rows(p) + Cardinality(Late(p)) <= Cardinality(Workers) + faults
      BY <1>1 DEF LateBounded
<1> QED BY <1>1, <1>2, <1>3, LateFinite, RowsType DEF TypeOK

\* A check that failed lets at most its own handler through.
LEMMA FaultBounded ==
    ASSUME TypeOK, LateBounded, UNCHANGED requests, faults' = faults + 1, NEW w,
           \A p \in Pairs : Late(p)' \subseteq Late(p) \cup {w}
    PROVE  LateBounded'
<1> SUFFICES ASSUME NEW p \in Pairs, Rows(p)' > 0
             PROVE  Rows(p)' + Cardinality(Late(p)') <= Cardinality(Workers) + faults'
    BY DEF LateBounded
<1>1. Rows(p)' = Rows(p)
      BY DEF Rows
<1>2. Cardinality(Late(p)') <= Cardinality(Late(p)) + 1 /\ Cardinality(Late(p)') \in Nat
      BY LateFinite, OneMore, FS_CardinalityType
<1>3. Rows(p) + Cardinality(Late(p)) <= Cardinality(Workers) + faults
      BY <1>1 DEF LateBounded
<1> QED BY <1>1, <1>2, <1>3, LateFinite, RowsType DEF TypeOK

\* A handler that stores its request is not late any more.
LEMMA StoreBounded ==
    ASSUME TypeOK, LateBounded, NEW w \in Workers, at[w] = "insert", Store(pair[w]),
           UNCHANGED faults,
           \A p \in Pairs : Late(p)' \subseteq Late(p) \ {w}
    PROVE  LateBounded'
<1> SUFFICES ASSUME NEW p \in Pairs, Rows(p)' > 0
             PROVE  Rows(p)' + Cardinality(Late(p)') <= Cardinality(Workers) + faults'
    BY DEF LateBounded
<1>0. pair[w] \in Pairs
      BY DEF TypeOK
<1>1. CASE pair[w] \in {p, Reverse(p)}
      <2>1. w \in Late(p)
            BY <1>1 DEF Late
      <2>2. Cardinality(Late(p)') <= Cardinality(Late(p)) - 1
            BY <2>1, LateFinite, OneLess
      <2>3. Cardinality(Late(p)') \in Nat
            BY LateFinite, FS_Subset, FS_CardinalityType
      <2>4. Rows(p)' = Rows(p) + 1
            <3>1. CASE p = Reverse(p)
                  BY <1>0, <1>1, <3>1 DEF Rows, Store, TypeOK
            <3>2. CASE p # Reverse(p)
                  <4>1. Reverse(p) \in Pairs
                        BY PairFacts
                  <4> QED BY <1>0, <1>1, <3>2, <4>1 DEF Rows, Store, TypeOK
            <3> QED BY <3>1, <3>2
      <2>5. CASE Rows(p) = 0
            BY <2>2, <2>3, <2>4, <2>5, LateFinite DEF TypeOK
      <2>6. CASE Rows(p) > 0
            BY <2>2, <2>3, <2>4, <2>6, LateFinite, RowsType DEF TypeOK, LateBounded
      <2> QED BY <2>5, <2>6, RowsType
<1>2. CASE pair[w] \notin {p, Reverse(p)}
      <2>1. Rows(p)' = Rows(p)
            <3>1. Reverse(p) \in Pairs
                  BY PairFacts
            <3> QED BY <1>0, <1>2, <3>1 DEF Rows, Store, TypeOK
      <2>2. Cardinality(Late(p)') <= Cardinality(Late(p)) /\ Cardinality(Late(p)') \in Nat
            BY LateFinite, FS_Subset, FS_CardinalityType
      <2> QED BY <2>1, <2>2, LateFinite, RowsType DEF TypeOK, LateBounded
<1> QED BY <1>1, <1>2

\* Every step keeps the bound.
LEMMA LateStep == TypeOK /\ LateBounded /\ [Next]_vars => LateBounded'
<1> SUFFICES ASSUME TypeOK, LateBounded, [Next]_vars PROVE LateBounded'
    OBVIOUS
<1>1. CASE UNCHANGED <<requests, at, pair, faults>>
      <2>1. \A p \in Pairs : Late(p)' \subseteq Late(p)
            BY <1>1 DEF Late
      <2> QED BY <1>1, <2>1, QuietBounded
<1>2. ASSUME NEW w \in Workers,
             \A v \in Workers \ {w} : at'[v] = at[v] /\ pair'[v] = pair[v],
             at'[w] \notin {"checkReverse", "insert"}, UNCHANGED <<requests, faults>>
      PROVE  LateBounded'
      <2>1. \A p \in Pairs : Late(p)' \subseteq Late(p)
            BY <1>2 DEF Late
      <2> QED BY <1>2, <2>1, QuietBounded
<1>3. ASSUME NEW w \in Workers, NEW t \in Tabs, NEW to \in Users, FriendRequest(w, t, to)
      PROVE  LateBounded'
      BY <1>2, <1>3 DEF FriendRequest, FriendRequestHandler, TypeOK
<1>4. ASSUME NEW w \in Workers, Notify(w) PROVE LateBounded'
      BY <1>2, <1>4 DEF Notify, Return, TypeOK
<1>5. ASSUME NEW w \in Workers, Return(w), UNCHANGED <<requests, faults>> PROVE LateBounded'
      BY <1>2, <1>5 DEF Return, TypeOK
<1>6. ASSUME NEW w \in Workers, NEW next \in {"checkReverse", "insert"}, Goto(w, next),
             UNCHANGED requests, faults' = faults + 1
      PROVE  LateBounded'
      <2>1. \A v \in Workers \ {w} : at'[v] = at[v] /\ pair'[v] = pair[v]
            BY <1>6 DEF Goto, TypeOK
      <2>2. \A p \in Pairs : Late(p)' \subseteq Late(p) \cup {w}
            BY <1>6, <2>1 DEF Late
      <2> QED BY <1>6, <2>2, FaultBounded
<1>7. ASSUME NEW w \in Workers, Check(w) PROVE LateBounded'
      <2>1. CASE requests[pair[w]] = 0 /\ Goto(w, "checkReverse") /\ UNCHANGED <<requests, faults>>
            <3>1. SUFFICES ASSUME NEW p \in Pairs, Rows(p) > 0, NEW v \in Late(p)'
                           PROVE  v \in Late(p)
                  BY <2>1, QuietBounded
            <3>2. CASE v # w
                  BY <2>1, <3>1, <3>2 DEF Late, Goto, TypeOK
            <3>3. CASE v = w
                  <4>1. /\ pair[w] \in {p, Reverse(p)} /\ at'[w] = "checkReverse"
                        /\ requests[Reverse(pair[w])] = 0
                        BY <2>1, <3>1, <3>3 DEF Late, Goto, TypeOK
                  <4>2. requests[p] = 0 /\ requests[Reverse(p)] = 0
                        BY <2>1, <4>1, PairFacts
                  <4>3. Rows(p) = 0
                        BY <4>2 DEF Rows
                  <4> QED BY <3>1, <4>3
            <3> QED BY <3>2, <3>3
      <2> QED BY <1>5, <1>6, <1>7, <2>1 DEF Check, DuplicateRequestCheckByID
<1>8. ASSUME NEW w \in Workers, CheckReverse(w) PROVE LateBounded'
      <2>1. CASE /\ requests[Reverse(pair[w])] = 0 /\ Goto(w, "insert")
                 /\ UNCHANGED <<requests, faults>>
            <3>1. SUFFICES ASSUME NEW p \in Pairs, NEW v \in Late(p)'
                           PROVE  v \in Late(p)
                  BY <2>1, QuietBounded
            <3>2. CASE v # w
                  BY <2>1, <3>1, <3>2 DEF Late, Goto, TypeOK
            <3>3. CASE v = w
                  BY <1>8, <2>1, <3>1, <3>3 DEF Late, Goto, CheckReverse
            <3> QED BY <3>2, <3>3
      <2> QED BY <1>5, <1>6, <1>8, <2>1 DEF CheckReverse, DuplicateRequestCheckByID
<1>9. ASSUME NEW w \in Workers, Create(w) PROVE LateBounded'
      <2>1. CASE Store(pair[w])
            <3>1. \A p \in Pairs : Late(p)' \subseteq Late(p) \ {w}
                  <4>1. SUFFICES ASSUME NEW p \in Pairs, NEW v \in Late(p)'
                                 PROVE  v \in Late(p) /\ v # w
                        OBVIOUS
                  <4>2. at'[w] \notin {"checkReverse", "insert"}
                        BY <1>9 DEF Create, Goto, Return, TypeOK
                  <4>3. v # w /\ v \in Workers
                        BY <4>1, <4>2 DEF Late
                  <4>4. at'[v] = at[v] /\ pair'[v] = pair[v]
                        BY <1>9, <4>3 DEF Create, Goto, Return, TypeOK
                  <4>5. pair[v] \in {p, Reverse(p)}
                        BY <4>1, <4>4 DEF Late
                  <4>6. Reverse(pair[v]) \in Pairs
                        BY <4>5, PairFacts
                  <4>7. requests'[Reverse(pair[v])] = 0 => requests[Reverse(pair[v])] = 0
                        BY <4>6, AskedGrows, TypeStep DEF TypeOK
                  <4> QED BY <4>1, <4>3, <4>4, <4>7 DEF Late
            <3> QED BY <1>9, <2>1, <3>1, StoreBounded DEF Create
      <2>2. CASE UNCHANGED requests /\ Return(w)
            BY <1>5, <1>9, <2>2 DEF Create
      <2> QED BY <1>9, <2>1, <2>2 DEF Create
<1> QED BY <1>1, <1>3, <1>4, <1>7, <1>8, <1>9 DEF Next, server, Login, ClearUser, Reload,
           Deliver, Lose, Approve, vars

\* A stored request stops every handler whose checks do not fail.
LEMMA NobodyIsLate ==
    ASSUME TypeOK, TypeOK', [Next]_vars, NEW p \in Pairs, Rows(p) > 0, faults' = faults
    PROVE  Late(p)' \subseteq Late(p)
<1> SUFFICES ASSUME NEW v \in Late(p)' PROVE v \in Late(p)
    OBVIOUS
<1>0. /\ v \in Workers /\ pair'[v] \in {p, Reverse(p)}
      /\ \/ at'[v] = "insert"
         \/ at'[v] = "checkReverse" /\ requests'[Reverse(pair'[v])] = 0
      /\ Reverse(p) \in Pairs /\ Reverse(Reverse(p)) = p
      BY PairFacts DEF Late
<1>1. requests'[Reverse(pair'[v])] = 0 => requests[Reverse(pair'[v])] = 0
      BY <1>0, AskedGrows DEF TypeOK
<1>2. CASE at'[v] = at[v] /\ pair'[v] = pair[v]
      BY <1>0, <1>1, <1>2 DEF Late
<1>3. CASE Check(v)
      <2>1. at[v] = "check" /\ requests[pair[v]] = 0 /\ Goto(v, "checkReverse")
            BY <1>0, <1>3 DEF Check, DuplicateRequestCheckByID, Return, TypeOK
      <2>2. at'[v] = "checkReverse" /\ pair'[v] = pair[v]
            BY <1>0, <2>1 DEF Goto, TypeOK
      <2>3. requests[p] = 0 /\ requests[Reverse(p)] = 0
            BY <1>0, <1>1, <2>1, <2>2
      <2> QED BY <2>3 DEF Rows
<1>4. CASE CheckReverse(v)
      <2>1. /\ at[v] = "checkReverse" /\ requests[Reverse(pair[v])] = 0
            /\ pair'[v] = pair[v]
            BY <1>0, <1>4 DEF CheckReverse, DuplicateRequestCheckByID, Goto, Return, TypeOK
      <2> QED BY <1>0, <2>1 DEF Late
<1>5. ASSUME NEW w \in Workers,
             \/ Create(w) \/ Notify(w)
             \/ w # v /\ (Check(w) \/ CheckReverse(w))
             \/ \E t \in Tabs, to \in Users : FriendRequest(w, t, to)
      PROVE  at'[v] = at[v] /\ pair'[v] = pair[v]
      BY <1>0, <1>5 DEF Create, Notify, Check, CheckReverse, DuplicateRequestCheckByID, Goto,
         Return, FriendRequest, FriendRequestHandler, TypeOK
<1>6. CASE UNCHANGED <<at, pair>>
      BY <1>2, <1>6
<1>7. CASE \E w \in Workers : Check(w) \/ CheckReverse(w)
      BY <1>2, <1>3, <1>4, <1>5, <1>7
<1>8. CASE \E w \in Workers : \/ Create(w) \/ Notify(w)
                               \/ \E t \in Tabs, to \in Users : FriendRequest(w, t, to)
      BY <1>2, <1>5, <1>8
<1>9. ASSUME NEW t \in Tabs, \/ (\E u \in Users : Login(t, u)) \/ ClearUser(t) \/ Reload(t)
                             \/ \E from \in Users : Approve(t, from)
      PROVE  UNCHANGED <<at, pair>>
      BY <1>9 DEF server, Login, ClearUser, Reload, Approve
<1>10. ASSUME NEW q \in Pairs, NEW t \in Tabs, Deliver(q, t) \/ Lose(q, t)
       PROVE  UNCHANGED <<at, pair>>
      BY <1>10 DEF server, Deliver, Lose
<1>11. CASE UNCHANGED vars
      BY <1>6, <1>11 DEF vars
<1> QED BY <1>6, <1>7, <1>8, <1>9, <1>10, <1>11 DEF Next

\* Only late handlers store.
LEMMA LateStore ==
    ASSUME TypeOK, [Next]_vars, NEW p \in Pairs, Late(p) = {}
    PROVE  Rows(p)' = Rows(p)
<1>1. ASSUME NEW w \in Workers, Create(w)
      PROVE  requests'[p] = requests[p] /\ requests'[Reverse(p)] = requests[Reverse(p)]
      <2>1. pair[w] \notin {p, Reverse(p)}
            BY <1>1 DEF Late, Create
      <2>2. Reverse(p) \in Pairs
            BY PairFacts
      <2> QED BY <1>1, <2>1, <2>2 DEF Create, Store, TypeOK
<1>2. CASE UNCHANGED requests
      BY <1>2 DEF Rows
<1> QED BY <1>1, <1>2 DEF Next, server, Login, ClearUser, Reload, FriendRequest, Check,
           CheckReverse, Notify, Deliver, Lose, Approve, Rows, vars

----------------------------------------------------------------------------
(* The theorems.                                                           *)

FriendsInv ==
    /\ TypeOK
    /\ Logged
    /\ Grounded
    /\ ToldOfStored
    /\ RowsAsked
    /\ NoSilentLoss
    /\ LateBounded

\* The invariant holds before anybody logs in.
LEMMA FriendsInvInit == Init => FriendsInv
<1> SUFFICES ASSUME Init PROVE FriendsInv
    OBVIOUS
<1>1. TypeOK
      BY TypeInit
<1>2. Logged /\ RowsAsked
      BY DEF Init, Logged, RowsAsked
<1>3. \A p \in Pairs, t \in Tabs : wire[<<p, t>>] = 0
      BY DEF Init
<1>4. \A p \in Pairs : requests[p] = 0 /\ Rows(p) = 0
      BY PairFacts DEF Init, Rows
<1>5. Grounded /\ ToldOfStored
      BY <1>3 DEF Init, Grounded, ToldOfStored
<1>6. NoSilentLoss /\ LateBounded
      BY <1>4 DEF NoSilentLoss, LateBounded
<1> QED BY <1>1, <1>2, <1>5, <1>6 DEF FriendsInv

\* And it is inductive.
LEMMA FriendsInvStep == FriendsInv /\ [Next]_vars => FriendsInv'
BY TypeStep, LoggedStep, GroundedStep, ToldStep, RowsAskedStep, NoSilentLossStep, LateStep
   DEF FriendsInv

\* What was approved was asked, in terms of the lists that users are shown.
LEMMA ListsAsked == TypeOK /\ RowsAsked => FriendsWereRequested
<1> SUFFICES ASSUME TypeOK, RowsAsked, NEW u \in Users, NEW v \in FriendsOf(u)
             PROVE  Asked(u, v) \/ Asked(v, u)
    BY DEF FriendsWereRequested
<1>1. PICK i \in 1..Len(friendships) :
         /\ u \in {friendships[i][1], friendships[i][2]}
         /\ v = IF friendships[i][1] = u THEN friendships[i][2] ELSE friendships[i][1]
      BY DEF FriendsOf
<1>2. Asked(friendships[i][1], friendships[i][2])
      BY <1>1 DEF RowsAsked
<1> QED BY <1>1, <1>2

\* The bound on rows is the bound on rows and late handlers.
LEMMA LateBoundsRows == TypeOK /\ LateBounded => RowsBounded
<1> SUFFICES ASSUME TypeOK, LateBounded, NEW p \in Pairs
             PROVE  Rows(p) <= Cardinality(Workers) + faults
    BY DEF RowsBounded
<1>1. Rows(p) \in Nat /\ faults \in Nat
      BY RowsType DEF TypeOK
<1>2. Cardinality(Late(p)) \in Nat /\ Cardinality(Workers) \in Nat
      BY LateFinite
<1>3. Rows(p) > 0 => Rows(p) + Cardinality(Late(p)) <= Cardinality(Workers) + faults
      BY DEF LateBounded
<1> QED BY <1>1, <1>2, <1>3

\* Two users have at most as many requests between them, in both directions
\* and for ever, as handlers run at once, and one more for each failed check.
THEOREM RequestsAreBounded == Spec => []RowsBounded
BY FriendsInvInit, FriendsInvStep, LateBoundsRows, PTL DEF Spec, FriendsInv

\* A pair of users with a stored request and no handler past its checks stays
\* with the requests it has, as long as no check fails.
THEOREM PairsStayClosed == Spec => ClosedPairs
<1>1. FriendsInv /\ FriendsInv' /\ [Next]_vars =>
          [\A p \in Pairs :
              Rows(p) > 0 /\ Late(p) = {} /\ faults' = faults =>
                  Rows(p)' = Rows(p) /\ Late(p)' = {}]_vars
      BY NobodyIsLate, LateStore DEF FriendsInv
<1> QED BY <1>1, FriendsInvInit, FriendsInvStep, PTL DEF Spec, ClosedPairs

\* Nobody is told of a request that is not stored.
THEOREM ToldOnlyOfStored == Spec => []ToldOfStored
BY FriendsInvInit, FriendsInvStep, PTL DEF Spec, FriendsInv

\* Friends lists hold only users who asked, or asked another user of the tab.
THEOREM FriendshipNeedsRequest == Spec => []FriendsWereRequested
BY FriendsInvInit, FriendsInvStep, ListsAsked, PTL DEF Spec, FriendsInv

\* A stored request always has its trace.
THEOREM RequestsLeaveTraces == Spec => []NoSilentLoss
BY FriendsInvInit, FriendsInvStep, PTL DEF Spec, FriendsInv
=============================================================================
