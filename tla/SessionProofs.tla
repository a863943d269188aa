--------------------------- MODULE SessionProofs ---------------------------
(***************************************************************************)
(* The browser's session, for any number of users, calls and logins.       *)
(*                                                                         *)
(* Every step of Session is a step of WsSession or leaves it alone, so the *)
(* composition inherits what WsSessionProofs shows.  On top of that the    *)
(* identities agree because, as long as no login overtook a request of     *)
(* another user, one user is behind everything the page has or awaits.     *)
(***************************************************************************)
EXTENDS Session, WsSessionProofs, SequenceTheorems

\* Whatever setUser stores, WsSession sees a new pair or an unchanged one.
LEMMA StoreIsWsStep == \A i, t : Store(i, t) => SetUser \/ Touch
BY DEF Store

\* Each step of the composition is a step of the WebSocket's module, or none.
LEMMA SessionStepIsWsStep == [SessionNext]_sessionVars => [Next]_vars
<1> SUFFICES ASSUME [SessionNext]_sessionVars PROVE [Next]_vars
    OBVIOUS
<1>1. CASE Expire \/ CookieExpires
      BY <1>1 DEF Expire, CookieExpires
<1>2. ASSUME NEW u \in Users, Login(u) \/ Register(u) PROVE [Next]_vars
      BY <1>2 DEF Login, Register, Admit
<1>3. ASSUME NEW t \in logins, StoreLogin(t) PROVE [Next]_vars
      BY <1>3, StoreIsWsStep DEF StoreLogin, Next
<1>4. ASSUME NEW c \in Apis, ApiCall(c) PROVE [Next]_vars
      BY <1>4 DEF ApiCall
<1>5. ASSUME NEW c \in Callers, CallStep(c) PROVE [Next]_vars
      <2>1. CASE Unauthorized(c) \/ Retry(c)
            BY <2>1 DEF Unauthorized, Retry
      <2>2. CASE GiveUp(c)
            BY <2>2 DEF GiveUp, Next
      <2>3. CASE c \in Runs /\ InitReturns(c)
            BY <2>3 DEF InitReturns, Next
      <2>4. CASE VerifyReturns
            BY <2>4 DEF VerifyReturns
      <2>5. CASE MeReturns
            BY <2>5, StoreIsWsStep DEF MeReturns, Next
      <2>6. CASE c \in Apis /\ ApiReturns(c)
            BY <2>6 DEF ApiReturns
      <2> QED BY <1>5, <2>1, <2>2, <2>3, <2>4, <2>5, <2>6 DEF CallStep
<1>6. CASE RefreshOk
      BY <1>6, StoreIsWsStep DEF RefreshOk, Next
<1>7. CASE RefreshFails
      BY <1>7 DEF RefreshFails
<1>8. CASE SessionRender
      BY <1>8 DEF SessionRender, Next
<1>9. ASSUME NEW r \in Runs, Opens(r) \/ Closes(r) PROVE [Next]_vars
      BY <1>9 DEF Opens, Closes, Next
<1>10. CASE UNCHANGED sessionVars
      BY <1>10 DEF sessionVars
<1> QED BY <1>1, <1>2, <1>3, <1>4, <1>5, <1>6, <1>7, <1>8, <1>9, <1>10 DEF SessionNext

\* The page with its requests, cookies and logins implements WsSession: what
\* the login page, the check, the refresh and the init calls do to the
\* WebSocket is within what that module lets them do.
THEOREM SessionImplementsWs == SessionSpec => Spec
<1>1. SessionInit => Init
      BY DEF SessionInit
<1> QED BY <1>1, SessionStepIsWsStep, PTL DEF SessionSpec, Spec

\* So on the whole page, too, at most one socket is live, the rendered user's.
THEOREM SessionSockets == SessionSpec => [](OneLiveSocket /\ LiveIsCurrent)
BY SessionImplementsWs, AtMostOneSocket, NoSocketOutlivesItsUser, PTL

\* And its sockets are opened in the order of the logins, through refreshes
\* and init calls that are answered late.
THEOREM SessionSocketsInOrder == SessionSpec => OpenedInOrder
BY SessionImplementsWs, SocketsInOrder, PTL

----------------------------------------------------------------------------
(* One user is behind everything.                                          *)

\* Whatever the page stores, sends or awaits comes from a login of u; before
\* the first one there may be nobody.
Behind(u) ==
    /\ id \in {u, None}
    /\ token # 0 => owner[token] = u
    /\ cookie \in {u, None}
    /\ refresh \subseteq {u, None}
    /\ \A c \in Callers :
           call[c].pc \in {"sent", "retry"} /\ call[c].tok # 0 => owner[call[c].tok] = u

OneIdentity == Undisturbed => \E u \in Users \cup {None} : Behind(u)

\* While the only logins under way are of one user, the cookie is that user's,
\* if there is one.
CookieOfLogin ==
    ~crossed => \A u \in Users :
        logins # {} /\ (\A t \in logins : owner[t] = u) => cookie \in {u, None}

\* A pair has both its parts; a login's token is not in the store before the
\* login is.
PairIsSet == (user # No => id # None /\ token # 0) /\ token \notin logins

\* The socket of the pair in the store is opened with its own cookie.
SocketAllowed ==
    Undisturbed /\ user # No =>
        /\ socket[user] \in {"connecting", "open"} => allowed = id
        /\ socket[user] = "open" => spoke[user] = id

\* A refresh that succeeded left a token, and nobody is denied meanwhile.
Settling ==
    \A c \in Callers : call[c].pc = "granted" =>
        /\ token # 0
        /\ \A d \in Callers : call[d].pc \notin {"denied", "cleared"}

\* A run that has not started has made no init call.
InitCalls == \A r \in Runs : step[r] = "none" => call[r].pc = "new"

\* Only a page without a cookie is refused a refresh.
DeniedAsNobody ==
    (None \in refresh \/ \E c \in Callers : call[c].pc \in {"denied", "cleared"}) =>
        cookie = None

\* Nobody who has a cookie loses the token a request was sent with.
SentWithToken ==
    cookie # None /\ token = 0 =>
        \A c \in Callers : call[c].pc \in {"sent", "retry"} => call[c].tok = 0

\* The check has ended with the user of the cookie in the store.
LoggedIn == cookie # None /\ check = "done" => id # None /\ token # 0

RestoreInv ==
    Undisturbed /\ ~lost /\ expired = 0 => DeniedAsNobody /\ SentWithToken /\ LoggedIn

SessionInv ==
    /\ WsInv /\ SessionTypeOK /\ Settling /\ RefreshIsAwaited /\ InitCalls /\ PairIsSet
    /\ OneIdentity /\ CookieOfLogin /\ SocketAllowed /\ RestoreInv

\* Every caller the steps name is one.
LEMMA CallersAre == Check \in Callers /\ Runs \subseteq Callers /\ Apis \subseteq Callers
BY WsAssumption, SessionAssumption
   DEF WsAssumption, SessionAssumption, Check, Callers, Runs, Apis

\* Issuing a token keeps the old ones.
LEMMA Issued ==
    ASSUME NEW S, NEW s \in Seq(S), NEW u \in S
    PROVE  /\ Append(s, u) \in Seq(S)
           /\ Len(s) \in Nat
           /\ Len(Append(s, u)) = Len(s) + 1
           /\ \A t \in 1..Len(s) : Append(s, u)[t] = s[t] /\ s[t] \in S
           /\ Append(s, u)[Len(s) + 1] = u
BY AppendProperties, LenProperties, ElementOfSeq

\* fetchWithAuth's part of the types, apart from what each step updates.
CallsOK(f, n) ==
    /\ f \in [Callers -> [pc : Pcs, tok : 0..n]]
    /\ \A c \in Callers : f[c].pc = "retry" => f[c].tok # 0

\* Updating the call of one caller keeps the calls well formed.
LEMMA CallUpdate ==
    ASSUME NEW f, NEW n \in Nat, CallsOK(f, n), NEW c \in Callers,
           NEW p \in Pcs, p # "retry"
    PROVE  CallsOK([f EXCEPT ![c].pc = p], n)
BY DEF CallsOK

LEMMA CallReplace ==
    ASSUME NEW f, NEW n \in Nat, CallsOK(f, n), NEW c \in Callers,
           NEW p \in Pcs, NEW t \in 0..n, p # "retry" \/ t # 0
    PROVE  CallsOK([f EXCEPT ![c] = [pc |-> p, tok |-> t]], n)
BY DEF CallsOK

\* So does settling the refresh for all who wait.
LEMMA SettledOK ==
    ASSUME NEW n \in Nat, CallsOK(call, n), NEW p \in {"granted", "denied"}
    PROVE  CallsOK(Settled(p), n) /\ \A c \in Callers : Settled(p)[c].pc # "waiting"
BY DEF CallsOK, Settled, Pcs

\* What setUser does to the pair, the sockets and the runs.
LEMMA StoreEffect ==
    ASSUME TypeOK, NEW i, NEW t, Store(i, t)
    PROVE  /\ id' = i /\ token' = t
           /\ UNCHANGED <<socket, step>>
           /\ \/ user' = user /\ (i = None \/ t = 0 \/ (i = id /\ t = token))
              \/ user' = last + 1 /\ user' \in Runs /\ i # None /\ t # 0
BY WsAssumption DEF Store, Touch, SetUser, TypeOK, Runs, No, WsAssumption
----------------------------------------------------------------------------
(* Types.                                                                  *)

LEMMA SessionTypeInit == SessionInit => SessionTypeOK
<1> SUFFICES ASSUME SessionInit PROVE SessionTypeOK
    OBVIOUS
<1> USE SessionAssumption DEF SessionInit, SessionAssumption
<1>1. owner \in Seq(Users) /\ Len(owner) = 0
      BY EmptySeq
<1>2. call \in [Callers -> [pc : Pcs, tok : 0..Len(owner)]]
      BY <1>1 DEF Pcs
<1>3. \A c \in Callers : call[c].pc # "retry"
      OBVIOUS
<1>4. /\ id \in Users \cup {None} /\ cookie \in Users \cup {None}
      /\ allowed \in Users \cup {None} /\ token \in 0..0 /\ expired \in 0..0
      /\ refresh = {} /\ check \in {"verify", "me", "done"} /\ logins = {}
      OBVIOUS
<1>5. spoke \in [Runs -> Users \cup {None}]
      OBVIOUS
<1>6. events \in 0..MaxEvents
      OBVIOUS
<1>7. crossed \in BOOLEAN
      OBVIOUS
<1>8. lost \in BOOLEAN
      OBVIOUS
<1> QED BY <1>1, <1>2, <1>3, <1>4, <1>5, <1>6, <1>7, <1>8 DEF SessionTypeOK

\* A step that issues no token keeps the types.
LEMMA SessionTypeStep ==
    TypeOK /\ SessionTypeOK /\ Settling /\ [SessionNext]_sessionVars => SessionTypeOK'
<1> SUFFICES ASSUME TypeOK, SessionTypeOK, Settling, [SessionNext]_sessionVars
             PROVE  SessionTypeOK'
    OBVIOUS
<1> DEFINE n == Len(owner)
<1>0. /\ n \in Nat /\ CallsOK(call, n) /\ token \in 0..n /\ logins \subseteq 1..n
      /\ owner \in Seq(Users) /\ events \in Nat /\ MaxEvents \in Nat
      /\ \A t \in 1..n : owner[t] \in Users
      BY LenProperties, ElementOfSeq, SessionAssumption
         DEF SessionTypeOK, CallsOK, Tokens, SessionAssumption
<1>a. ASSUME Event PROVE events' \in 0..MaxEvents
      BY <1>a, <1>0 DEF Event, SessionTypeOK
<1>b. ASSUME UNCHANGED owner, CallsOK(call', n), id' \in Users \cup {None},
             token' \in 0..n, expired' \in 0..n, cookie' \in Users \cup {None},
             allowed' \in Users \cup {None}, refresh' \subseteq Users \cup {None},
             \A u, v \in refresh' : u = v, check' \in {"verify", "me", "done"},
             logins' \subseteq 1..n, spoke' \in [Runs -> Users \cup {None}],
             crossed' \in BOOLEAN, lost' \in BOOLEAN, events' \in 0..MaxEvents
      PROVE  SessionTypeOK'
      BY <1>b DEF SessionTypeOK, CallsOK, Tokens
<1>c. ASSUME NEW u \in Users, owner' = Append(owner, u), CallsOK(call', n),
             id' = id, token' \in 0..n + 1, UNCHANGED <<expired, allowed, check, spoke, lost>>,
             cookie' \in Users \cup {None}, refresh' \subseteq refresh,
             logins' \subseteq 1..n + 1, crossed' \in BOOLEAN, events' \in 0..MaxEvents
      PROVE  SessionTypeOK'
      <2>1. owner' \in Seq(Users) /\ Len(owner') = n + 1
            BY <1>c, <1>0, Issued
      <2>2. CallsOK(call', n + 1)
            BY <1>c, <1>0 DEF CallsOK
      <2>3. expired' \in 0..n + 1
            BY <1>c, <1>0 DEF SessionTypeOK
      <2> QED BY <1>c, <2>1, <2>2, <2>3 DEF SessionTypeOK, CallsOK, Tokens
<1> USE <1>0
<1>1. CASE Expire
      BY <1>1, <1>a, <1>b DEF Expire, SessionTypeOK
<1>2. CASE CookieExpires
      BY <1>2, <1>a, <1>b DEF CookieExpires, SessionTypeOK
<1>3. ASSUME NEW u \in Users, Login(u) \/ Register(u) PROVE SessionTypeOK'
      <2>1. /\ owner' = Append(owner, u) /\ call' = call /\ id' = id /\ token' = token
            /\ UNCHANGED <<expired, allowed, check, spoke, lost, refresh>>
            /\ cookie' \in {u, cookie} /\ logins' = logins \cup {n + 1}
            /\ crossed' \in BOOLEAN
            BY <1>3 DEF Login, Register, Admit, SessionTypeOK
      <2>2. 1..n \subseteq 1..n + 1 /\ 0..n \subseteq 0..n + 1 /\ n + 1 \in 1..n + 1
            OBVIOUS
      <2>3. events' \in 0..MaxEvents
            BY <1>3, <1>a DEF Login, Register, Admit
      <2>4. cookie' \in Users \cup {None} /\ refresh' \subseteq refresh
            BY <2>1 DEF SessionTypeOK
      <2>5. logins' \subseteq 1..n + 1 /\ token' \in 0..n + 1
            BY <2>1, <2>2
      <2> QED BY <2>1, <2>3, <2>4, <2>5, <1>c
<1>4. ASSUME NEW t \in logins, StoreLogin(t) PROVE SessionTypeOK'
      <2>1. id' = owner[t] /\ token' = t /\ t \in 1..n
            BY <1>4 DEF StoreLogin, Store
      <2> QED BY <1>4, <2>1, <1>b DEF StoreLogin, SessionTypeOK
<1>5. ASSUME NEW c \in Apis, ApiCall(c) PROVE SessionTypeOK'
      <2>1. CallsOK(call', n)
            BY <1>5, CallReplace, CallersAre DEF ApiCall, Sent, Pcs
      <2> QED BY <1>5, <2>1, <1>a, <1>b DEF ApiCall, SessionTypeOK
<1>6. ASSUME NEW c \in Callers, CallStep(c) PROVE SessionTypeOK'
      <2>1. CASE Unauthorized(c)
            <3>1. CallsOK(call', n)
                  BY <2>1, CallUpdate DEF Unauthorized, Pcs
            <3> QED BY <2>1, <3>1, <1>b DEF Unauthorized, SessionTypeOK
      <2>2. CASE Retry(c)
            <3>1. CallsOK(call', n)
                  BY <2>2, CallReplace DEF Settling, Retry, Sent, Pcs
            <3> QED BY <2>2, <3>1, <1>b DEF Retry, SessionTypeOK
      <2>3. CASE GiveUp(c)
            <3>1. CallsOK(call', n)
                  BY <2>3, CallUpdate DEF GiveUp, Pcs
            <3> QED BY <2>3, <3>1, <1>b DEF GiveUp, SessionTypeOK
      <2>4. ASSUME NEW d \in Callers, Ok(d) \/ NotOk(d)
            PROVE  events' \in 0..MaxEvents /\ lost' \in BOOLEAN
            BY <2>4, <1>a DEF Ok, NotOk, Answered, Lost, SessionTypeOK
      <2>5. ASSUME NEW d \in Callers PROVE CallsOK(Done(d), n)
            BY <2>5, CallReplace DEF Done, Pcs
      <2>6. ASSUME NEW d \in Callers, Ok(d) PROVE owner[call[d].tok] \in Users
            BY <2>6 DEF Ok, Valid, CallsOK
      <2>7. CASE c \in Runs /\ InitReturns(c)
            BY <2>7, <2>4, <2>5, <2>6, <1>b DEF InitReturns, SessionTypeOK
      <2>8. CASE VerifyReturns
            <3>1. CallsOK(call', n)
                  BY <2>8, <2>5, CallReplace, CallersAre DEF VerifyReturns, Sent, Pcs
            <3> QED BY <2>8, <3>1, <2>4, CallersAre, <1>b DEF VerifyReturns, SessionTypeOK
      <2>9. CASE MeReturns
            <3>1. id' \in Users \cup {None} /\ token' = token
                  BY <2>9, <2>6, CallersAre DEF MeReturns, Store, SessionTypeOK
            <3> QED BY <2>9, <3>1, <2>4, <2>5, CallersAre, <1>b DEF MeReturns, SessionTypeOK
      <2>10. CASE c \in Apis /\ ApiReturns(c)
            BY <2>10, <2>4, <2>5, <1>b DEF ApiReturns, SessionTypeOK
      <2> QED BY <1>6, <2>1, <2>2, <2>3, <2>7, <2>8, <2>9, <2>10 DEF CallStep
<1>7. CASE RefreshOk
      <2>1. PICK u \in refresh \ {None} : owner' = Append(owner, u)
            BY <1>7 DEF RefreshOk
      <2>2. u \in Users
            BY <2>1 DEF SessionTypeOK
      <2>3. id' = id /\ token' = n + 1 /\ CallsOK(call', n)
            BY <1>7, SettledOK DEF RefreshOk, Store
      <2> QED BY <1>7, <2>1, <2>2, <2>3, <1>c DEF RefreshOk, SessionTypeOK, Tokens
<1>8. CASE RefreshFails
      <2>1. CallsOK(call', n)
            BY <1>8, SettledOK DEF RefreshFails
      <2> QED BY <1>8, <2>1, <1>a, <1>b DEF RefreshFails, Answered, Lost, SessionTypeOK
<1>9. CASE SessionRender
      <2>1. user \in Callers \/ user = No
            BY CallersAre DEF TypeOK
      <2>2. CallsOK([call EXCEPT ![user] = [pc |-> "sent", tok |-> token]], n) \/ user = No
            BY <2>1, CallReplace DEF Pcs
      <2>3. CallsOK(call', n)
            BY <1>9, <2>2 DEF SessionRender, Sent
      <2> QED BY <1>9, <2>3, <1>b DEF SessionRender, SessionTypeOK
<1>10. ASSUME NEW r \in Runs, Opens(r) \/ Closes(r) PROVE SessionTypeOK'
      BY <1>10, <1>b DEF Opens, Closes, SessionTypeOK
<1>11. CASE UNCHANGED sessionVars
      BY <1>11, <1>b DEF sessionVars, authVars, SessionTypeOK
<1> QED BY <1>1, <1>2, <1>3, <1>4, <1>5, <1>6, <1>7, <1>8, <1>9, <1>10, <1>11
        DEF SessionNext

----------------------------------------------------------------------------
(* The shared refresh.                                                     *)

\* The refresh is pending as long as somebody awaits it, and what it left
\* stays until all of them have gone on.
LEMMA RefreshStep ==
    /\ TypeOK /\ Numbered /\ SessionTypeOK /\ Settling /\ RefreshIsAwaited /\ InitCalls
    /\ [SessionNext]_sessionVars
    => Settling' /\ RefreshIsAwaited'
<1> SUFFICES ASSUME TypeOK, Numbered, SessionTypeOK, Settling, RefreshIsAwaited,
                    InitCalls, [SessionNext]_sessionVars
             PROVE  Settling' /\ RefreshIsAwaited'
    OBVIOUS
<1>0. /\ Len(owner) \in Nat /\ call \in [Callers -> [pc : Pcs, tok : 0..Len(owner)]]
      BY LenProperties DEF SessionTypeOK
<1> USE <1>0
<1>a. ASSUME UNCHANGED <<call, refresh>>, token' = token \/ Quiet
      PROVE  Settling' /\ RefreshIsAwaited'
      BY <1>a DEF Settling, RefreshIsAwaited, Quiet
<1>b. ASSUME NEW c \in Callers, NEW p \in {"done", "sent", "retry"}, NEW t,
             call[c].pc # "waiting", call' = [call EXCEPT ![c] = [pc |-> p, tok |-> t]],
             UNCHANGED refresh, token' = token \/ Quiet
      PROVE  Settling' /\ RefreshIsAwaited'
      BY <1>b DEF Settling, RefreshIsAwaited, Quiet
<1>1. CASE Expire
      BY <1>1, <1>a DEF Expire
<1>2. CASE CookieExpires
      BY <1>2, <1>a DEF CookieExpires
<1>3. ASSUME NEW u \in Users, Login(u) \/ Register(u) PROVE Settling' /\ RefreshIsAwaited'
      BY <1>3, <1>a DEF Login, Register, Admit
<1>4. ASSUME NEW t \in logins, StoreLogin(t) PROVE Settling' /\ RefreshIsAwaited'
      BY <1>4, <1>a DEF StoreLogin
<1>5. ASSUME NEW c \in Apis, ApiCall(c) PROVE Settling' /\ RefreshIsAwaited'
      BY <1>5, <1>b, CallersAre DEF ApiCall, Sent
<1>6. ASSUME NEW c \in Callers, CallStep(c) PROVE Settling' /\ RefreshIsAwaited'
      <2>1. CASE Unauthorized(c)
            <3>1. call'[c].pc = "waiting" /\ refresh' # {}
                  BY <2>1 DEF Unauthorized
            <3> QED BY <2>1, <3>1 DEF Unauthorized, Settling, RefreshIsAwaited, Quiet
      <2>2. CASE Retry(c)
            BY <2>2, <1>b DEF Retry, Sent
      <2>3. CASE GiveUp(c)
            BY <2>3 DEF GiveUp, Settling, RefreshIsAwaited
      <2>4. ASSUME NEW d \in Callers, Ok(d) \/ NotOk(d)
            PROVE  call[d].pc # "waiting"
            BY <2>4 DEF Ok, NotOk
      <2>5. CASE c \in Runs /\ InitReturns(c)
            BY <2>5, <2>4, <1>b DEF InitReturns, Done
      <2>6. CASE VerifyReturns
            BY <2>6, <2>4, <1>b, CallersAre DEF VerifyReturns, Done, Sent
      <2>7. CASE MeReturns
            BY <2>7, <2>4, <1>b, CallersAre DEF MeReturns, Done, Store, Ok
      <2>8. CASE c \in Apis /\ ApiReturns(c)
            BY <2>8, <2>4, <1>b DEF ApiReturns, Done
      <2> QED BY <1>6, <2>1, <2>2, <2>3, <2>5, <2>6, <2>7, <2>8 DEF CallStep
<1>7. CASE RefreshOk
      <2>1. token' # 0 /\ refresh' = {} /\ Quiet /\ call' = Settled("granted")
            BY <1>7 DEF RefreshOk, Store
      <2> QED BY <2>1 DEF Settled, Settling, RefreshIsAwaited, Quiet
<1>8. CASE RefreshFails
      BY <1>8 DEF RefreshFails, Settled, Settling, RefreshIsAwaited, Quiet
<1>9. CASE SessionRender
      <2>1. user # No => user \in Callers
            BY CallersAre DEF TypeOK
      <2>2. CASE call' = call
            BY <1>9, <2>2, <1>a DEF SessionRender
      <2>3. CASE RenderNewUser /\ user # No /\ call' = Sent(user, "sent")
            <3>1. call[user].pc = "new"
                  BY <2>3 DEF RenderNewUser, Numbered, InitCalls, TypeOK
            <3> QED BY <1>9, <2>1, <2>3, <3>1, <1>b DEF SessionRender, Sent
      <2> QED BY <1>9, <2>2, <2>3 DEF SessionRender
<1>10. ASSUME NEW r \in Runs, Opens(r) \/ Closes(r)
       PROVE  Settling' /\ RefreshIsAwaited'
      BY <1>10, <1>a DEF Opens, Closes
<1>11. CASE UNCHANGED sessionVars
      BY <1>11, <1>a DEF sessionVars, authVars
<1> QED BY <1>1, <1>2, <1>3, <1>4, <1>5, <1>6, <1>7, <1>8, <1>9, <1>10, <1>11
        DEF SessionNext

\* Init calls begin with their runs.
LEMMA InitCallsStep ==
    TypeOK /\ SessionTypeOK /\ InitCalls /\ [SessionNext]_sessionVars => InitCalls'
<1> SUFFICES ASSUME TypeOK, SessionTypeOK, InitCalls, [SessionNext]_sessionVars,
                    NEW r \in Runs, step'[r] = "none"
             PROVE  call'[r].pc = "new"
    BY DEF InitCalls
<1>0. call \in [Callers -> [pc : Pcs, tok : 0..Len(owner)]] /\ r \in Callers
      BY CallersAre DEF SessionTypeOK
<1> USE <1>0
<1>a. ASSUME UNCHANGED step PROVE call[r].pc = "new"
      BY <1>a DEF InitCalls
<1>b. \A c \in Apis : c # r
      BY WsAssumption, SessionAssumption DEF Apis, Runs, WsAssumption, SessionAssumption
<1>1. CASE Expire \/ CookieExpires
      BY <1>1, <1>a DEF Expire, CookieExpires, vars
<1>2. ASSUME NEW u \in Users, Login(u) \/ Register(u) PROVE call'[r].pc = "new"
      BY <1>2, <1>a DEF Login, Register, Admit, vars
<1>3. ASSUME NEW t \in logins, StoreLogin(t) PROVE call'[r].pc = "new"
      BY <1>3, <1>a, StoreEffect DEF StoreLogin
<1>4. ASSUME NEW c \in Apis, ApiCall(c) PROVE call'[r].pc = "new"
      BY <1>4, <1>a, <1>b DEF ApiCall, Sent, vars
<1>5. ASSUME NEW c \in Callers, CallStep(c) PROVE call'[r].pc = "new"
      <2>1. CASE Unauthorized(c) \/ Retry(c)
            BY <2>1, <1>a DEF Unauthorized, Retry, Sent, vars
      <2>2. CASE GiveUp(c)
            BY <2>2, <1>a DEF GiveUp, ClearUser
      <2>3. ASSUME NEW d \in Callers, Ok(d) \/ NotOk(d) PROVE call[d].pc # "new"
            BY <2>3 DEF Ok, NotOk
      <2>4. CASE c \in Runs /\ InitReturns(c)
            <3>1. step[c] = "init" /\ step' = [step EXCEPT ![c] = "done"]
                  BY <2>4 DEF InitReturns, InitOk, InitFail
            <3>2. c # r
                  BY <2>4, <3>1 DEF TypeOK
            <3> QED BY <2>4, <3>1, <3>2 DEF InitReturns, Done, InitCalls, TypeOK
      <2>5. CASE VerifyReturns
            BY <2>5, <2>3, <1>a, CallersAre DEF VerifyReturns, Done, Sent, vars
      <2>6. CASE MeReturns
            <3>1. UNCHANGED step
                  BY <2>6, StoreEffect DEF MeReturns, vars
            <3> QED BY <2>6, <3>1, <2>3, <1>a, CallersAre DEF MeReturns, Done
      <2>7. CASE c \in Apis /\ ApiReturns(c)
            BY <2>7, <2>3, <1>a DEF ApiReturns, Done, vars
      <2> QED BY <1>5, <2>1, <2>2, <2>4, <2>5, <2>6, <2>7 DEF CallStep
<1>6. CASE RefreshOk
      <2>1. UNCHANGED step
            BY <1>6, StoreEffect DEF RefreshOk
      <2> QED BY <1>6, <2>1, <1>a DEF RefreshOk, Settled
<1>7. CASE RefreshFails
      BY <1>7, <1>a DEF RefreshFails, Settled, vars
<1>8. CASE SessionRender
      <2>1. CASE Render
            BY <1>8, <2>1, <1>a DEF SessionRender, Render, RenderNewUser
      <2>2. CASE RenderNewUser
            <3>1. step[r] = "none" /\ r # user
                  BY <2>2 DEF RenderNewUser, TypeOK
            <3>2. call[r].pc = "new"
                  BY <3>1 DEF InitCalls
            <3>3. CASE call' = call
                  BY <3>2, <3>3
            <3>4. CASE call' = Sent(user, "sent")
                  BY <3>1, <3>2, <3>4 DEF Sent
            <3> QED BY <1>8, <2>2, <3>3, <3>4 DEF SessionRender, Render
      <2> QED BY <1>8, <2>1, <2>2 DEF SessionRender
<1>9. ASSUME NEW q \in Runs, Opens(q) \/ Closes(q) PROVE call'[r].pc = "new"
      BY <1>9, <1>a DEF Opens, Closes, OnOpen, OnClose
<1>10. CASE UNCHANGED sessionVars
      BY <1>10, <1>a DEF sessionVars, authVars, vars
<1> QED BY <1>1, <1>2, <1>3, <1>4, <1>5, <1>6, <1>7, <1>8, <1>9, <1>10 DEF SessionNext

----------------------------------------------------------------------------
(* The identities.                                                         *)

\* A user with a pair has both its parts.
LEMMA PairStep == TypeOK /\ SessionTypeOK /\ PairIsSet /\ [SessionNext]_sessionVars => PairIsSet'
<1> SUFFICES ASSUME TypeOK, SessionTypeOK, PairIsSet, [SessionNext]_sessionVars
             PROVE  PairIsSet'
    OBVIOUS
<1>0. /\ Len(owner) \in Nat /\ call \in [Callers -> [pc : Pcs, tok : 0..Len(owner)]]
      /\ \A t \in 1..Len(owner) : owner[t] \in Users
      BY LenProperties, ElementOfSeq DEF SessionTypeOK
<1>a. ASSUME UNCHANGED <<user, id, token, logins>> PROVE PairIsSet'
      BY <1>a DEF PairIsSet
<1>1. CASE Expire \/ CookieExpires
      BY <1>1, <1>a DEF Expire, CookieExpires, vars
<1>2. ASSUME NEW u \in Users, Login(u) \/ Register(u) PROVE PairIsSet'
      BY <1>2, <1>0 DEF Login, Register, Admit, vars, PairIsSet, SessionTypeOK
<1>3. ASSUME NEW t \in logins, StoreLogin(t) PROVE PairIsSet'
      <2>1. owner[t] # None /\ t # 0
            BY <1>0, SessionAssumption DEF SessionTypeOK, Tokens, SessionAssumption
      <2> QED BY <1>3, <2>1, StoreEffect DEF StoreLogin, PairIsSet
<1>4. ASSUME NEW c \in Apis, ApiCall(c) PROVE PairIsSet'
      BY <1>4, <1>a DEF ApiCall, vars
<1>5. ASSUME NEW c \in Callers, CallStep(c) PROVE PairIsSet'
      <2>1. CASE Unauthorized(c) \/ Retry(c)
            BY <2>1, <1>a DEF Unauthorized, Retry, vars
      <2>2. CASE GiveUp(c)
            BY <2>2, <1>0 DEF GiveUp, ClearUser, PairIsSet, SessionTypeOK, Tokens
      <2>3. CASE c \in Runs /\ InitReturns(c)
            BY <2>3, <1>a DEF InitReturns, InitOk, InitFail
      <2>4. CASE VerifyReturns
            BY <2>4, <1>a DEF VerifyReturns, vars
      <2>5. CASE MeReturns
            <3>1. CASE Store(owner[call[Check].tok], token) /\ Ok(Check)
                  <4>1. owner[call[Check].tok] # None
                        BY <3>1, <1>0, CallersAre, SessionAssumption
                           DEF Ok, Valid, SessionAssumption
                  <4> QED BY <2>5, <3>1, <4>1, StoreEffect DEF MeReturns, PairIsSet
            <3> QED BY <2>5, <3>1, <1>a DEF MeReturns, vars
      <2>6. CASE c \in Apis /\ ApiReturns(c)
            BY <2>6, <1>a DEF ApiReturns, vars
      <2> QED BY <1>5, <2>1, <2>2, <2>3, <2>4, <2>5, <2>6 DEF CallStep
<1>6. CASE RefreshOk
      <2>1. Len(owner) + 1 # 0 /\ Len(owner) + 1 \notin logins /\ UNCHANGED logins
            BY <1>6, <1>0 DEF RefreshOk, SessionTypeOK, Tokens
      <2> QED BY <1>6, <2>1, StoreEffect DEF RefreshOk, PairIsSet
<1>7. CASE RefreshFails
      BY <1>7, <1>a DEF RefreshFails, vars
<1>8. CASE SessionRender
      BY <1>8, <1>a DEF SessionRender, Render, RenderNewUser
<1>9. ASSUME NEW r \in Runs, Opens(r) \/ Closes(r) PROVE PairIsSet'
      BY <1>9, <1>a DEF Opens, Closes, OnOpen, OnClose
<1>10. CASE UNCHANGED sessionVars
      BY <1>10, <1>a DEF sessionVars, authVars, vars
<1> QED BY <1>1, <1>2, <1>3, <1>4, <1>5, <1>6, <1>7, <1>8, <1>9, <1>10 DEF SessionNext

\* A login under way decides the cookie, unless logins of several users are.
LEMMA CookieStep ==
    /\ SessionTypeOK /\ OneIdentity /\ CookieOfLogin /\ [SessionNext]_sessionVars
    => CookieOfLogin'
<1> SUFFICES ASSUME SessionTypeOK, CookieOfLogin, [SessionNext]_sessionVars, ~crossed',
                    NEW v \in Users, logins' # {}, \A t \in logins' : owner'[t] = v
             PROVE  cookie' \in {v, None}
    BY DEF CookieOfLogin
<1>0. owner \in Seq(Users) /\ Len(owner) \in Nat /\ logins \subseteq 1..Len(owner)
      BY LenProperties DEF SessionTypeOK, Tokens
<1>a. ASSUME logins' = logins, crossed' = crossed, cookie' \in {cookie, None},
             owner' = owner \/ (\E u \in Users : owner' = Append(owner, u))
      PROVE  cookie' \in {v, None}
      <2>1. \A t \in logins : owner[t] = v
            BY <1>a, <1>0, Issued
      <2> QED BY <1>a, <2>1 DEF CookieOfLogin
<1>1. CASE Expire \/ CookieExpires
      BY <1>1, <1>a DEF Expire, CookieExpires
<1>2. ASSUME NEW u \in Users, Login(u) \/ Register(u) PROVE cookie' \in {v, None}
      <2>1. owner'[Len(owner) + 1] = u /\ Len(owner) + 1 \in logins'
            BY <1>2, <1>0, Issued DEF Login, Register, Admit
      <2>2. cookie' \in {u, None}
            BY <1>2 DEF Login, Register, Admit
      <2> QED BY <2>1, <2>2
<1>3. ASSUME NEW t \in logins, StoreLogin(t) PROVE cookie' \in {v, None}
      <2>1. ~crossed /\ ~Foreign(owner[t]) /\ owner' = owner /\ cookie' = cookie
            BY <1>3 DEF StoreLogin
      <2>2. owner[t] \in Users /\ \A s \in logins : owner[s] = owner[t]
            BY <2>1, <1>0, ElementOfSeq DEF Foreign
      <2>3. owner[t] = v
            BY <1>3, <2>1, <2>2 DEF StoreLogin
      <2> QED BY <2>1, <2>2, <2>3 DEF CookieOfLogin
<1>4. ASSUME NEW c \in Apis, ApiCall(c) PROVE cookie' \in {v, None}
      BY <1>4, <1>a DEF ApiCall
<1>5. ASSUME NEW c \in Callers, CallStep(c) PROVE cookie' \in {v, None}
      BY <1>5, <1>a DEF CallStep, Unauthorized, Retry, GiveUp, InitReturns, VerifyReturns,
                        MeReturns, ApiReturns
<1>6. CASE RefreshOk
      BY <1>6, <1>a DEF RefreshOk, SessionTypeOK
<1>7. CASE RefreshFails
      BY <1>7, <1>a DEF RefreshFails
<1>8. CASE SessionRender
      BY <1>8, <1>a DEF SessionRender
<1>9. ASSUME NEW r \in Runs, Opens(r) \/ Closes(r) PROVE cookie' \in {v, None}
      BY <1>9, <1>a DEF Opens, Closes
<1>10. CASE UNCHANGED sessionVars
      BY <1>10, <1>a DEF sessionVars, authVars
<1> QED BY <1>1, <1>2, <1>3, <1>4, <1>5, <1>6, <1>7, <1>8, <1>9, <1>10 DEF SessionNext

\* Only a login that is stored ends a disturbance.
LEMMA UndisturbedBefore ==
    [SessionNext]_sessionVars /\ Undisturbed' =>
        (Undisturbed \/ \E t \in logins : StoreLogin(t))
BY DEF Undisturbed, SessionNext, Expire, CookieExpires, Login, Register, Admit, ApiCall, CallStep, Unauthorized,
   Retry, GiveUp, InitReturns, VerifyReturns, MeReturns, ApiReturns, RefreshOk,
   RefreshFails, SessionRender, Opens, Closes, sessionVars, authVars

\* One user is behind everything, again after every step.
LEMMA IdentityStep ==
    /\ TypeOK /\ SessionTypeOK /\ OneIdentity /\ CookieOfLogin /\ [SessionNext]_sessionVars
    => OneIdentity'
<1> SUFFICES ASSUME TypeOK, SessionTypeOK, OneIdentity, CookieOfLogin,
                    [SessionNext]_sessionVars, ~crossed', logins' = {}
             PROVE  \E u \in Users \cup {None} : Behind(u)'
    BY DEF OneIdentity, Undisturbed
<1>0. /\ owner \in Seq(Users) /\ Len(owner) \in Nat /\ logins \subseteq 1..Len(owner)
      /\ call \in [Callers -> [pc : Pcs, tok : 0..Len(owner)]]
      /\ token \in 0..Len(owner) /\ \A t \in 1..Len(owner) : owner[t] \in Users
      BY LenProperties, ElementOfSeq DEF SessionTypeOK, Tokens
<1>1. ASSUME NEW t \in logins, StoreLogin(t) PROVE \E u \in Users \cup {None} : Behind(u)'
      <2>0. PICK u \in Users : u = owner[t]
            BY <1>1, <1>0
      <2>1. ~crossed /\ ~Foreign(u) /\ \A s \in logins : owner[s] = u
            BY <2>0, <1>1 DEF StoreLogin, Foreign
      <2>2. cookie \in {u, None} /\ refresh \subseteq {u, None}
            BY <2>1 DEF CookieOfLogin, Foreign
      <2>3. id' = u /\ token' = t /\ UNCHANGED <<owner, cookie, refresh, call>>
            BY <2>0, <1>1 DEF StoreLogin, Store
      <2>4. \A c \in Callers : call[c].pc \in {"sent", "retry"} /\ call[c].tok # 0 =>
                owner[call[c].tok] = u
            BY <2>1 DEF Foreign
      <2>5. Behind(u)'
            BY <2>0, <2>2, <2>3, <2>4 DEF Behind
      <2> QED BY <2>5
<1>2. ASSUME logins = {}, ~crossed PROVE \E u \in Users \cup {None} : Behind(u)'
      <2>1. PICK u \in Users \cup {None} : Behind(u)
            BY <1>2 DEF OneIdentity, Undisturbed
      <2> USE <1>0, <2>1
      <2>2. Behind(u)'
            <3>a. ASSUME id' \in {u, None}, token' \in {0, token}, UNCHANGED owner,
                         cookie' \in {cookie, None}, refresh' \subseteq {u, None},
                         \A c \in Callers : call'[c] = call[c] \/ call'[c].tok \in {0, token}
                                            \/ call'[c].pc \notin {"sent", "retry"}
                  PROVE  Behind(u)'
                  BY <3>a DEF Behind
            <3>1. CASE Expire \/ CookieExpires
                  BY <3>1, <3>a DEF Expire, CookieExpires, Behind
            <3>2. ASSUME NEW w \in Users, Login(w) \/ Register(w) PROVE Behind(u)'
                  BY <3>2 DEF Login, Register, Admit
            <3>3. ASSUME NEW c \in Apis, ApiCall(c) PROVE Behind(u)'
                  BY <3>3, <3>a DEF ApiCall, Sent, Behind
            <3>4. ASSUME NEW c \in Callers, CallStep(c) PROVE Behind(u)'
                  <4>1. CASE Unauthorized(c) \/ Retry(c) \/ GiveUp(c)
                        BY <4>1, <3>a DEF Unauthorized, Retry, GiveUp, Sent, Behind
                  <4>2. CASE InitReturns(c) \/ ApiReturns(c)
                        BY <4>2, <3>a DEF InitReturns, ApiReturns, Done, Behind
                  <4>3. CASE VerifyReturns
                        BY <4>3, <3>a DEF VerifyReturns, Sent, Done, Behind
                  <4>4. CASE MeReturns
                        <5>1. id' \in {u, None} /\ token' = token
                              BY <4>4, CallersAre DEF MeReturns, Store, Ok, Valid, Behind
                        <5> QED BY <4>4, <5>1, <3>a DEF MeReturns, Done, Behind
                  <4> QED BY <3>4, <4>1, <4>2, <4>3, <4>4 DEF CallStep
            <3>5. CASE RefreshOk
                  <4>1. PICK w \in refresh \ {None} : owner' = Append(owner, w)
                        BY <3>5 DEF RefreshOk
                  <4>2. w = u
                        BY <4>1 DEF Behind
                  <4>3. /\ owner'[Len(owner) + 1] = u
                        /\ \A t \in 1..Len(owner) : owner'[t] = owner[t]
                        BY <4>1, <4>2, Issued
                  <4>4. /\ id' = id /\ token' = Len(owner) + 1 /\ cookie' = cookie
                        /\ refresh' = {} /\ call' = Settled("granted")
                        BY <3>5 DEF RefreshOk, Store
                  <4>5. \A c \in Callers : call'[c].pc \in {"sent", "retry"} => call'[c] = call[c]
                        BY <4>4 DEF Settled
                  <4> QED BY <4>3, <4>4, <4>5 DEF Behind
            <3>6. CASE RefreshFails
                  BY <3>6, <3>a DEF RefreshFails, Settled, Behind
            <3>7. CASE SessionRender
                  BY <3>7, <3>a DEF SessionRender, Sent, Behind
            <3>8. ASSUME NEW r \in Runs, Opens(r) \/ Closes(r) PROVE Behind(u)'
                  BY <3>8, <3>a DEF Opens, Closes, Behind
            <3>9. CASE UNCHANGED sessionVars
                  BY <3>9, <3>a DEF sessionVars, authVars, Behind
            <3> QED BY <1>2, <3>1, <3>2, <3>3, <3>4, <3>5, <3>6, <3>7, <3>8, <3>9
                    DEF SessionNext
      <2> QED BY <2>2
<1> QED BY <1>1, <1>2, UndisturbedBefore DEF Undisturbed

\* The socket of the pair in the store was set up by its own init call, as
\* the user of its own cookie.
LEMMA SocketAllowedStep ==
    /\ TypeOK /\ Numbered /\ SessionTypeOK /\ PairIsSet /\ OneIdentity /\ SocketAllowed
    /\ [SessionNext]_sessionVars
    => SocketAllowed'
<1> DEFINE Allowed ==
        /\ socket[user] \in {"connecting", "open"} => allowed = id
        /\ socket[user] = "open" => spoke[user] = id
<1> SUFFICES ASSUME TypeOK, Numbered, SessionTypeOK, PairIsSet, OneIdentity, SocketAllowed,
                    [SessionNext]_sessionVars, Undisturbed', user' # No
             PROVE  Allowed'
    BY DEF SocketAllowed
<1>0. /\ Len(owner) \in Nat /\ logins \subseteq 1..Len(owner) /\ token \in 0..Len(owner)
      /\ call \in [Callers -> [pc : Pcs, tok : 0..Len(owner)]]
      /\ \A t \in 1..Len(owner) : owner[t] \in Users /\ owner[t] # None
      BY LenProperties, ElementOfSeq, SessionAssumption
         DEF SessionTypeOK, Tokens, SessionAssumption
<1>a. ASSUME Undisturbed, UNCHANGED <<user, id, socket, allowed, spoke>> PROVE Allowed'
      BY <1>a DEF SocketAllowed
<1>b. ASSUME user' = last + 1, user' \in Runs, UNCHANGED socket PROVE Allowed'
      <2>1. last \in Nat /\ step[user'] = "none"
            BY <1>b, WsAssumption DEF Numbered, TypeOK, Runs, WsAssumption
      <2>2. socket'[user'] = "none"
            BY <1>b, <2>1 DEF TypeOK
      <2> QED BY <2>2
<1>1. ASSUME NEW t \in logins, StoreLogin(t) PROVE Allowed'
      <2>1. t # 0 /\ owner[t] # None /\ t # token
            BY <1>0 DEF PairIsSet
      <2> QED BY <1>1, <2>1, <1>b, StoreEffect DEF StoreLogin
<1>2. ASSUME Undisturbed PROVE Allowed'
      <2> USE <1>2
      <2>1. CASE Expire \/ CookieExpires
            BY <2>1, <1>a DEF Expire, CookieExpires, vars
      <2>2. ASSUME NEW u \in Users, Login(u) \/ Register(u) PROVE Allowed'
            BY <2>2, <1>a DEF Login, Register, Admit, vars
      <2>3. ASSUME NEW c \in Apis, ApiCall(c) PROVE Allowed'
            BY <2>3, <1>a DEF ApiCall, vars
      <2>4. ASSUME NEW c \in Callers, CallStep(c) PROVE Allowed'
            <3>1. CASE Unauthorized(c) \/ Retry(c)
                  BY <3>1, <1>a DEF Unauthorized, Retry, vars
            <3>2. CASE GiveUp(c)
                  BY <3>2 DEF GiveUp, ClearUser
            <3>3. CASE c \in Runs /\ InitReturns(c)
                  <4>1. UNCHANGED <<user, id, spoke>> /\ user \in Runs
                        BY <3>3 DEF InitReturns, InitOk, InitFail, TypeOK
                  <4>2. CASE Ok(c) /\ InitOk(c) /\ allowed' = owner[call[c].tok]
                        <5>1. owner[call[c].tok] = id
                              BY <4>1, <4>2 DEF Ok, Valid, OneIdentity, Behind, PairIsSet
                        <5>2. socket'[user] = "open" => socket[user] = "open"
                              BY <3>3, <4>2 DEF InitOk, TypeOK
                        <5> QED BY <4>1, <4>2, <5>1, <5>2 DEF SocketAllowed
                  <4>3. CASE InitFail(c) /\ allowed' = allowed
                        <5>1. socket'[user] \in {"connecting", "open"} => socket'[user] = socket[user]
                              BY <4>1, <4>3 DEF InitFail, Cleanup
                        <5> QED BY <4>1, <4>3, <5>1 DEF SocketAllowed
                  <4> QED BY <3>3, <4>2, <4>3 DEF InitReturns
            <3>4. CASE VerifyReturns
                  BY <3>4, <1>a DEF VerifyReturns, vars
            <3>5. CASE MeReturns
                  <4>1. CASE Ok(Check) /\ Store(owner[call[Check].tok], token)
                        <5>1. owner[call[Check].tok] # None
                              BY <4>1, <1>0, CallersAre DEF Ok, Valid
                        <5>2. UNCHANGED <<allowed, spoke>>
                              BY <3>5 DEF MeReturns
                        <5> QED BY <4>1, <5>1, <5>2, <1>a, <1>b, StoreEffect DEF PairIsSet
                  <4> QED BY <3>5, <4>1, <1>a DEF MeReturns, vars
            <3>6. CASE c \in Apis /\ ApiReturns(c)
                  BY <3>6, <1>a DEF ApiReturns, vars
            <3> QED BY <2>4, <3>1, <3>2, <3>3, <3>4, <3>5, <3>6 DEF CallStep
      <2>5. CASE RefreshOk
            <3>1. Len(owner) + 1 # 0 /\ Len(owner) + 1 # token
                  BY <1>0
            <3> QED BY <2>5, <3>1, <1>b, StoreEffect DEF RefreshOk, PairIsSet
      <2>6. CASE RefreshFails
            BY <2>6, <1>a DEF RefreshFails, vars
      <2>7. CASE SessionRender
            <3>1. UNCHANGED <<user, id, allowed, spoke>> /\ user \in Runs
                  BY <2>7 DEF SessionRender, Render, RenderNewUser, TypeOK
            <3>2. socket'[user] \in {"connecting", "open"} => socket'[user] = socket[user]
                  BY <2>7, <3>1 DEF SessionRender, Render, RenderNewUser, Cleanup
            <3> QED BY <3>1, <3>2 DEF SocketAllowed
      <2>8. ASSUME NEW r \in Runs, Opens(r) PROVE Allowed'
            BY <2>8 DEF Opens, OnOpen, SocketAllowed, TypeOK, SessionTypeOK
      <2>9. ASSUME NEW r \in Runs, Closes(r) PROVE Allowed'
            BY <2>9 DEF Closes, OnClose, SocketAllowed, TypeOK, SessionTypeOK
      <2>10. CASE UNCHANGED sessionVars
            BY <2>10, <1>a DEF sessionVars, authVars, vars
      <2> QED BY <1>1, <2>1, <2>2, <2>3, <2>4, <2>5, <2>6, <2>7, <2>8, <2>9, <2>10 DEF SessionNext
<1> QED BY <1>1, <1>2, UndisturbedBefore

----------------------------------------------------------------------------
(* What a page with a cookie keeps.                                        *)

\* A page with a cookie gets its user back, and keeps it: while nothing is
\* lost and no token expires, a request is refused for want of a token only,
\* and a refresh for want of a cookie only.
LEMMA RestoreStep ==
    /\ SessionTypeOK /\ Settling /\ RestoreInv /\ [SessionNext]_sessionVars
    => RestoreInv'
<1> SUFFICES ASSUME SessionTypeOK, Settling, RestoreInv, [SessionNext]_sessionVars,
                    Undisturbed', ~lost', expired' = 0
             PROVE  DeniedAsNobody' /\ SentWithToken' /\ LoggedIn'
    BY DEF RestoreInv
<1>0. /\ Len(owner) \in Nat /\ logins \subseteq 1..Len(owner) /\ token \in 0..Len(owner)
      /\ call \in [Callers -> [pc : Pcs, tok : 0..Len(owner)]]
      /\ \A t \in 1..Len(owner) : owner[t] # None
      /\ \A c \in Callers : call[c].pc = "retry" => call[c].tok # 0
      /\ cookie \in Users \cup {None} /\ refresh \subseteq Users \cup {None} /\ expired \in Nat
      BY LenProperties, ElementOfSeq, SessionAssumption
         DEF SessionTypeOK, Tokens, SessionAssumption
<1> USE <1>0
<1>1. ASSUME NEW t \in logins, StoreLogin(t)
      PROVE  DeniedAsNobody' /\ SentWithToken' /\ LoggedIn'
      <2>1. id' = owner[t] /\ token' = t /\ t # 0 /\ UNCHANGED <<cookie, refresh, call>>
            BY <1>1 DEF StoreLogin, Store
      <2>2. ~Foreign(owner[t]) /\ owner[t] # None /\ Quiet
            BY <1>1 DEF StoreLogin, Undisturbed
      <2>3. None \notin refresh /\ \A c \in Callers : call[c].pc \notin {"denied", "cleared"}
            BY <2>2 DEF Foreign, Quiet
      <2> QED BY <2>1, <2>2, <2>3 DEF DeniedAsNobody, SentWithToken, LoggedIn
<1>2. ASSUME Undisturbed PROVE DeniedAsNobody' /\ SentWithToken' /\ LoggedIn'
      <2>0. ~lost /\ expired = 0
            BY DEF SessionNext, Expire, CookieExpires, Login, Register, Admit, StoreLogin, ApiCall, CallStep,
                   Unauthorized, Retry, GiveUp, InitReturns, VerifyReturns, MeReturns,
                   ApiReturns, RefreshOk, RefreshFails, SessionRender, Opens, Closes,
                   sessionVars, authVars, Ok, NotOk, Answered, Lost
      <2>1. DeniedAsNobody /\ SentWithToken /\ LoggedIn
            BY <1>2, <2>0 DEF RestoreInv
      <2>2. \A c \in Callers : NotOk(c) /\ ~lost' => call[c].pc = "cleared" /\ UNCHANGED lost
            BY <2>0 DEF NotOk, Lost, Answered, Valid
      <2> USE <2>1
      <2>a. ASSUME UNCHANGED <<id, token, cookie, refresh, call, check>>
            PROVE  DeniedAsNobody' /\ SentWithToken' /\ LoggedIn'
            BY <2>a DEF DeniedAsNobody, SentWithToken, LoggedIn
      <2>b. ASSUME UNCHANGED <<id, token, cookie, refresh, check>>, NEW c \in Callers,
                   call' = [call EXCEPT ![c] = [pc |-> "sent", tok |-> token]]
            PROVE  DeniedAsNobody' /\ SentWithToken' /\ LoggedIn'
            BY <2>b DEF DeniedAsNobody, SentWithToken, LoggedIn
      <2>c. ASSUME UNCHANGED <<id, token, cookie, refresh, check>>, NEW c \in Callers,
                   call' = Done(c)
            PROVE  DeniedAsNobody' /\ SentWithToken' /\ LoggedIn'
            BY <2>c DEF Done, DeniedAsNobody, SentWithToken, LoggedIn
      <2>3. CASE Expire
            BY <2>3, <2>a DEF Expire
      <2>4. CASE CookieExpires
            BY <2>4 DEF CookieExpires
      <2>5. ASSUME NEW u \in Users, Login(u) \/ Register(u) PROVE FALSE
            BY <2>5 DEF Login, Register, Admit, Undisturbed
      <2>6. ASSUME NEW t \in logins, StoreLogin(t) PROVE FALSE
            BY <1>2, <2>6 DEF Undisturbed
      <2>7. ASSUME NEW c \in Apis, ApiCall(c)
            PROVE  DeniedAsNobody' /\ SentWithToken' /\ LoggedIn'
            BY <2>7, <2>b, CallersAre DEF ApiCall, Sent
      <2>8. ASSUME NEW c \in Callers, CallStep(c)
            PROVE  DeniedAsNobody' /\ SentWithToken' /\ LoggedIn'
            <3>1. CASE Unauthorized(c)
                  BY <3>1 DEF Unauthorized, DeniedAsNobody, SentWithToken, LoggedIn
            <3>2. CASE Retry(c)
                  <4>1. token # 0
                        BY <3>2 DEF Retry, Settling
                  <4> QED BY <3>2, <4>1 DEF Retry, Sent, DeniedAsNobody, SentWithToken, LoggedIn
            <3>3. CASE GiveUp(c)
                  <4>1. cookie = None
                        BY <3>3 DEF GiveUp, DeniedAsNobody
                  <4> QED BY <3>3, <4>1 DEF GiveUp, DeniedAsNobody, SentWithToken, LoggedIn
            <3>4. CASE c \in Runs /\ InitReturns(c)
                  BY <3>4, <2>c DEF InitReturns
            <3>5. CASE VerifyReturns
                  <4>1. CASE call' = Sent(Check, "sent") /\ check' = "me"
                        BY <3>5, <4>1, CallersAre
                           DEF VerifyReturns, Sent, DeniedAsNobody, SentWithToken, LoggedIn
                  <4>2. CASE NotOk(Check) /\ call' = Done(Check)
                        <5>1. cookie = None
                              BY <4>2, <2>2, CallersAre DEF DeniedAsNobody
                        <5> QED BY <3>5, <5>1
                                DEF VerifyReturns, DeniedAsNobody, SentWithToken, LoggedIn
                  <4> QED BY <3>5, <4>1, <4>2 DEF VerifyReturns
            <3>6. CASE MeReturns
                  <4>0. UNCHANGED <<cookie, refresh>> /\ call' = Done(Check)
                        BY <3>6 DEF MeReturns
                  <4>1. DeniedAsNobody'
                        BY <4>0, CallersAre DEF Done, DeniedAsNobody
                  <4>2. token' = token
                        BY <3>6 DEF MeReturns, Store
                  <4>3. SentWithToken'
                        BY <4>0, <4>2, CallersAre DEF Done, SentWithToken
                  <4>4. CASE Ok(Check) /\ Store(owner[call[Check].tok], token)
                        <5>1. call[Check].tok # 0 /\ call[Check].pc \in {"sent", "retry"}
                              BY <4>4 DEF Ok, Valid
                        <5>2. cookie # None => token # 0
                              BY <5>1, CallersAre DEF SentWithToken
                        <5>3. id' = owner[call[Check].tok] /\ owner[call[Check].tok] # None
                              BY <4>4, <5>1, CallersAre DEF Store
                        <5> QED BY <4>0, <4>1, <4>2, <4>3, <5>2, <5>3 DEF LoggedIn
                  <4>5. CASE NotOk(Check)
                        <5>1. cookie = None
                              BY <4>5, <2>2, CallersAre DEF DeniedAsNobody
                        <5> QED BY <4>0, <4>1, <4>3, <5>1 DEF LoggedIn
                  <4> QED BY <3>6, <4>4, <4>5 DEF MeReturns
            <3>7. CASE c \in Apis /\ ApiReturns(c)
                  BY <3>7, <2>c DEF ApiReturns
            <3> QED BY <2>8, <3>1, <3>2, <3>3, <3>4, <3>5, <3>6, <3>7 DEF CallStep
      <2>9. CASE RefreshOk
            <3>1. /\ id' = id /\ token' = Len(owner) + 1 /\ call' = Settled("granted")
                  /\ refresh' = {} /\ UNCHANGED <<cookie, check>> /\ Quiet
                  BY <2>9 DEF RefreshOk, Store
            <3>2. token' # 0 /\ \A c \in Callers : call'[c].pc \notin {"denied", "cleared"}
                  BY <3>1 DEF Settled, Quiet
            <3> QED BY <3>1, <3>2 DEF DeniedAsNobody, SentWithToken, LoggedIn
      <2>10. CASE RefreshFails
            <3>1. cookie = None /\ cookie' = cookie
                  BY <2>10 DEF RefreshFails, Lost, DeniedAsNobody
            <3> QED BY <3>1 DEF DeniedAsNobody, SentWithToken, LoggedIn
      <2>11. CASE SessionRender
            <3>1. \/ call' = call
                  \/ user # No /\ call' = Sent(user, "sent")
                  BY <2>11 DEF SessionRender
            <3>2. CASE call' = call
                  BY <2>11, <3>2, <2>a DEF SessionRender
            <3>3. CASE user # No /\ call' = Sent(user, "sent")
                  <4>1. CASE user \in Callers
                        BY <2>11, <3>3, <4>1, <2>b DEF SessionRender, Sent
                  <4>2. CASE user \notin Callers
                        BY <2>11, <3>3, <4>2, <2>a DEF SessionRender, Sent
                  <4> QED BY <4>1, <4>2
            <3> QED BY <3>1, <3>2, <3>3
      <2>12. ASSUME NEW r \in Runs, Opens(r) \/ Closes(r)
             PROVE  DeniedAsNobody' /\ SentWithToken' /\ LoggedIn'
            BY <2>12, <2>a DEF Opens, Closes
      <2>13. CASE UNCHANGED sessionVars
            BY <2>13, <2>a DEF sessionVars, authVars
      <2> QED BY <2>3, <2>4, <2>5, <2>6, <2>7, <2>8, <2>9, <2>10, <2>11, <2>12, <2>13
              DEF SessionNext
<1> QED BY <1>1, <1>2, UndisturbedBefore

----------------------------------------------------------------------------
(* Theorems.                                                               *)

LEMMA SessionInvInit == SessionInit => SessionInv
<1> SUFFICES ASSUME SessionInit PROVE SessionInv
    OBVIOUS
<1>1. WsInv /\ SessionTypeOK
      BY WsInvInit, SessionTypeInit DEF SessionInit
<1>2. Settling /\ RefreshIsAwaited
      BY DEF SessionInit, Settling, RefreshIsAwaited
<1>3. InitCalls /\ PairIsSet
      <2>1. Check \notin Runs
            BY DEF Check, Runs
      <2> QED BY <2>1, CallersAre DEF SessionInit, Init, InitCalls, PairIsSet
<1>4. CookieOfLogin /\ SocketAllowed
      BY DEF SessionInit, Init, CookieOfLogin, SocketAllowed
<1>5. OneIdentity
      <2>1. Behind(cookie)
            BY DEF SessionInit, Behind
      <2> QED BY <2>1 DEF SessionInit, OneIdentity
<1>6. RestoreInv
      BY DEF SessionInit, RestoreInv, DeniedAsNobody, SentWithToken, LoggedIn
<1> QED BY <1>1, <1>2, <1>3, <1>4, <1>5, <1>6 DEF SessionInv

\* One user stays behind everything the page has, whatever it awaits.
THEOREM SessionInvariant == SessionSpec => []SessionInv
<1>1. SessionInv /\ [SessionNext]_sessionVars => SessionInv'
      <2> SUFFICES ASSUME SessionInv, [SessionNext]_sessionVars PROVE SessionInv'
          OBVIOUS
      <2>1. WsInv'
            BY SessionStepIsWsStep, TypeOKStep, RunsStep, SocketsStep, ListenedStep
               DEF SessionInv, WsInv
      <2>2. SessionTypeOK' /\ Settling' /\ RefreshIsAwaited' /\ InitCalls'
            BY SessionTypeStep, RefreshStep, InitCallsStep DEF SessionInv, WsInv
      <2>3. PairIsSet' /\ OneIdentity' /\ CookieOfLogin' /\ SocketAllowed'
            BY PairStep, IdentityStep, CookieStep, SocketAllowedStep DEF SessionInv, WsInv
      <2>4. RestoreInv'
            BY RestoreStep DEF SessionInv
      <2> QED BY <2>1, <2>2, <2>3, <2>4 DEF SessionInv
<1> QED BY <1>1, SessionInvInit, PTL DEF SessionSpec

\* The page's requests, cookies and tokens stay within their types, and no
\* request is repeated without a token.
THEOREM SessionTypeCorrect == SessionSpec => []SessionTypeOK
<1>1. SessionInv => SessionTypeOK
      BY DEF SessionInv
<1> QED BY <1>1, SessionInvariant, PTL

\* The id, the token and the cookie are of one user, however late a refresh,
\* a check or a login writes its part of them and whichever cookies are kept.
THEOREM TheIdentitiesAgree == SessionSpec => []IdentitiesAgree
<1>1. SessionInv => IdentitiesAgree
      BY DEF SessionInv, OneIdentity, Behind, IdentitiesAgree
<1> QED BY <1>1, SessionInvariant, PTL

\* The server knows the live socket of the user in the store as that user's.
THEOREM TheSocketIsItsUsers == SessionSpec => []SocketOfItsUser
<1>1. SessionInv => SocketOfItsUser
      BY DEF SessionInv, SocketAllowed, SocketOfItsUser, Runs, No
<1> QED BY <1>1, SessionInvariant, PTL

\* A page that loads with the cookie of a login has the user of that cookie
\* again when the check is over, with a token of that user, and nothing logs it
\* out, however its calls, refreshes and renders interleave.
THEOREM ACookieRestoresTheLogin == SessionSpec => []RestoresLogin
<1>1. SessionInv => RestoresLogin
      BY DEF SessionInv, RestoreInv, LoggedIn, OneIdentity, Behind, RestoresLogin
<1> QED BY <1>1, SessionInvariant, PTL

\* A refresh is pending exactly as long as a call awaits it.
THEOREM TheRefreshIsAwaited == SessionSpec => []RefreshIsAwaited
<1>1. SessionInv => RefreshIsAwaited
      BY DEF SessionInv
<1> QED BY <1>1, SessionInvariant, PTL
=============================================================================
