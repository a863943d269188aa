------------------------------ MODULE Session ------------------------------
(***************************************************************************)
(* One page of the browser from its load on: the requests of fetchWithAuth *)
(* and the refresh they share, the login page, the check of the home page, *)
(* the cookies, the server's handlers that set and read them, and the      *)
(* WebSocket of WsSession, whose logins, clears and init answers are the   *)
(* results of those requests.                                              *)
(*                                                                         *)
(* A request is processed by the server when its answer arrives.  Between  *)
(* two tasks the browser runs all continuations of settled promises; an    *)
(* action that starts a task waits for Quiet.                              *)
(***************************************************************************)
EXTENDS WsSession, Sequences

CONSTANTS
    Users,          \* users with an account, or about to have one
    None,           \* no user id, no cookie
    Kept,           \* the answers whose cookie the browser keeps
    MaxApis,        \* bound: other calls of fetchWithAuth
    MaxEvents       \* bound: logins, tokens and cookies that expire, requests lost

ASSUME SessionAssumption ==
    /\ None \notin Users
    /\ Kept \subseteq {"login", "register"}
    /\ MaxApis \in Nat /\ MaxEvents \in Nat

\* The callers of fetchWithAuth: the init call of each run of the connection
\* effect, the check of the home page, and other calls.
Check == 0
Apis == (MaxRuns + 1)..(MaxRuns + MaxApis)
Callers == 0..(MaxRuns + MaxApis)

VARIABLES
    id,         \* user.id
    token,      \* user.token: the number of an access token, 0 for none
    owner,      \* the users the access tokens were issued to, in order
    expired,    \* the tokens up to this one have expired
    cookie,     \* the user of the refreshToken cookie
    allowed,    \* user_id in the session cookie, set with websocket_allowed
    call,       \* per caller: the progress of fetchWithAuth and its token
    refresh,    \* refreshPromise: {}, or {the cookie it was sent with}
    check,      \* checkCookie: awaiting "verify" or "me", or "done"
    logins,     \* tokens of login answers whose body is not read yet
    spoke,      \* per run: the user its socket was accepted for
    crossed,    \* history: a login overtook a request or left a cookie of another user
    lost,       \* history: a request was lost or a cookie expired
    events      \* how many of the bounded events have happened

authVars == <<id, token, owner, expired, cookie, allowed, call, refresh, check,
              logins, spoke, crossed, lost, events>>

Tokens == 1..Len(owner)

Pcs == {"new", "sent", "waiting", "granted", "denied", "cleared", "retry", "done"}

SessionTypeOK ==
    /\ id \in Users \cup {None}
    /\ token \in 0..Len(owner)
    /\ owner \in Seq(Users)
    /\ expired \in 0..Len(owner)
    /\ cookie \in Users \cup {None}
    /\ allowed \in Users \cup {None}
    /\ call \in [Callers -> [pc : Pcs, tok : 0..Len(owner)]]
    /\ \A c \in Callers : call[c].pc = "retry" => call[c].tok # 0
    /\ refresh \subseteq Users \cup {None}
    /\ \A u, v \in refresh : u = v
    /\ check \in {"verify", "me", "done"}
    /\ logins \subseteq Tokens
    /\ spoke \in [Runs -> Users \cup {None}]
    /\ crossed \in BOOLEAN
    /\ lost \in BOOLEAN
    /\ events \in 0..MaxEvents

\* A page has just loaded: nothing is left of an earlier one but its cookies,
\* of which the session cookie is set again before it is read.
SessionInit ==
    /\ Init
    /\ id = None
    /\ token = 0
    /\ owner = <<>>
    /\ expired = 0
    /\ cookie \in Users \cup {None}
    /\ allowed = None
    /\ call = [c \in Callers |-> [pc |-> IF c = Check THEN "sent" ELSE "new", tok |-> 0]]
    /\ refresh = {}
    /\ check = "verify"
    /\ logins = {}
    /\ spoke = [r \in Runs |-> None]
    /\ crossed = FALSE
    /\ lost = FALSE
    /\ events = 0

\* One more of the bounded events.
Event == events < MaxEvents /\ events' = events + 1

Quiet == \A c \in Callers : call[c].pc \notin {"granted", "denied", "cleared"}

Answered == UNCHANGED <<lost, events>>
Lost == Event /\ lost' = TRUE

\* fetch, with the token of the store.
Sent(c, pc) == [call EXCEPT ![c] = [pc |-> pc, tok |-> token]]

\* setUser: the fields given replace those of the store.
Store(i, t) ==
    /\ id' = i
    /\ token' = t
    /\ IF i = None \/ t = 0 \/ <<i, t>> = <<id, token>> THEN Touch ELSE SetUser

----------------------------------------------------------------------------
(* Tokens and cookies.                                                     *)

\* JWTMiddleware: the header has a token, and it is valid.
Valid(t) == t # 0 /\ t > expired

\* Fifteen minutes after it was issued.
Expire ==
    /\ Event /\ expired < Len(owner)
    /\ expired' = expired + 1
    /\ UNCHANGED <<vars, id, token, owner, cookie, allowed, call, refresh, check,
                   logins, spoke, crossed, lost>>

\* Seven days after it was set.
CookieExpires ==
    /\ Event /\ cookie # None
    /\ cookie' = None
    /\ lost' = TRUE
    /\ UNCHANGED <<vars, id, token, owner, expired, allowed, call, refresh, check,
                   logins, spoke, crossed>>

\* POST /api/login or /api/register answers.  The browser stores the cookie
\* before the page has read the body, if it keeps it: the register page asks
\* without credentials, so only if page and API are of one origin, and both
\* handlers set the cookie for 172.20.10.2, so never if the API is reached as
\* localhost.  A cookie it does not keep leaves the one of an earlier login.
Admit(by, u) ==
    /\ Quiet /\ Event
    /\ owner' = Append(owner, u)
    /\ logins' = logins \cup {Len(owner) + 1}
    /\ IF by \in Kept
       THEN cookie' = u /\ crossed' = crossed
       ELSE cookie' = cookie /\ crossed' = (crossed \/ cookie \notin {u, None})
    /\ UNCHANGED <<vars, id, token, expired, allowed, call, refresh, check, spoke, lost>>

\* Fault: the handler does not replace the cookie of an earlier login.
LoginKeepsCookie(u) ==
    /\ Quiet /\ Event
    /\ owner' = Append(owner, u)
    /\ cookie' = IF cookie = None THEN u ELSE cookie
    /\ logins' = logins \cup {Len(owner) + 1}
    /\ UNCHANGED <<vars, id, token, expired, allowed, call, refresh, check, spoke,
                   crossed, lost>>

Login(u) == Admit("login", u)

\* Only a user the browser and the server know nothing of registers.
Register(u) ==
    /\ u # cookie /\ u \notin refresh /\ \A t \in Tokens : owner[t] # u
    /\ Admit("register", u)

\* Some request or login on its way carries another identity than u.
Foreign(u) ==
    \/ refresh # {} /\ refresh # {u}
    \/ \E t \in logins : owner[t] # u
    \/ \E c \in Callers : /\ call[c].pc \in {"sent", "retry"} /\ call[c].tok # 0
                          /\ owner[call[c].tok] # u

\* The login page has read the answer.
StoreLogin(t) ==
    /\ Quiet /\ t \in logins
    /\ logins' = logins \ {t}
    /\ Store(owner[t], t)
    /\ crossed' = (crossed \/ Foreign(owner[t]))
    /\ UNCHANGED <<owner, expired, cookie, allowed, call, refresh, check, spoke,
                   lost, events>>

----------------------------------------------------------------------------
(* fetchWithAuth and refreshTokenIfNeeded.                                 *)

\* Fault: a second 401 does not wait for the refresh that is on its way.
UnauthorizedGivesUp(c) ==
    /\ Quiet /\ call[c].pc = "sent" /\ ~Valid(call[c].tok)
    /\ call' = [call EXCEPT ![c].pc = IF refresh = {} THEN "waiting" ELSE "denied"]
    /\ refresh' = IF refresh = {} THEN {cookie} ELSE refresh
    /\ UNCHANGED <<vars, id, token, owner, expired, cookie, allowed, check, logins,
                   spoke, crossed, lost, events>>

\* A 401: await the pending refresh, or start one.
Unauthorized(c) ==
    /\ Quiet /\ call[c].pc = "sent" /\ ~Valid(call[c].tok)
    /\ call' = [call EXCEPT ![c].pc = "waiting"]
    /\ refresh' = IF refresh = {} THEN {cookie} ELSE refresh
    /\ UNCHANGED <<vars, id, token, owner, expired, cookie, allowed, check, logins,
                   spoke, crossed, lost, events>>

\* The promise settles for everyone who awaits it.
Settled(pc) == [c \in Callers |->
    IF call[c].pc = "waiting" THEN [call[c] EXCEPT !.pc = pc] ELSE call[c]]

\* Fault: the promise is not reset when the refresh succeeds.
RefreshOkKept ==
    /\ Quiet
    /\ \E u \in refresh \ {None} : owner' = Append(owner, u)
    /\ Store(id, Len(owner) + 1)
    /\ call' = Settled("granted")
    /\ UNCHANGED <<expired, cookie, allowed, refresh, check, logins, spoke, crossed,
                   lost, events>>

\* RefreshHandler knows the cookie: a new token for its user.  It sets the
\* cookie for another domain, so the browser keeps the one it has.
RefreshOk ==
    /\ Quiet
    /\ \E u \in refresh \ {None} : owner' = Append(owner, u)
    /\ refresh' = {}
    /\ Store(id, Len(owner) + 1)
    /\ call' = Settled("granted")
    /\ UNCHANGED <<expired, cookie, allowed, check, logins, spoke, crossed, lost, events>>

\* Fault: an error leaves the promise unsettled.
RefreshFailsSilently ==
    /\ Quiet /\ refresh # {}
    /\ (None \in refresh /\ Answered) \/ Lost
    /\ refresh' = {}
    /\ UNCHANGED <<vars, id, token, owner, expired, cookie, allowed, call, check,
                   logins, spoke, crossed>>

\* There was no cookie, or the request is lost.
RefreshFails ==
    /\ Quiet /\ refresh # {}
    /\ (None \in refresh /\ Answered) \/ Lost
    /\ refresh' = {}
    /\ call' = Settled("denied")
    /\ UNCHANGED <<vars, id, token, owner, expired, cookie, allowed, check, logins,
                   spoke, crossed>>

\* Fault: the request is sent again with the header it had.
RetryOldHeader(c) ==
    /\ call[c].pc = "granted"
    /\ call' = [call EXCEPT ![c].pc = "retry"]
    /\ UNCHANGED <<vars, id, token, owner, expired, cookie, allowed, refresh, check,
                   logins, spoke, crossed, lost, events>>

\* Once, with the token that is in the store now.
Retry(c) ==
    /\ call[c].pc = "granted"
    /\ call' = Sent(c, "retry")
    /\ UNCHANGED <<vars, id, token, owner, expired, cookie, allowed, refresh, check,
                   logins, spoke, crossed, lost, events>>

\* clearUser, whoever is in the store by now.
GiveUp(c) ==
    /\ call[c].pc = "denied"
    /\ call' = [call EXCEPT ![c].pc = "cleared"]
    /\ id' = None
    /\ token' = 0
    /\ ClearUser
    /\ UNCHANGED <<owner, expired, cookie, allowed, refresh, check, logins, spoke,
                   crossed, lost, events>>

\* fetchWithAuth returns an answer that is ok.
Ok(c) ==
    /\ Quiet /\ call[c].pc \in {"sent", "retry"} /\ Valid(call[c].tok)
    /\ Answered

\* It returns a 401, or throws because the network does.
NotOk(c) ==
    \/ call[c].pc = "cleared" /\ Answered
    \/ Quiet /\ call[c].pc = "retry" /\ ~Valid(call[c].tok) /\ Answered
    \/ Quiet /\ call[c].pc \in {"sent", "retry"} /\ Lost

Done(c) == [call EXCEPT ![c] = [pc |-> "done", tok |-> 0]]

----------------------------------------------------------------------------
(* The callers.                                                            *)

\* fetchFriends, fetchConnectedUsers, postWithAuth.
ApiCall(c) ==
    /\ Quiet /\ Event /\ call[c].pc = "new"
    /\ call' = Sent(c, "sent")
    /\ UNCHANGED <<vars, id, token, owner, expired, cookie, allowed, refresh, check,
                   logins, spoke, crossed, lost>>

ApiReturns(c) ==
    /\ Ok(c) \/ NotOk(c)
    /\ call' = Done(c)
    /\ UNCHANGED <<vars, id, token, owner, expired, cookie, allowed, refresh, check,
                   logins, spoke, crossed>>

\* checkCookie: the token is valid, so ask whose it is; else it is over.
VerifyReturns ==
    /\ check = "verify"
    /\ \/ Ok(Check) /\ check' = "me" /\ call' = Sent(Check, "sent")
       \/ NotOk(Check) /\ check' = "done" /\ call' = Done(Check)
    /\ UNCHANGED <<vars, id, token, owner, expired, cookie, allowed, refresh,
                   logins, spoke, crossed>>

\* useAuthCheck stores the user of the token getMe was sent with.
MeReturns ==
    /\ check = "me"
    /\ \/ Ok(Check) /\ Store(owner[call[Check].tok], token)
       \/ NotOk(Check) /\ UNCHANGED <<vars, id, token>>
    /\ check' = "done"
    /\ call' = Done(Check)
    /\ UNCHANGED <<owner, expired, cookie, allowed, refresh, logins, spoke, crossed>>

\* The connection effect of a new user starts with its init call.
SessionRender ==
    /\ Quiet
    /\ \/ Render /\ call' = call
       \/ RenderNewUser /\ call' = IF user = No THEN call ELSE Sent(user, "sent")
    /\ UNCHANGED <<id, token, owner, expired, cookie, allowed, refresh, check, logins,
                   spoke, crossed, lost, events>>

\* Fault: the handler keeps the user the session cookie has.
InitReturnsKeeps(r) ==
    /\ \/ Ok(r) /\ InitOk(r)
          /\ allowed' = IF allowed = None THEN owner[call[r].tok] ELSE allowed
       \/ NotOk(r) /\ InitFail(r) /\ allowed' = allowed
    /\ call' = Done(r)
    /\ UNCHANGED <<id, token, owner, expired, cookie, refresh, check, logins, spoke,
                   crossed>>

\* SetupSessionHandler answers with the session cookie of the token's user.
InitReturns(r) ==
    /\ \/ Ok(r) /\ InitOk(r) /\ allowed' = owner[call[r].tok]
       \/ NotOk(r) /\ InitFail(r) /\ allowed' = allowed
    /\ call' = Done(r)
    /\ UNCHANGED <<id, token, owner, expired, cookie, refresh, check, logins, spoke,
                   crossed>>

\* WSHandler accepts the handshake for the user of the session cookie that the
\* browser sends with it.
Opens(r) ==
    /\ Quiet /\ allowed # None
    /\ OnOpen(r)
    /\ spoke' = [spoke EXCEPT ![r] = allowed]
    /\ UNCHANGED <<id, token, owner, expired, cookie, allowed, call, refresh, check,
                   logins, crossed, lost, events>>

Closes(r) ==
    /\ Quiet
    /\ OnClose(r)
    /\ spoke' = [spoke EXCEPT ![r] = None]
    /\ UNCHANGED <<id, token, owner, expired, cookie, allowed, call, refresh, check,
                   logins, crossed, lost, events>>

----------------------------------------------------------------------------
\* The steps the page and the network owe to a caller.
CallStep(c) ==
    \/ Unauthorized(c) \/ Retry(c) \/ GiveUp(c)
    \/ c \in Runs /\ InitReturns(c)
    \/ c = Check /\ (VerifyReturns \/ MeReturns)
    \/ c \in Apis /\ ApiReturns(c)

SessionNext ==
    \/ Expire \/ CookieExpires
    \/ \E u \in Users : Login(u) \/ Register(u)
    \/ \E t \in logins : StoreLogin(t)
    \/ \E c \in Apis : ApiCall(c)
    \/ \E c \in Callers : CallStep(c)
    \/ RefreshOk \/ RefreshFails
    \/ SessionRender
    \/ \E r \in Runs : Opens(r) \/ Closes(r)

sessionVars == <<vars, authVars>>

SessionSpec == SessionInit /\ [][SessionNext]_sessionVars

\* React renders, and the requests on their way are answered or fail.
SessionFairSpec ==
    /\ SessionSpec
    /\ WF_sessionVars(SessionRender)
    /\ WF_sessionVars(RefreshOk \/ RefreshFails)
    /\ WF_sessionVars(\E c \in Callers : CallStep(c))

----------------------------------------------------------------------------
(* Properties.                                                             *)

\* No login overtook a request of another user or left that user's cookie in
\* the browser, and none is half done.
Undisturbed == ~crossed /\ logins = {}

\* The id and the token in the store are of one user, and a refresh will
\* renew that user's token: useAuthCheck sets the id and refreshToken the
\* token, each on its own and late.  A login over another one takes its
\* cookie, as refreshtoken.md:3 says; the report of line 10, that a reload
\* then restores the first user, has only the way that Undisturbed excludes.
IdentitiesAgree ==
    Undisturbed /\ id # None /\ token # 0 =>
        owner[token] = id /\ cookie \in {id, None}

\* The server accepted the live socket of the user in the store for that
\* user, although it knows the user only from the session cookie of the
\* browser, which every init call sets.
SocketOfItsUser ==
    \A r \in Runs :
        Undisturbed /\ user = r /\ socket[r] = "open" => spoke[r] = id

\* What refreshtoken.md:2-7 specifies, and its line 10 reports to fail: a page
\* that loads with the cookie of a login has the user of that cookie again,
\* with a token of that user, if nothing is lost and no token expires
\* meanwhile; nor does anything log the user out then.
RestoresLogin ==
    check = "done" /\ Undisturbed /\ ~lost /\ expired = 0 /\ cookie # None =>
        id = cookie /\ token # 0 /\ owner[token] = id

\* Calls that get a 401 share one refresh: it is pending as long as someone
\* awaits it, and no longer.
RefreshIsAwaited == refresh # {} <=> \E c \in Callers : call[c].pc = "waiting"

\* The home page does not wait for its check for ever (page.tsx:11), whoever
\* else awaits the refresh and however often its calls are refused.
CheckEnds == <>(check = "done")
=============================================================================
