# videoChatApp in TLA+

Specifications, model checks and proofs of videoChatApp: a Go backend that keeps
one WebSocket per user and relays WebRTC signalling, and a Next.js frontend that
logs in, keeps that WebSocket and makes one-to-one video calls.

## Inventory

| Component (source) | State | Operations | Talks to |
|---|---|---|---|
| **Hub and clients** (`backend/internal/communication/websocket`) | map user -> connection; per connection the send buffer, `stopped`, two pumps | Register, Unregister, Run (two goroutines), Start, Stop, Send, SendTo, GetConnectedUsers | HTTP handler, relay, friends service, browsers |
| **Relay** (`backend/internal/service/communication`) | table of handlers | forward offer, answer, ICE with the sender's id | Hub.SendTo |
| **Authentication** (`service/auth`, `handler/auth`, `handler/userHandler`, middleware) | users table, cookies, tokens | login, register, refresh, verify, session permission for the WebSocket | router, frontend |
| **Friends** (`service/friends`, repositories, `friendsHandler`) | friend_requests, friend_ships rows | request (two checks, insert, notify), approve, list, search | Hub, database |
| **WebSocket session** (`useWebsocketConnection`, `useGlobalSignalingListener`, `websocketStore`) | wsRef, store, listener, isOnline | effect runs, clean-ups, socket events | user store, backend |
| **User session** (`userStore`, `fetchWithAuth`, `refreshToken`, login pages) | user, token, shared refresh | login, refresh, clear | WebSocket session |
| **Call session** (`callSession`, `startChatOffer`, `globalActions`, offer store, ConnStateMapper) | currentPc, currentPeerUserId, offers, ConnState | dial, accept, decline, answer, ICE, connection events | WebSocket, chat room, monitor |
| **Chat room** (`chatRoomStore`, `useVideoChatUI`, pages) | id, peerConnection, isConnected, streams | setters, rendering | call session |
| **Network quality** (`stats/*`, `networkStore`, `useDynamicVideoQuality`) | timers, metrics per peer, level applied | monitor, stop, sample, derive level, set encoding | peer connections |
| **Notifications** (`services/notifications`) | toasts | route a message to its handler | offer store, call session |
| Speech worker, dashboards, wiring | - | - | unused or pure wiring |

What is hard here: the hub's map is written without its lock, by two loops; a
reconnection replaces a connection other goroutines still use; every `await` in
the browser lets another call, login or event in; a close event or an answer
arrives after what it belongs to was replaced; the relay loses messages
silently. `PROJECT.json` lists each such hazard at its line.

What makes each component correct:

* Hub: one live connection per user, the replaced one stopped (but for a user whom
  two loops serve at once); nobody else stopped; messages only to their addressee and in order; nothing after Stop.
* WebSocket session: at most one live socket, of the user shown; stores that
  tell the truth; a listener on the open socket; no socket after a logout.
* Calls: a call takes one answer, from the user it dialled; "connected" is never claimed
  with nothing behind it; offers stay until answered or declined; an accepted
  call connects.
* Friends: few requests per pair; friendship only after a request; nobody told
  of a request that is not stored, no stored request forgotten without a trace.
* Authentication and session: the id, the token, the cookie and the socket are
  of one user; callers that get a 401 together share one refresh and none waits
  for ever; a reload of the page restores the user who logged in last.
* Network quality: no interval runs that nothing can stop; late samples reach
  the entry of their own peer; numbers that can be numbers; the sender is set to
  the level that is shown.

## Modules

| Module | Models | State and actions |
|---|---|---|
| `Hub` | hub.go, client.go, the WebSocket handler, Gateway callers | one variable per field or per goroutine's place; a handler of Run is split at every map access (`Lookup`, `BeginWrite`, `EndWrite`) and Stop in two (`StopBegin`, `StopEnd`), because nothing makes them atomic; `contested` is history: the users two loops have served at the same time; the pumps' select branches are actions; `MapFault` is the runtime stopping the process on a racing map access |
| `Presence` | what the hub promises: each user has at most one current connection; connecting retires the previous one; retired connections never come back; all of it for a user whom no two loops served at the same time | `Connect`, `Disconnect`, and `Contest` and `Retire` for the users to whom nothing is promised any more; `Hub` implements it with `current` and `retired` computed from the map and the stop flags (`P == INSTANCE Presence`) |
| `HubProofs` | theorems about `Hub` with any number of loops, and what it inherits from `Presence` | - |
| `Calls` | call session, offer store, chat room, ConnState, monitor timers, relay | one record per RTCPeerConnection whose `step` is the await it is in; `Receive*` are the notification handlers; `ConnectionStateChange` is the event with the handler in force |
| `Pairing` | what a call promises: a connection is described once, with the opposite connection its peer made for it, and comes up only when the two are described with each other | `Make`, `Describe`, `ComeUp`, `GoDown` on one sequence of connections; `Calls` implements it (`ImplementsPairing`) |
| `Monitoring` | the contract between the calls and the quality monitors: a call that is opened gets the chat room and the monitor of its peer together, once; monitors may be stopped at any time | `Open`, `Stop`; `Calls` implements it for all browsers, `Quality` for one (`ImplementsMonitoring` in each) |
| `PairingProofs`, `MonitoringProofs` | what `Pairing` and `Monitoring` guarantee | - |
| `CallsProofs` | theorems about `Calls`, its two refinements and what it inherits through them | - |
| `WsSession` | connection effect, its socket and the listener's effect, whatever the logins and requests around it do | one run per (id, token) pair; `RenderNewUser` is React running clean-up and effect, `InitOk`/`InitFail` the end of its await, `OnOpen`/`OnClose` the events; `SetUser`, `ClearUser` and `Touch` are what others do to the user store |
| `WsSessionProofs` | theorems about `WsSession` | - |
| `Session` | composes `WsSession` (EXTENDS) with fetchWithAuth and its shared refresh, the login and register pages, the home page's check, and the server's handlers, middleware and cookies | `call` is the place of each caller of fetchWithAuth; `Unauthorized`, `Retry`, `GiveUp` are its continuations, `RefreshOk`/`RefreshFails` the shared promise, `Login` or `Register` and `StoreLogin` the two halves of a login, with `Kept` the answers whose cookie the browser keeps, `VerifyReturns`/`MeReturns` the check, `InitReturns`, `Opens` and `Closes` the WebSocket's steps with the cookies they need; where `WsSession` lets the store change at will, these are what changes it |
| `SessionProofs` | the refinement of `WsSession` by `Session`, theorems about `Session` | - |
| `Quality` | monitor timers, samples, levels, the entries of networkStore, and the effect that sets the encoding of the sender | `Call` and `StopMonitor` are what the call session does; `Tick`/`Sampled`/`SampleFails` an interval and the end of its getStats, `Mount`/`Unmount`/`Effect` the chat room page, `Set`/`SetFails` the end of setParameters; `troubles` is history only the properties read |
| `QualityProofs` | theorems about `Quality` | - |
| `Friends` | request handler, duplicate checks, insert, notification, toasts, approvals, friends list | per handler its next statement (`Check`, `CheckReverse`, `Create`, `Notify` are statements of their own, each may fail); tables as rows per pair and a sequence; `Login`, `ClearUser`, `Reload` of a tab; `used` and `lost` are history only the properties read |
| `FriendsProofs` | theorems about `Friends` | - |
| `MCHub`, `MCCalls`, `MCFriends`, `MCSession`, `MCQuality`, `MCWsSession` | instances for TLC | constants, and symmetry for `MCFriends` and `MCQuality`; `MCWsSession` serves `ws_subscribed` alone, since `session` checks the properties of `WsSession` on the composition |

Operators that follow a comment "Fault:" are variations of the definition next
to them, each a plausible bug; no specification uses them. Each shows that some
property would notice that bug.

Modelling choices: payloads are the identity of their sender or of their peer
connection. The hub's unbuffered channels are a rendezvous: a loop in `select`
takes a waiting handler's request. A message of a caller carries its number so
that order can be stated. In `Calls` the relay is a FIFO per ordered pair of
users, since the server reads one sender's frames in turn and each receiver has
one buffer; `Lose` stands for every way it fails. Peer connections, React and
sockets are external and modelled by what this code reads of them: the
connection states and their order, that a renewed store renders again, that a
socket closed by the page fires its close event later. A page
has at most one live socket (`OneLiveSocket`), a socket carries a caller's messages in
order (`Delivery`), and what a new one carries is newer than what the old one got
(`NewestOnCurrent`), so the FIFO holds although a page may reconnect. `Calls` takes its sockets
as open, `WsSession` lets the user store change at any time, and `Quality` lets
calls begin and connections change at any time; `Session` replaces the first
freedom by the requests that cause the changes. In `Session` a request is
processed by the server when its answer arrives, and between two tasks of the
browser all continuations of settled promises run (`Quiet`). A rate in `Quality`
is a pair of bytes and milliseconds, so that the thresholds are exact.

## Runs

| Run | Question | Instance |
|---|---|---|
| `hub_reconnect` | does the hub with its two loops implement Presence, and close and wind down what it replaces? | 2 loops, 2 connections of one user, each of which may unregister; refinement and liveness |
| `hub_two_loops` | what survives with the two loops the program starts, and does a reconnection disturb the order of a caller's messages? | 2 connections of one user, one caller with 2 calls, buffer of 1 |
| `hub_orphan` (violated) | is the old connection closed on reconnection? | as above |
| `hub_gone` (violated) | does a browser that went away leave the list? | nobody unregisters, as in the program |
| `calls` | does the call layer implement `Pairing` under loss, redials, double acceptance and crossing calls, and are its stores true? | 3 users, 2 of them dial anybody, themselves included (the friend list may hold the user himself), 3 peer connections |
| `calls_connect` | does an accepted call connect? | 2 users who may both dial, 3 connections, nothing lost |
| `calls_monitor`, `calls_callee_ice` (violated) | claims of the design notes and of a comment | 1 dialler |
| `friends` | how many requests can two users have, who is told of what, who becomes friends, what is lost? | 2 users who may ask each other and themselves, 2 tabs they share, 2 handlers at a time, 3 requests, 1 failing check, 2 approvals |
| `session` | is it one user everywhere, does a refresh end, does a reload restore the user who logged in, and do the socket's properties hold with the requests that drive it? | 2 users, 4 (id, token) pairs, the init calls, the check and 1 other call, 2 events (a login, a registration whose cookie is not kept, an expiry, a lost request) |
| `quality` | can every monitor be stopped, do late samples and requests do harm, is the level that is shown the one that is set? | 2 peers, 2 calls, 1 pending sample and 2 pending requests per connection, 2 reports (levels high and poor), 1 fault or further visit |
| `ws_subscribed` (violated) | is an open socket always listened on? | 2 pairs |

Why the bounds are enough: the hub's interesting cases need a connection and its
replacement, a loop (or two) and a message that waits behind another, which is
what two connections, a buffer of one and two messages give. Nothing in the program
calls `Hub.Unregister` (the read pump just returns), so `Unregistering` is empty
everywhere but in `hub_reconnect`, which runs `handleUnregister` too: safety and
winding down hold of a program that calls it and of one that does not, and nothing
there needs the call to happen. A redial, a call to
somebody else, a second acceptance and two users calling each other each need at
most three peer connections; the one case that needs four is left to the proof (see
Proofs). In `WsSession` a stale run, its successor and one
more change need three pairs; four leave room for a logout in between. In
`Friends` two handlers that overlap, in the same or in opposite directions, and
a third request afterwards show what the checks keep; two tabs allow a login of
somebody else between a notification and its approval. That run has no
liveness, so users, tabs and handlers are symmetric. In `Session` two events make
two logins of different users, a login whose token expires, or a request lost on
the way; every pair a behaviour of the run can make fits in four. In `Quality`
two levels suffice for a level that changes and changes back while requests are
under way, a call to the same and to another peer are both possible, and a gap
of 0 together with a report older than the last one exercises both clamps; all
reports, gaps and numbers of calls are covered by the proofs. The exceptions in
`AppliedIsSet` and `SettledIsLevel` are what the code does: it remembers the
level but not the connection (useDynamicVideoQuality.ts:33), skips a change back
while the first request is under way, and does not try a refused one again.

The violated claims, in words: two registrations at once leave a connection
alive that nobody can reach or stop; a browser that went away stays listed; a call
that connects is no longer monitored, because "connecting" already stopped the
monitor (so the quality level stays at its initial "poor" or its last value
before connecting; the exception is a superseded call that connects while the newer one
is connected, whose handler asks about the newer one and keeps the monitor); the
answering browser drops all the caller's ICE candidates (calls still connect when the caller uses the callee's); the late close event of a replaced socket
takes the new one out of the store.

### The cookie of an earlier login

`refreshtoken.md` specifies that a login sets the cookie in place of another user's
(lines 2-3) and that a reload gets the user back from it (lines 4-7), and reports that after user1 and then user2 logged in, a reload restores
user1 (line 10), asking why (line 13). Neither handler contains that defect now. Both
set the same cookie, by name, path and domain (LoginHandler.go:38-46,
RegisterHandler.go:40-48), so that the later one takes the place of the earlier:

* while a page lives, the cookie is of the user in the store (`IdentitiesAgree`;
  its mutant, a login that leaves the earlier cookie, is the reported defect);
* the next load starts with that cookie and ends with that user (`RestoresLogin`, for
  any cookie a page may load with), which is user2.

What remains of the report depends on the browser keeping the cookie at all, which
`Kept` says. The deployment serves page and API from one origin,
https://172.20.10.2:3001 (Caddyfile, apiBase.ts:2), and keeps both. A page of
another origin (config.go:50 admits http://localhost:3000) keeps no cookie of a
registration, since register/page.tsx:16 asks without credentials where
login/page.tsx:19 includes them; and with the API reached as localhost the browser
keeps neither, as both are for 172.20.10.2, while the refresh goes on renewing a cookie
for localhost that it may have from before (RefreshHandler.go:45). There the page shows
user2, the cookie stays user1's, and a reload restores user1: the reported behaviour.
The history `crossed` marks such a page (`Admit`) along with those on which a login
overtook a request, and `IdentitiesAgree` and `RestoresLogin` say nothing of it from
then on; of a page that loads with the cookie that was left, `RestoresLogin` says that
it restores that cookie's user. The run takes the middle case, in which a login's cookie
is kept and a registration's is not; a registration that is kept is as a login. The
theorems are for every `Kept`.

### Fairness

`Hub`: weak fairness of each goroutine (loops, pumps, handlers, spawned starts),
which Go's scheduler gives; none for browsers, for callers, for calls of Unregister
or for the process being stopped. `Calls`: a promise settles, the relay delivers, candidates are
gathered and a connection that may come up does, only in the run where nothing
is lost (`Reliable`); users owe nothing. `Session`: React renders after a store
changed, and what a caller of fetchWithAuth awaits is answered or fails, since
fetch settles; users, logins and sockets owe nothing. `Friends` and `Quality`
state safety only and need none.

## Proofs

All are for every value of the constants.

Every invariant and every action property that a passing run checks is stated by a
theorem; only the liveness properties are not (see the end of this section).

`HubProofs` proves the hub's type invariant and all the safety properties its
runs check. The argument is in layers:

* `TypeInv`: types, what each place in a loop says about its local variables,
  and that a connection has at most one write pump, started once.
* `MapInv`: who can be in the map. A client is listed under its own user; a
  client a handler has not registered yet is not listed; a stopped client that
  is still listed is the one some loop has just stopped and is about to replace
  or delete. It holds for any number of loops, though two may interleave at
  every map access.
* `ContestInv`: as long as no two loops served a user at the same time, one loop at
  most is at work for that user (`Alone`), and between its lookup and its write the
  entry does not change (`LoopInv`), though other loops change the rest of the map. So
  an unlisted live connection is left to a user whom two loops met over and to nobody
  else (`OnlyContestedOrphans`), and the hub refines `Presence` with any number of
  loops (`HubImplementsPresence`). That two loops of the program do meet is
  `hub_orphan`; `contested` says precisely what that costs, and for whom.
* `Closed`: a connection whose Stop is over has its socket closed, so
  `NothingAfterStop`. `Leavers` and `Closing`: a connection that is stopped is
  leaving, or its user has another one, so `NoStrayStop`.
* `Addressed` and `Ordered`: what is buffered, held by a pump and written is
  addressed to the owner and in each caller's order, so `Delivery`.
* Order across the connections of a user. `NewestOnCurrent`, for any loops: what
  is written to the listed connection is newer than all the user got before from
  that caller, whatever connection carried it. All that an uncontested user gets is
  in order (`UncontestedInOrder`): the replaced connection is silent before the new
  one is listed. For a contested one this is false (TLC finds it violated on the
  instance of `hub_two_loops` without the exception): an orphan still writes what it
  has buffered.
* `Presence` has two properties of its own, `CurrentIsAlive` and `RetiredForGood`.
  Through the refinement they become theorems about the hub (`CurrentStaysAlive`,
  `StoppedForGood`).

`CallsProofs` proves the type invariant and all the safety properties of the
`calls` run. `AnswerInv` follows an answer from the callee's connection through
the relay (`RelayFromOwner`) and the pending setRemoteDescription
(`SettingAnswers`) to the description (`RemoteAnswers`); it needs that currentPc
and currentPeerUserId are written together (`CurrentDialled`). `StoresInv` adds
that a connection changes its state only when described (`DescribedFirst`), that
the caller of a described call has a current call to ask (`CallersHaveCurrent`)
and whose timers there are (`TimersOwn`). The proof found that the stronger claim,
"a lost connection is never left with a running monitor", is false: it takes four
connections (two calls that both connect) and so escaped the run. The caller's
handler stops the monitor of its peer unless currentPc is connected, and
currentPc may be another call by then; `MonitorEndsWithCall` names this exception
(`Superseded`).

The refinement of `Pairing` (`CallsImplementPairing`) needs more than the answers:
offers are followed from the caller through the relay, the callee's offer store and
the acceptance, so that a callee's connection is for an offer that its peer made for
it. Then an answer describes the caller's connection with a connection its peer made
for this user. That is as far as the code's check goes: it compares users and not
calls, so a late answer to an older offer is applied to the connection of a redial to
the same peer, which then takes no other answer and never pairs; `Pairing` permits it
and only keeps it from being connected. That `Pairing`'s
calls are pairs is proved in `PairingProofs` on one variable and four actions, and
`CallsProofs` inherits it (`ConnectedInPairs`, `CallsStayDescribed`): what is
connected is connected with the user it is for, and no connection serves two calls,
though a call may be accepted twice.

`Monitoring` connects `Calls` and `Quality`. In `Quality` calls begin and monitors
stop at any time, in the shape of `Monitoring` (`QualityImplementsMonitoring`);
`CallsImplementMonitoring` proves that the call layer, whose awaits end late
and whose superseded connections still report, does nothing else to the rooms and the
timers. That the environment of `Quality` has every behaviour of one browser in
`Monitoring`, up to the numbers of the calls and to stopping a monitor that does not
run, is read off the two modules and not proved. Both inherit that the
monitor beside the room samples the room's call (`CallsSampleTheRoom`,
`TheShownCallIsSampled`), and `Calls` that no monitor is resumed
(`CallsMonitorOnce`). These refinements are in no run; before they were proved TLC
found no violation of them on the instances of `calls` and `quality`.

`WsSessionProofs`: the invariant `WsInv` adds to the properties that pairs are
numbered once and in order (`Numbered`) and that an awaiting run that was not
unmounted is the rendered one (`Awaiting`). Without `Awaiting` a run could open a
socket for a user that is gone; with it, a socket is only opened by a run that
has none, and every render of another user closes the one in `wsRef`.
`SocketsInOrder`: sockets are opened for later and later pairs, though inits are
answered in any order, because only the rendered run, the latest, opens one
(`Latest`). The type invariant of `WsSession` is proved here and in no run;
`SessionTypeOK` is checked on the composition.

`SessionProofs` first shows that `Session` implements `WsSession`: every step of
the page is one of `WsSession`'s or leaves it alone (`SessionImplementsWs`), so
all that `WsSessionProofs` shows holds of the composition. On top of that,
`SessionInv` holds the argument for the identities: as long as no login overtook a
request of another user or left his cookie (`Undisturbed`), there is one user behind everything the
page has or awaits (`OneIdentity`: the id, the owner of the token, the cookie, the
refresh and the tokens of the calls). `CookieOfLogin` and `SocketAllowed` carry it
to the cookies and the socket, `Settling` and `RefreshIsAwaited` describe the
shared promise while its callers continue. Without the history `crossed` the
agreement is false: an answer of the old user's that arrives after a new login is
stored by the code. `ACookieRestoresTheLogin` proves `RestoresLogin`:
when the home page's check is over, the page has the user of the cookie it loaded
with and a token of that user, if nothing was lost or expired and no login overtook a
request; its invariant says for each place of the check, of the refresh and of the retries whose token it has
and that nothing on the way clears the user.

`QualityProofs` has an invariant per property. `MonitorInv`: intervals and timers
change together (`TimersKeepTheirPeer`). `EntryInv`: a pending sample writes to
the peer of its connection, which never changes. `MetricsInv`: whatever the
reports and the clock, a measurement is sane (`MeasuredIsSane`), for all reports
and gaps. `PageInv`: while a page shows one connection, its own requests are the
only ones under way (`RequestsAreMine`) and the last of them is for the level the
effect saw last (`LastRequestIsSeen`).

`FriendsProofs`: the interesting bound is `RowsBounded`. The two duplicate checks
and the insert are separate statements without a unique constraint, so requests
are not unique; what holds is that two users have at most as many requests
between them, in both directions and for ever, as handlers run at once, and one
more per check that failed. The inductive invariant `LateBounded` counts the
stored rows together with the handlers that may still add one (`Late`): at the
insert, or at the second check with no row to find. A stored row stops every
handler but these, a handler that stores is not late any more, and only a failed
check makes another one late. The other properties follow from where a
notification can come from (`Grounded`), a toast (`ToldOfStored`) and a
friendship row (`RowsAsked`), and from requests never being deleted. One more
theorem says what the checks are worth (`PairsStayClosed`): with a stored request and
no late handler a pair is closed, and stays so unless a check fails. `NoSilentLoss` is
about an account, `lost`, of the ways in which the code drops a stored request: it
shows that there is no further one, not that those do no harm.

Assumptions on the constants: `HubAssumption` (types of the constants; a buffer has
room for at least one message), `CallsAssumption`, `WsAssumption`,
`SessionAssumption` (nobody is no user; `Kept` is any set of the two answers), `QualityAssumption` (a report's counters
are natural numbers; the clock may do anything), `FriendsAssumption` (finitely
many handlers at a time; `NoUser` is nobody).

Only model-checked: liveness (`ReconnectCloses`, `WindsDown`, `AcceptedConnects`,
 `LogoutDisconnects`, `CheckEnds`), which rests on fairness and
ENABLED and is out of the proof system's reach. The properties of the violated runs
are false of the program as it is; of `NoOrphan` and `InOrder` the theorems above say for
which users they hold.

## Not modelled, and why

* Router, configuration, database set-up: wiring that runs once. Speech worker:
  unused. Pages: rendering, apart from the effects above.
* Media streams and SDP contents, late ontrack events: opaque to this code or
  without a consequence for the state modelled.
* Malformed messages: ignored by the relay and by the handlers.
* Page reloads and backend restarts lose all state on their side; the other side
  sees a closed socket, which is modelled. `Friends` has `Reload`, since toasts
  are lost with the page; `Session` starts with a page that has just loaded, with
  any cookie.
* Other tabs, which share the cookies: each has its own user store, and the
  session cookie of one may be used by the handshake of the other. `Session` is
  one page.
* Passwords and user rows; a login or registration that fails changes nothing.
  RefreshHandler sets its cookie for the domain "localhost", so the browser keeps
  the one it has.
* Functions nothing calls: networkStore's remove and reset, stopAllMonitors, and
  of the repositories deleting a request, changing its status, listing pending
  ones.
* The list of friends that startChat/page.tsx polls: it may show everybody as
  offline after a late list of friends (line 40 uses the connected users of the
  first render) until the next poll, five seconds later, corrects it.
* `Friends` takes the id and the token of the user store together; that they can
  differ for a moment is in `Session`.

## Plan

Done: `Hub` with `Presence`, `Calls` with `Pairing`, `WsSession`, `Friends`,
`Session` over `WsSession`, `Quality`, the contract `Monitoring` between it and
`Calls`, and the proofs of the safety of all of them. Left, in this order:

1. `Calls` over `WsSession`: dials and handlers that need an open socket, and
   offers that were sent on a socket that was replaced.
2. `Calls` with `Quality` in one module: the page's encoding against the
   connection's events, which the contract `Monitoring` leaves out.
3. The polled list of friends: answers out of order, the level of "online" a user
   sees against what the hub lists.
4. Two pages of one browser that share the cookies.
