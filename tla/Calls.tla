------------------------------- MODULE Calls -------------------------------
(***************************************************************************)
(* Calls between browsers: the caller's startOutgoingCall/startCall, the   *)
(* callee's offer store and acceptCallRequest/acceptCall, the answers and  *)
(* ICE candidates that reach callSession.ts through the notification       *)
(* router, and the stores they keep (call session, chat room, ConnState,   *)
(* monitor timers).                                                        *)
(*                                                                         *)
(* Every "await" is a place where other callbacks of the same browser run, *)
(* so a call is a record with a step.  The backend's relay is a FIFO per   *)
(* ordered pair of users (the server reads a sender's frames in turn); it  *)
(* may lose a message unless Reliable.  RTCPeerConnection is external: it  *)
(* is modelled by the states this code reads and the events it handles.    *)
(***************************************************************************)
EXTENDS Naturals, Sequences

CONSTANTS
    Users,      \* user ids, one browser each
    Diallers,   \* the users who start calls
    MaxPcs,     \* bound: RTCPeerConnections made in a behaviour
    Reliable,   \* the relay loses nothing, and no connection breaks
    Nobody      \* no user

ASSUME CallsAssumption ==
    /\ Diallers \subseteq Users
    /\ MaxPcs \in Nat
    /\ Nobody \notin Users
    /\ Reliable \in BOOLEAN

Ids == 1..MaxPcs
No == 0         \* no peer connection

VARIABLES
    pc,         \* the peer connections, by the order of their calls
    made,       \* how many there are
    current,    \* currentPc and currentPeerUserId, per user
    offers,     \* callOfferStore: the last offer from each peer
    room,       \* chatRoomStore.session: id, peerConnection, isConnected
    connState,  \* ConnStateMapper's currentState
    timers,     \* monitorNetworkQuality's timers: the connection sampled
                \* for each peer
    relay       \* relay[p][u]: messages from p on their way to u

vars == <<pc, made, current, offers, room, connState, timers, relay>>

States == {"new", "connecting", "connected", "disconnected", "failed"}
Message == [type : {"offer", "answer", "ice"}, pc : Ids]

\* step: where startOutgoingCall / acceptCallRequest is.  "media" awaits
\* getUserMedia, "describe" awaits the session descriptions.
PeerConnection ==
    [own : Users, peer : Users, role : {"caller", "callee"},
     step : {"media", "describe", "done", "failed"},
     offer : Ids \cup {No},     \* callee: the offer it answers
     signaling : {"stable", "have-local-offer"},
     remote : Ids \cup {No},    \* whose description was set
     setting : Seq(Ids),        \* answers in setRemoteDescription
     ice : SUBSET Ids,          \* whose candidates were added
     gathered : BOOLEAN,        \* its own candidate was sent
     conn : States]

TypeOK ==
    /\ made \in 0..MaxPcs
    /\ pc \in [1..made -> PeerConnection]
    /\ current \in [Users -> [pc : Ids \cup {No}, peer : Users \cup {Nobody}]]
    /\ offers \in [Users -> [Users -> Ids \cup {No}]]
    /\ room \in [Users -> [id : Users \cup {Nobody}, pc : Ids \cup {No},
                           connected : BOOLEAN]]
    /\ connState \in [Users -> States \cup {"none"}]
    /\ timers \in [Users -> [Users -> Ids \cup {No}]]
    /\ relay \in [Users -> [Users -> Seq(Message)]]

Init ==
    /\ pc = <<>>
    /\ made = 0
    /\ current = [u \in Users |-> [pc |-> No, peer |-> Nobody]]
    /\ offers = [u \in Users |-> [p \in Users |-> No]]
    /\ room = [u \in Users |-> [id |-> Nobody, pc |-> No, connected |-> FALSE]]
    /\ connState = [u \in Users |-> "none"]
    /\ timers = [u \in Users |-> [p \in Users |-> No]]
    /\ relay = [p \in Users |-> [u \in Users |-> <<>>]]

Made == DOMAIN pc

Post(p, u, type, i) ==
    relay' = [relay EXCEPT ![p][u] = Append(@, [type |-> type, pc |-> i])]

NewPc(u, p, role, o) ==
    /\ made < MaxPcs
    /\ made' = made + 1
    /\ pc' = Append(pc, [own |-> u, peer |-> p, role |-> role, step |-> "media",
                         offer |-> o, signaling |-> "stable", remote |-> No,
                         setting |-> <<>>, ice |-> {}, gathered |-> FALSE,
                         conn |-> "new"])

\* callOfferStore's add and remove.
AddOffer(u, p, o) == offers' = [offers EXCEPT ![u][p] = o]
RemoveOffer(u, p) == offers' = [offers EXCEPT ![u][p] = No]

\* monitorNetworkQuality: one timer per peer, replacing the one there was.
StartMonitor(i) == timers' = [timers EXCEPT ![pc[i].own][pc[i].peer] = i]

\* What both sides write once they have media: the chat room's id and
\* connection, and the monitor.
OpenRoom(i) ==
    /\ room' = [room EXCEPT ![pc[i].own].id = pc[i].peer, ![pc[i].own].pc = i]
    /\ StartMonitor(i)

SetConnState(u, s) == connState' = [connState EXCEPT ![u] = s]

\* notify(): the state of currentPc, after this step, is the ConnState.
Notify(u, cur, pcs) == SetConnState(u, IF cur = No THEN "none" ELSE pcs[cur].conn)

----------------------------------------------------------------------------
(* The user's clicks.                                                      *)

\* Fault: the dialled friend has no id.
StartOutgoingCallUnnamed(u, p) ==
    /\ u \in Diallers
    /\ NewPc(u, Nobody, "caller", No)
    /\ UNCHANGED <<current, offers, room, connState, timers, relay>>

\* The button beside a friend in startChat/page.tsx, then startOutgoingCall
\* up to its first await.
StartOutgoingCall(u, p) ==
    /\ u \in Diallers
    /\ NewPc(u, p, "caller", No)
    /\ UNCHANGED <<current, offers, room, connState, timers, relay>>

\* The accept button: acceptCallRequest and acceptCall up to the first await.
\* The offer stays in the store, and so does the button.
AcceptCallRequest(u, p) ==
    /\ offers[u][p] # No
    /\ NewPc(u, p, "callee", offers[u][p])
    /\ UNCHANGED <<current, offers, room, connState, timers, relay>>

DeclineCallRequest(u, p) ==
    /\ offers[u][p] # No
    /\ RemoveOffer(u, p)
    /\ UNCHANGED <<pc, made, current, room, connState, timers, relay>>

----------------------------------------------------------------------------
(* The awaits of startOutgoingCall and acceptCall.                         *)

\* Fault: the offer is dropped when the acceptance fails.
MediaDeniedRemoves(i) ==
    /\ pc[i].step = "media"
    /\ pc' = [pc EXCEPT ![i].step = "failed"]
    /\ RemoveOffer(pc[i].own, pc[i].peer)
    /\ UNCHANGED <<made, current, room, connState, timers, relay>>

\* getLocalStream rejects: the call ends here, nothing is undone.
MediaDenied(i) ==
    /\ pc[i].step = "media"
    /\ pc' = [pc EXCEPT ![i].step = "failed"]
    /\ UNCHANGED <<made, current, offers, room, connState, timers, relay>>

\* getLocalStream resolves.  The callee fills the stores at once, the caller
\* only after its offer is sent.
MediaGranted(i) ==
    /\ pc[i].step = "media"
    /\ pc' = [pc EXCEPT ![i].step = "describe"]
    /\ IF pc[i].role = "callee" THEN OpenRoom(i) ELSE UNCHANGED <<room, timers>>
    /\ UNCHANGED <<made, current, offers, connState, relay>>

\* createOffer and setLocalDescription are done: sendOffer, and the rest of
\* startOutgoingCall.
SendOffer(i) ==
    LET u == pc[i].own IN
    /\ pc[i].role = "caller" /\ pc[i].step = "describe"
    /\ pc' = [pc EXCEPT ![i].step = "done", ![i].signaling = "have-local-offer"]
    /\ Post(u, pc[i].peer, "offer", i)
    /\ current' = [current EXCEPT ![u] = [pc |-> i, peer |-> pc[i].peer]]
    /\ OpenRoom(i)
    /\ Notify(u, i, pc')
    /\ UNCHANGED <<made, offers>>

\* The callee's descriptions are set: sendAnswer, and acceptCallRequest
\* removes whatever offer of that caller the store holds now.
SendAnswer(i) ==
    LET u == pc[i].own IN
    /\ pc[i].role = "callee" /\ pc[i].step = "describe"
    /\ pc' = [pc EXCEPT ![i].step = "done", ![i].remote = pc[i].offer]
    /\ Post(u, pc[i].peer, "answer", i)
    /\ RemoveOffer(u, pc[i].peer)
    /\ UNCHANGED <<made, current, room, connState, timers>>

----------------------------------------------------------------------------
(* Messages from the relay: the router hands each to its handler.          *)

Arrives(p, u, type) ==
    /\ relay[p][u] # <<>>
    /\ Head(relay[p][u]).type = type
    /\ relay' = [relay EXCEPT ![p][u] = Tail(@)]

\* OfferHandler.
ReceiveOffer(p, u) ==
    /\ Arrives(p, u, "offer")
    /\ AddOffer(u, p, Head(relay[p][u]).pc)
    /\ UNCHANGED <<pc, made, current, room, connState, timers>>

\* Fault: an answer is taken from anybody.
ReceiveAnswerFromAny(p, u) ==
    LET i == current[u].pc IN
    /\ Arrives(p, u, "answer")
    /\ pc' = IF i = No \/ pc[i].signaling = "stable" THEN pc
             ELSE [pc EXCEPT ![i].setting = Append(@, Head(relay[p][u]).pc)]
    /\ UNCHANGED <<made, current, offers, room, connState, timers>>

\* AnswerHandler and handleRemoteAnswer up to its await.
ReceiveAnswer(p, u) ==
    LET i == current[u].pc IN
    /\ Arrives(p, u, "answer")
    /\ pc' = IF i = No \/ current[u].peer # p \/ pc[i].signaling = "stable" THEN pc
             ELSE [pc EXCEPT ![i].setting = Append(@, Head(relay[p][u]).pc)]
    /\ UNCHANGED <<made, current, offers, room, connState, timers>>

\* setRemoteDescription ends.  In "stable" it rejects, and notify is skipped.
AnswerSet(i) ==
    /\ pc[i].setting # <<>>
    /\ IF pc[i].signaling = "stable"
       THEN /\ pc' = [pc EXCEPT ![i].setting = Tail(@)]
            /\ UNCHANGED connState
       ELSE /\ pc' = [pc EXCEPT ![i].setting = Tail(@), ![i].signaling = "stable",
                                ![i].remote = Head(pc[i].setting)]
            /\ Notify(pc[i].own, current[pc[i].own].pc, pc)
    /\ UNCHANGED <<made, current, offers, room, timers, relay>>

\* Fault: candidates are dropped while the answer is being set.
ReceiveIceEarly(p, u) ==
    LET i == current[u].pc IN
    /\ Arrives(p, u, "ice")
    /\ pc' = IF current[u].peer # p \/ pc[i].signaling # "stable" THEN pc
             ELSE [pc EXCEPT ![i].ice = @ \cup {Head(relay[p][u]).pc}]
    /\ UNCHANGED <<made, current, offers, room, connState, timers>>

\* IceHandler and applyRemoteIce (peerByUser is never passed):
\* addIceCandidate waits for a description being set and rejects when there
\* is none.
ReceiveIce(p, u) ==
    LET i == current[u].pc IN
    /\ Arrives(p, u, "ice")
    /\ pc' = IF current[u].peer # p \/ (pc[i].remote = No /\ pc[i].setting = <<>>) THEN pc
             ELSE [pc EXCEPT ![i].ice = @ \cup {Head(relay[p][u]).pc}]
    /\ UNCHANGED <<made, current, offers, room, connState, timers>>

\* The relay loses a message: the addressee is not connected, its buffer is
\* full, or a socket closes.
Lose(p, u) ==
    /\ ~Reliable
    /\ relay[p][u] # <<>>
    /\ relay' = [relay EXCEPT ![p][u] = Tail(@)]
    /\ UNCHANGED <<pc, made, current, offers, room, connState, timers>>

----------------------------------------------------------------------------
(* Events of the peer connections.                                         *)

\* onicecandidate, once per connection.
SendIce(i) ==
    /\ pc[i].step = "done" /\ ~pc[i].gathered
    /\ pc' = [pc EXCEPT ![i].gathered = TRUE]
    /\ Post(pc[i].own, pc[i].peer, "ice", i)
    /\ UNCHANGED <<made, current, offers, room, connState, timers>>

Paired(i) ==
    LET j == pc[i].remote IN
    /\ j # No /\ pc[j].remote = i
    /\ j \in pc[i].ice \/ i \in pc[j].ice

\* What the connection may do next.  Nothing in this code closes one.
MayBecome(i, s) ==
    \/ s = "connecting" /\ pc[i].conn = "new" /\ pc[i].remote # No
    \/ /\ s = "connected" /\ pc[i].conn \in {"connecting", "disconnected"}
       /\ Paired(i) /\ pc[pc[i].remote].conn \notin {"new", "failed"}
    \/ s = "disconnected" /\ pc[i].conn = "connected" /\ ~Reliable
    \/ s = "failed" /\ pc[i].conn \in {"connecting", "disconnected"} /\ ~Reliable

\* Fault: the handler reports connections but never their loss.
ReportConnectedOnly(u, seen) ==
    room' = [room EXCEPT ![u].connected = @ \/ pc'[seen].conn = "connected"]

\* setConnected, with the state of connection seen after this step.
ReportConnected(u, seen) ==
    room' = [room EXCEPT ![u].connected = pc'[seen].conn = "connected"]

\* Fault: the handler leaves the monitor running.
MonitorKept(i, seen) == UNCHANGED timers

\* stopMonitorNetworkQuality(peer), unless connection seen is connected.
StopMonitor(i, seen) ==
    timers' = IF pc'[seen].conn = "connected" THEN timers
              ELSE [timers EXCEPT ![pc[i].own][pc[i].peer] = No]

\* onconnectionstatechange: the callee's handler reports its own connection,
\* the caller's reports currentPc, whichever connection changed.
ConnectionStateChange(i, s) ==
    LET u == pc[i].own
        seen == IF pc[i].role = "caller" THEN current[u].pc ELSE i
    IN
    /\ MayBecome(i, s)
    /\ pc' = [pc EXCEPT ![i].conn = s]
    /\ Notify(u, seen, pc')
    /\ ReportConnected(u, seen)
    /\ StopMonitor(i, seen)
    /\ UNCHANGED <<made, current, offers, relay>>

----------------------------------------------------------------------------
Click(u, p) ==
    \/ StartOutgoingCall(u, p)
    \/ AcceptCallRequest(u, p)
    \/ DeclineCallRequest(u, p)

Receive(p, u) == ReceiveOffer(p, u) \/ ReceiveAnswer(p, u) \/ ReceiveIce(p, u)

Next ==
    \/ \E u, p \in Users : Click(u, p) \/ Receive(p, u) \/ Lose(p, u)
    \/ \E i \in Made :
        \/ MediaDenied(i)
        \/ MediaGranted(i)
        \/ SendOffer(i)
        \/ SendAnswer(i)
        \/ AnswerSet(i)
        \/ SendIce(i)
        \/ \E s \in States : ConnectionStateChange(i, s)

Spec == Init /\ [][Next]_vars

\* Promises settle, the relay delivers, candidates are gathered, and a
\* connection that may come up does; users owe nothing.
Settle(i) ==
    /\ i \in Made
    /\ MediaDenied(i) \/ MediaGranted(i) \/ SendOffer(i) \/ SendAnswer(i)
Fairness ==
    /\ \A u, p \in Users : WF_vars(Receive(p, u))
    /\ \A i \in Ids :
        /\ WF_vars(Settle(i))
        /\ WF_vars(i \in Made /\ AnswerSet(i))
        /\ WF_vars(i \in Made /\ SendIce(i))
        /\ WF_vars(i \in Made /\ ConnectionStateChange(i, "connecting"))
        /\ WF_vars(i \in Made /\ pc[i].conn = "connecting"
                     /\ ConnectionStateChange(i, "connected"))
FairSpec == Spec /\ Fairness

----------------------------------------------------------------------------
(* Properties.                                                             *)

\* The answer a call took came from the user it dialled, whatever other
\* calls were started, answered or abandoned meanwhile (handleRemoteAnswer's
\* check).
AnsweredByDialled ==
    \A i \in Made : pc[i].role = "caller" /\ pc[i].remote # No =>
        /\ pc[pc[i].remote].own = pc[i].peer
        /\ pc[pc[i].remote].peer = pc[i].own

\* A browser that says it is connected, in the ConnState store or in the chat
\* room, has a connection that is: no event of a superseded call leaves the
\* room or the store at "connected" with nothing behind it.
ConnectedIsReal ==
    \A u \in Users : connState[u] = "connected" \/ room[u].connected =>
        \E i \in Made : pc[i].own = u /\ pc[i].conn = "connected"

\* The user dialled again since: the handler of call i asks about the newer
\* call (currentPc) and no longer about its own connection.
Superseded(i) == pc[i].role = "caller" /\ current[pc[i].own].pc # i

\* The monitor of a peer is stopped when the connection it samples is lost,
\* though the timers are kept per peer and a newer call to the same peer may
\* have replaced the timer.  Only a superseded call may leave one behind: its
\* handler keeps the timer while the newer call is connected.
MonitorEndsWithCall ==
    \A u, p \in Users : LET i == timers[u][p] IN
        i # No /\ pc[i].conn \in {"disconnected", "failed"} => Superseded(i)

\* An offer leaves the callee's store because the user declined it (no
\* connection is touched), or as an answer to that caller is sent (if not to
\* this offer then to one it replaced); an acceptance that fails half-way leaves it.
OfferKeptUntilAnswered ==
    [][\A u, p \in Users :
        offers[u][p] # No /\ offers'[u][p] = No =>
            \/ UNCHANGED pc
            \/ \E i \in Made : /\ pc[i].own = u /\ pc[i].peer = p
                               /\ pc[i].step # "done" /\ pc'[i].step = "done"]_vars

\* The caller's side of call o was overtaken: the user dialled again, or
\* dialled the same peer more than once, or took another answer.
Overtaken(o, a) ==
    \/ current[pc[o].own].pc # o
    \/ \E j \in Made \ {o} : pc[j].role = "caller" /\ pc[j].own = pc[o].own
                              /\ pc[j].peer = pc[o].peer
    \/ pc[o].remote \notin {No, a}

\* When nothing is lost, a call whose callee accepted and has media reaches
\* "connected" on the caller's side, unless it is overtaken.
AcceptedConnects ==
    \A a \in Ids :
        (a \in Made /\ pc[a].role = "callee" /\ pc[a].step = "describe")
            ~> \E o \in Made : /\ a \in Made /\ o = pc[a].offer
                               /\ pc[o].conn = "connected" \/ Overtaken(o, a)

\* What Pairing speaks of: whose each connection is and for whom, the
\* description it took and whether it is connected.
Ends == [i \in Made |-> [own |-> pc[i].own, peer |-> pc[i].peer, role |-> pc[i].role,
                          with |-> pc[i].remote, up |-> pc[i].conn = "connected"]]

\* Whatever the awaits, the stores and the relay do to the order of the steps,
\* the calls keep the promise of Pairing: a connection takes one description,
\* that of a connection made for it by its peer, and is connected only with a
\* connection that took its own.
Pair == INSTANCE Pairing WITH ends <- Ends
ImplementsPairing == Pair!Spec

\* The calls that were opened: they have media, and the caller's offer is sent.
Opened(i) == pc[i].step = "done" \/ (pc[i].role = "callee" /\ pc[i].step = "describe")
OpenedCalls ==
    [i \in {j \in Made : Opened(j)} |-> [own |-> pc[i].own, peer |-> pc[i].peer]]
RoomCalls == [u \in Users |-> room[u].pc]

\* What the browsers do to their chat rooms and monitors is what Monitoring
\* allows: the environment that Quality is checked in.  An await that ends late
\* opens its own call, and the events of superseded calls only stop monitors
\* (startChatOffer.ts, globalActions.ts, callSession.ts).
Mon == INSTANCE Monitoring WITH
    Browsers <- Users, Peers <- Users, Ids <- Ids,
    opened <- OpenedCalls, room <- RoomCalls, timers <- timers
ImplementsMonitoring == Mon!Spec

\* The claim of cursor/network_state_design.md: an established call is
\* monitored until it ends.
EstablishedIsMonitored ==
    \A u \in Users : room[u].connected => timers[u][room[u].id] # No

\* The claim of callSession.ts:74: candidates are applied on the answering
\* side too.
CalleeAppliesIce ==
    [][\A u, p \in Users :
        Arrives(p, u, "ice") /\ (\E a \in Made : /\ pc[a].own = u /\ pc[a].peer = p
                                                /\ pc[a].role = "callee"
                                                /\ pc[a].remote = Head(relay[p][u]).pc)
            => \E a \in Made : pc[a].own = u /\ Head(relay[p][u]).pc \in pc'[a].ice]_vars
=============================================================================
