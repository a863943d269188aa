----------------------------- MODULE Monitoring -----------------------------
(***************************************************************************)
(* What calls do to the quality monitors of the browsers: a call that is   *)
(* opened gets the chat room and the monitor of its peer, and the monitor  *)
(* of a peer may be stopped at any time, whichever call it samples.        *)
(* Calls.tla implements this with awaits between the start of a call and   *)
(* its opening, and with events of calls that were superseded; Quality.tla *)
(* takes it as the environment of the monitors.                            *)
(***************************************************************************)
CONSTANTS Browsers, Peers, Ids

VARIABLES
    opened, \* whose the calls opened so far are, and to whom
    room,   \* per browser: the call the chat room shows
    timers  \* per browser and peer: the call that is monitored

monitoring == <<opened, room, timers>>

No == 0     \* no call

Init ==
    /\ opened = << >>
    /\ room = [b \in Browsers |-> No]
    /\ timers = [b \in Browsers |-> [p \in Peers |-> No]]

\* Call i of browser b to p is opened, once.
Open(b, p, i) ==
    /\ i \notin DOMAIN opened
    /\ opened' = [j \in DOMAIN opened \cup {i} |->
                    IF j = i THEN [own |-> b, peer |-> p] ELSE opened[j]]
    /\ room' = [room EXCEPT ![b] = i]
    /\ timers' = [timers EXCEPT ![b][p] = i]

Stop(b, p) ==
    /\ timers' = [timers EXCEPT ![b][p] = No]
    /\ UNCHANGED <<opened, room>>

Next == \E b \in Browsers, p \in Peers : Stop(b, p) \/ \E i \in Ids : Open(b, p, i)

Spec == Init /\ [][Next]_monitoring

----------------------------------------------------------------------------
(* Properties.                                                             *)

\* What is sampled for a peer is a call of this browser with that peer.
SamplesItsPeer ==
    \A b \in Browsers, p \in Peers : timers[b][p] # No =>
        /\ timers[b][p] \in DOMAIN opened
        /\ opened[timers[b][p]] = [own |-> b, peer |-> p]

\* For the peer that the chat room shows, the call that it shows is sampled,
\* or none: never an earlier or a later call to the same peer.
SamplesTheRoom ==
    \A b \in Browsers : room[b] # No =>
        /\ room[b] \in DOMAIN opened /\ opened[room[b]].own = b
        /\ timers[b][opened[room[b]].peer] \in {room[b], No}

\* A call whose monitor was stopped or replaced is never sampled again.
MonitoredOnce ==
    [][\A i \in DOMAIN opened :
        (\A b \in Browsers, p \in Peers : timers[b][p] # i) =>
            \A b \in Browsers, p \in Peers : timers'[b][p] # i]_monitoring
=============================================================================
