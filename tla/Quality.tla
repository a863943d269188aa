------------------------------ MODULE Quality ------------------------------
(***************************************************************************)
(* The quality of the calls of one browser: the monitor that samples a     *)
(* connection every two seconds, the levels it derives, the network store  *)
(* with an entry per peer, and the hook of the chat room page that sets    *)
(* the encoding of the video sender to the level.                          *)
(*                                                                         *)
(* Both getStats and setParameters are awaited: a sample may end after its *)
(* monitor was stopped or replaced, samples of one monitor may overlap and *)
(* end in any order, and the page may be left or show another connection   *)
(* before an encoding is set.  When calls begin and their connections      *)
(* change is the business of Calls; here both may happen at any time.      *)
(***************************************************************************)
EXTENDS Integers, Sequences

CONSTANTS
    Peers,      \* the users who are called or call
    Reports,    \* what getStats may report: bytes, lost, received and rtt
    Gaps,       \* milliseconds that may pass between two results by the clock
    Null,       \* null and undefined
    Idle,       \* no sample is pending
    MaxPcs,     \* bound: calls of a behaviour
    MaxPending, \* bound: samples of one monitor that are pending at once
    MaxSetting, \* bound: setParameters of one connection under way
    MaxFaults   \* bound: promises that reject, visits of the page

Pcs == 1..MaxPcs
No == 0         \* no connection
Slots == 1..MaxPending
Levels == {"high", "medium", "low", "poor"}

ASSUME QualityAssumption ==
    /\ Reports \subseteq [bytes : Nat, lost : Nat, received : Nat, rtt : Nat]
    /\ Gaps \subseteq Int
    /\ Null \notin Reports /\ Null \notin Levels
    /\ Null \notin [bytes : Int, ms : Int] /\ Null \notin [lost : Int, total : Int]
    /\ Idle \notin Reports /\ Idle # Null
    /\ MaxPcs \in Nat /\ MaxPending \in Nat /\ MaxSetting \in Nat
    /\ MaxFaults \in Nat

VARIABLES
    peerOf,     \* the peers of the connections, in the order of the calls
    room,       \* chatRoomStore's peerConnection; its id is the peer
    entry,      \* networkStore.byPeerId
    timers,     \* timers: the connection of the registered monitor
    running,    \* connections whose monitor's interval runs
    prev,       \* per monitor: its last snapshot
    samples,    \* per monitor: the snapshots its pending samples started with
    mounted,    \* the chat room page is shown
    seen,       \* the level and connection its effect last ran for
    troubles,   \* history: what happened to its requests, see Troubles
    applied,    \* lastAppliedLevelRef.current
    setting,    \* per connection: setParameters under way, in order
    enc,        \* per connection: the level its sender is encoded for
    faults      \* how many of the bounded events have happened

calls == <<peerOf, room>>
monitors == <<timers, running, prev, samples>>
page == <<mounted, seen, troubles, applied, setting, enc>>
vars == <<calls, entry, monitors, page, faults>>

Made == 1..Len(peerOf)

\* from is history: the connection that was sampled.
Metrics == [rate : [bytes : Int, ms : Int] \cup {Null},
            loss : [lost : Int, total : Int] \cup {Null},
            level : Levels,
            from : Pcs \cup {No}]

\* An earlier visit's request was under way when the page was opened, it
\* showed another connection, one of its requests was under way when the level
\* changed, one was refused.
Troubles == {"earlier", "another", "overlap", "refused"}

\* mine: the page that called setParameters is still shown.
Setting == [level : Levels, mine : BOOLEAN]

TypeOK ==
    /\ peerOf \in Seq(Peers) /\ Len(peerOf) <= MaxPcs
    /\ room \in Made \cup {No}
    /\ entry \in [Peers -> [pc : Made \cup {No}, metrics : Metrics]]
    /\ timers \in [Peers -> Made \cup {No}]
    /\ running \subseteq Made
    /\ prev \in [Pcs -> Reports \cup {Null}]
    /\ samples \in [Pcs -> [Slots -> Reports \cup {Null, Idle}]]
    /\ mounted \in BOOLEAN
    /\ seen \in (Levels \cup {Null}) \X (Made \cup {No})
    /\ troubles \subseteq Troubles
    /\ applied \in Levels \cup {Null}
    /\ setting \in [Pcs -> Seq(Setting)]
    /\ enc \in [Pcs -> Levels \cup {Null}]
    /\ faults \in 0..MaxFaults

Init ==
    /\ peerOf = <<>>
    /\ room = No
    /\ entry = [p \in Peers |-> [pc |-> No, metrics |->
                 [rate |-> Null, loss |-> Null, level |-> "poor", from |-> No]]]
    /\ timers = [p \in Peers |-> No]
    /\ running = {}
    /\ prev = [i \in Pcs |-> Null]
    /\ samples = [i \in Pcs |-> [k \in Slots |-> Idle]]
    /\ mounted \in BOOLEAN
    /\ seen = <<Null, No>>
    /\ troubles = {}
    /\ applied = Null
    /\ setting = [i \in Pcs |-> <<>>]
    /\ enc = [i \in Pcs |-> Null]
    /\ faults = 0

\* One more of the bounded events.
Fault == faults < MaxFaults /\ faults' = faults + 1

----------------------------------------------------------------------------
(* collectRtpStats and deriveQualityLevel.  A rate is bytes per            *)
(* milliseconds and a loss is packets of a total, so that both are exact.  *)

AtLeast(n, x) == IF x < n THEN n ELSE x

\* More than so many kilobits per second, less than so many percent.
Above(rate, kbps) == rate # Null /\ rate.bytes * 8 > kbps * rate.ms
Below(loss, percent) ==
    loss = Null \/ loss.total = 0 \/ loss.lost * 100 < percent * loss.total

\* Fault: no measurement gives no level.
QualityLevelOrNull(rate, loss, rtt) ==
    IF rate = Null THEN Null
    ELSE IF Above(rate, 1500) /\ Below(loss, 2) /\ rtt < 100 THEN "high" ELSE "poor"

\* deriveQualityLevel: what is missing counts as 0.
QualityLevel(rate, loss, rtt) ==
    IF Above(rate, 1500) /\ Below(loss, 2) /\ rtt < 100 THEN "high"
    ELSE IF Above(rate, 800) /\ Below(loss, 5) /\ rtt < 200 THEN "medium"
    ELSE IF Above(rate, 300) /\ Below(loss, 10) /\ rtt < 400 THEN "low"
    ELSE "poor"

\* Fault: the counters are taken to grow, and the clock to run.
SinceUnclamped(old, new, gap) ==
    [rate |-> [bytes |-> new.bytes - old.bytes, ms |-> gap],
     loss |-> [lost |-> new.lost - old.lost,
               total |-> new.lost - old.lost + new.received - old.received]]

\* What was sent and lost since the previous snapshot.  A report may be older
\* than the snapshot, and the clock may stand still or go back.
Since(old, new, gap) ==
    LET lost == AtLeast(0, new.lost - old.lost) IN
    [rate |-> [bytes |-> AtLeast(0, new.bytes - old.bytes), ms |-> AtLeast(1, gap)],
     loss |-> [lost |-> lost, total |-> lost + AtLeast(0, new.received - old.received)]]

Measured(old, new, gap) ==
    IF old = Null THEN [rate |-> Null, loss |-> Null] ELSE Since(old, new, gap)

----------------------------------------------------------------------------
(* The calls.                                                              *)

\* ensure and setPeerConnection: the rest of an entry, of an earlier call to
\* the peer, stays.
SetPeerConnection(p, i) == entry' = [entry EXCEPT ![p].pc = i]

\* Fault: the monitor of an earlier call to the peer is not stopped.
CallKeepsMonitor(p) ==
    LET i == Len(peerOf) + 1 IN
    /\ i \in Pcs
    /\ peerOf' = Append(peerOf, p)
    /\ room' = i
    /\ SetPeerConnection(p, i)
    /\ timers' = [timers EXCEPT ![p] = i]
    /\ running' = running \cup {i}
    /\ UNCHANGED <<prev, samples, page, faults>>

\* The monitor the peer has is stopped, and an interval started for this one.
MonitorNetworkQuality(p, i) ==
    /\ timers' = [timers EXCEPT ![p] = i]
    /\ running' = (running \ {timers[p]}) \cup {i}

\* startOutgoingCall and acceptCall once they have a connection and media.
Call(p) ==
    LET i == Len(peerOf) + 1 IN
    /\ i \in Pcs
    /\ peerOf' = Append(peerOf, p)
    /\ room' = i
    /\ SetPeerConnection(p, i)
    /\ MonitorNetworkQuality(p, i)
    /\ UNCHANGED <<prev, samples, page, faults>>

\* A connection to p reports a state that is not "connected":
\* stopMonitorNetworkQuality, whichever connection is sampled.
StopMonitor(p) ==
    /\ timers[p] # No
    /\ timers' = [timers EXCEPT ![p] = No]
    /\ running' = running \ {timers[p]}
    /\ UNCHANGED <<calls, entry, prev, samples, page, faults>>

----------------------------------------------------------------------------
(* The monitor.                                                            *)

\* The interval fires: getStats, and the snapshot to compare with.
Tick(i, k) ==
    /\ i \in running /\ samples[i][k] = Idle
    /\ samples' = [samples EXCEPT ![i][k] = prev[i]]
    /\ UNCHANGED <<calls, entry, timers, running, prev, page, faults>>

\* Fault: updateMetrics starts from the default state.
UpdateMetricsAnew(p, m) ==
    entry' = [entry EXCEPT ![p] = [pc |-> No, metrics |-> m]]

\* updateMetrics: the rest of the entry stays.
UpdateMetrics(p, m) == entry' = [entry EXCEPT ![p].metrics = m]

\* getStats has the report, whether or not the monitor still runs.
Sampled(i, k, report, gap) ==
    /\ samples[i][k] # Idle
    /\ LET m == Measured(samples[i][k], report, gap) IN
       UpdateMetrics(peerOf[i],
           [rate |-> m.rate, loss |-> m.loss, from |-> i,
            level |-> QualityLevel(m.rate, m.loss, report.rtt)])
    /\ prev' = [prev EXCEPT ![i] = report]
    /\ samples' = [samples EXCEPT ![i][k] = Idle]
    /\ UNCHANGED <<calls, timers, running, page, faults>>

\* getStats rejects: the sample is skipped.
SampleFails(i, k) ==
    /\ Fault
    /\ samples[i][k] # Idle
    /\ samples' = [samples EXCEPT ![i][k] = Idle]
    /\ UNCHANGED <<calls, entry, timers, running, prev, page>>

----------------------------------------------------------------------------
(* The chat room page and useDynamicVideoQuality.                          *)

\* What the page renders: the level of the room's peer.
Level == IF room = No THEN Null ELSE entry[peerOf[room]].metrics.level

\* Fault: the refs outlive a visit.
MountKeepsApplied ==
    /\ Fault
    /\ ~mounted
    /\ mounted' = TRUE
    /\ seen' = <<Null, No>>
    /\ troubles' = IF \A i \in Pcs : setting[i] = <<>> THEN {} ELSE {"earlier"}
    /\ UNCHANGED <<calls, entry, monitors, applied, setting, enc>>

\* The page is opened: its refs are new.
Mount ==
    /\ Fault
    /\ ~mounted
    /\ mounted' = TRUE
    /\ seen' = <<Null, No>>
    /\ troubles' = IF \A i \in Pcs : setting[i] = <<>> THEN {} ELSE {"earlier"}
    /\ applied' = Null
    /\ UNCHANGED <<calls, entry, monitors, setting, enc>>

\* Whose refs are gone.
Abandoned(s) == [k \in 1..Len(s) |-> [s[k] EXCEPT !.mine = FALSE]]

\* The page is left; what it asked of the senders is still under way.
Unmount ==
    /\ mounted
    /\ mounted' = FALSE
    /\ setting' = [i \in Pcs |-> Abandoned(setting[i])]
    /\ UNCHANGED <<calls, entry, monitors, seen, troubles, applied, enc, faults>>

\* What is troublesome about running the effect now.
NewTroubles ==
    (IF seen[2] \in {No, room} THEN {} ELSE {"another"})
    \cup (IF setting[room] = <<>> THEN {} ELSE {"overlap"})

\* Fault: the level is remembered when it is asked for.
EffectRemembersEarly ==
    /\ mounted /\ room # No /\ seen # <<Level, room>>
    /\ Len(setting[room]) < MaxSetting
    /\ seen' = <<Level, room>>
    /\ troubles' = troubles \cup NewTroubles
    /\ applied' = Level
    /\ setting' = IF applied = Level \/ enc[room] = Level THEN setting
                  ELSE [setting EXCEPT ![room] = Append(@, [level |-> Level, mine |-> TRUE])]
    /\ UNCHANGED <<calls, entry, monitors, mounted, enc, faults>>

\* The effect, which runs when the level or the connection is another one: a
\* level that is the one applied last, to whichever connection, is skipped.
Effect ==
    /\ mounted /\ room # No /\ seen # <<Level, room>>
    /\ Len(setting[room]) < MaxSetting
    /\ seen' = <<Level, room>>
    /\ troubles' = troubles \cup NewTroubles
    /\ applied' = IF enc[room] = Level THEN Level ELSE applied
    /\ setting' = IF applied = Level \/ enc[room] = Level THEN setting
                  ELSE [setting EXCEPT ![room] = Append(@, [level |-> Level, mine |-> TRUE])]
    /\ UNCHANGED <<calls, entry, monitors, mounted, enc, faults>>

\* setParameters is done, the earliest first.
Set(i) ==
    /\ setting[i] # <<>>
    /\ setting' = [setting EXCEPT ![i] = Tail(@)]
    /\ enc' = [enc EXCEPT ![i] = Head(setting[i]).level]
    /\ applied' = IF Head(setting[i]).mine THEN Head(setting[i]).level ELSE applied
    /\ UNCHANGED <<calls, entry, monitors, mounted, seen, troubles, faults>>

\* It rejects: the level is not remembered, nor tried again.
SetFails(i) ==
    /\ Fault
    /\ setting[i] # <<>>
    /\ setting' = [setting EXCEPT ![i] = Tail(@)]
    /\ troubles' = IF Head(setting[i]).mine THEN troubles \cup {"refused"} ELSE troubles
    /\ UNCHANGED <<calls, entry, monitors, mounted, seen, applied, enc>>

----------------------------------------------------------------------------
Next ==
    \/ \E p \in Peers : Call(p) \/ StopMonitor(p)
    \/ \E i \in Made : Set(i) \/ SetFails(i)
    \/ \E i \in Made, k \in Slots :
        \/ Tick(i, k)
        \/ \E report \in Reports, gap \in Gaps : Sampled(i, k, report, gap)
        \/ SampleFails(i, k)
    \/ Mount \/ Unmount \/ Effect

Spec == Init /\ [][Next]_vars

----------------------------------------------------------------------------
(* Properties.                                                             *)

\* Every interval that runs is the registered one of its peer, so that
\* stopMonitorNetworkQuality can end it, however calls to a peer overlap.
MonitorsCanBeStopped == running = {timers[p] : p \in Peers} \ {No}

\* An entry holds what belongs to its peer, and of the room's peer the room's
\* connection: samples of an earlier call, which come late, do not touch the
\* connection, and do not reach another peer's entry.
EntriesKeepTheirPeer ==
    /\ \A p \in Peers :
        \A i \in {entry[p].pc, entry[p].metrics.from} \ {No} : i \in Made /\ peerOf[i] = p
    /\ room # No => entry[peerOf[room]].pc = room

\* The numbers shown can be numbers: whatever the order in which overlapping
\* reports come, and whatever the clock does, a rate is not negative nor
\* infinite, and a loss is a part of the packets.
MetricsAreSane ==
    \A p \in Peers :
        LET m == entry[p].metrics IN
        /\ m.rate = Null <=> m.loss = Null
        /\ m.rate # Null => m.rate.bytes >= 0 /\ m.rate.ms > 0
        /\ m.loss # Null => m.loss.lost \in 0..m.loss.total

\* As long as a page shows one connection, and nothing an earlier visit asked
\* for was under way when it was opened, the level it remembers is what the
\* sender is set to: requests that are pending, overlap or fail do not make it
\* take a level for applied that is not.
AppliedIsSet ==
    mounted /\ applied # Null /\ troubles \cap {"earlier", "another"} = {} =>
        seen[2] # No /\ enc[seen[2]] = applied

\* When the effect has run for what is rendered and nothing is under way, the
\* sender is set to the level of its peer, unless a request of the page met
\* trouble.
SettledIsLevel ==
    (/\ mounted /\ troubles = {}
     /\ room # No /\ seen = <<Level, room>> /\ setting[room] = <<>>)
        => enc[room] = Level

\* To the monitors and the chat room the calls of this browser do what
\* Monitoring allows, as Calls does.
Mon == INSTANCE Monitoring WITH
    Browsers <- {"this"}, Peers <- Peers, Ids <- Pcs,
    opened <- [i \in Made |-> [own |-> "this", peer |-> peerOf[i]]],
    room <- [b \in {"this"} |-> room],
    timers <- [b \in {"this"} |-> timers]
ImplementsMonitoring == Mon!Spec
=============================================================================
