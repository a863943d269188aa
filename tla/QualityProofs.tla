--------------------------- MODULE QualityProofs ---------------------------
(***************************************************************************)
(* The quality of the calls, for any number of peers, calls, pending       *)
(* samples and requests, any reports and any clock.                        *)
(***************************************************************************)
EXTENDS Quality, SequenceTheorems, TLAPS

----------------------------------------------------------------------------
(* The operators the model is built from.                                  *)

\* Whatever is measured, there is a level.
LEMMA LevelIsALevel ==
    \A rate, loss, rtt : QualityLevel(rate, loss, rtt) \in Levels
BY DEF QualityLevel, Levels

\* What is kept of a measurement: nothing at all, or sane numbers.
Sane(m) ==
    /\ m.rate = Null <=> m.loss = Null
    /\ m.rate # Null => m.rate.bytes >= 0 /\ m.rate.ms > 0
    /\ m.loss # Null => m.loss.lost \in 0..m.loss.total

\* Two reports in either order, and any gap, give sane numbers: clamping the
\* differences and the time is enough.
LEMMA MeasuredIsSane ==
    ASSUME NEW old \in Reports \cup {Null}, NEW new \in Reports, NEW gap \in Gaps
    PROVE  LET m == Measured(old, new, gap) IN
           /\ m.rate \in [bytes : Int, ms : Int] \cup {Null}
           /\ m.loss \in [lost : Int, total : Int] \cup {Null}
           /\ Sane(m)
<1>1. CASE old = Null
      BY <1>1 DEF Measured, Sane
<1>2. CASE old # Null
      <2> DEFINE lost == AtLeast(0, new.lost - old.lost)
                 received == AtLeast(0, new.received - old.received)
                 bytes == AtLeast(0, new.bytes - old.bytes)
                 ms == AtLeast(1, gap)
                 rate == [bytes |-> bytes, ms |-> ms]
                 loss == [lost |-> lost, total |-> lost + received]
      <2>1. /\ old \in [bytes : Nat, lost : Nat, received : Nat, rtt : Nat]
            /\ new \in [bytes : Nat, lost : Nat, received : Nat, rtt : Nat]
            /\ gap \in Int
            BY <1>2, QualityAssumption
      <2>2. /\ new.lost - old.lost \in Int /\ new.received - old.received \in Int
            /\ new.bytes - old.bytes \in Int
            BY <2>1
      <2>3. lost \in Nat /\ received \in Nat /\ bytes \in Nat
            BY <2>2 DEF AtLeast
      <2>4. ms \in Int /\ ms > 0
            BY <2>1 DEF AtLeast
      <2>5. rate \in [bytes : Int, ms : Int] /\ loss \in [lost : Int, total : Int]
            BY <2>3, <2>4
      <2>6. Null # rate /\ Null # loss
            BY <2>5, QualityAssumption
      <2>7. loss.lost \in 0..loss.total
            BY <2>3
      <2>8. rate.bytes >= 0 /\ rate.ms > 0
            BY <2>3, <2>4
      <2>9. Measured(old, new, gap) = [rate |-> rate, loss |-> loss]
            BY <1>2 DEF Measured, Since
      <2> QED BY <2>5, <2>6, <2>7, <2>8, <2>9 DEF Sane
<1> QED BY <1>1, <1>2

\* What a page leaves behind is as long, and nobody's.
LEMMA AbandonedIsSetting ==
    ASSUME NEW s \in Seq(Setting)
    PROVE  Abandoned(s) \in Seq(Setting)
<1>1. Len(s) \in Nat /\ \A k \in 1..Len(s) : s[k] \in Setting
      BY ElementOfSeq, LenProperties
<1>2. \A k \in 1..Len(s) : [s[k] EXCEPT !.mine = FALSE] \in Setting
      BY <1>1 DEF Setting
<1>3. Abandoned(s) \in [1..Len(s) -> Setting]
      BY <1>2 DEF Abandoned
<1> QED BY <1>1, <1>3, SeqDef

----------------------------------------------------------------------------
(* Types.                                                                  *)

\* The room's level, while there is a room.
LEMMA RoomHasLevel ==
    ASSUME TypeOK, room # No
    PROVE  room \in Made /\ peerOf[room] \in Peers /\ Level \in Levels
<1>1. room \in Made /\ peerOf[room] \in Peers
      BY DEF TypeOK, Made
<1>2. entry[peerOf[room]].metrics.level \in Levels
      BY <1>1 DEF TypeOK, Metrics
<1> QED BY <1>1, <1>2 DEF Level

\* A connection that is made is one of the bounded ones, and never No.
LEMMA MadeArePcs ==
    ASSUME TypeOK
    PROVE  Made \subseteq Pcs /\ No \notin Made /\ No \notin Pcs
BY QualityAssumption DEF TypeOK, Made, Pcs, No

\* Appending a call makes one connection more, and keeps the others' peers.
LEMMA CallMakesOne ==
    ASSUME TypeOK, NEW p \in Peers, peerOf' = Append(peerOf, p),
           Len(peerOf) + 1 \in Pcs
    PROVE  LET i == Len(peerOf) + 1 IN
           /\ peerOf' \in Seq(Peers) /\ Len(peerOf') = i /\ i <= MaxPcs
           /\ Made' = Made \cup {i} /\ i \notin Made /\ i # No
           /\ peerOf'[i] = p
           /\ \A j \in Made : peerOf'[j] = peerOf[j]
<1>1. peerOf \in Seq(Peers) /\ Len(peerOf) \in Nat
      BY DEF TypeOK
<1>2. /\ peerOf' \in Seq(Peers) /\ Len(peerOf') = Len(peerOf) + 1
      /\ peerOf'[Len(peerOf) + 1] = p
      /\ \A j \in 1..Len(peerOf) : peerOf'[j] = peerOf[j]
      BY <1>1
<1>3. Made' = Made \cup {Len(peerOf) + 1} /\ Len(peerOf) + 1 \notin Made
      BY <1>1, <1>2 DEF Made
<1>4. Len(peerOf) + 1 <= MaxPcs /\ Len(peerOf) + 1 # No
      BY <1>1, QualityAssumption DEF Pcs, No
<1> QED BY <1>1, <1>2, <1>3, <1>4 DEF Made

LEMMA TypeInit == Init => TypeOK
<1> SUFFICES ASSUME Init PROVE TypeOK
    OBVIOUS
<1>1. peerOf \in Seq(Peers) /\ Len(peerOf) <= MaxPcs
      BY QualityAssumption DEF Init
<1>2. [rate |-> Null, loss |-> Null, level |-> "poor", from |-> No] \in Metrics
      BY DEF Metrics, Levels
<1>5. entry \in [Peers -> [pc : Made \cup {No}, metrics : Metrics]]
      BY <1>2 DEF Init
<1>3. setting \in [Pcs -> Seq(Setting)]
      BY DEF Init
<1>4. faults \in 0..MaxFaults
      BY QualityAssumption DEF Init
<1> QED BY <1>1, <1>3, <1>4, <1>5 DEF Init, TypeOK, Made, Troubles

LEMMA TypeNext == TypeOK /\ [Next]_vars => TypeOK'
<1> SUFFICES ASSUME TypeOK, [Next]_vars PROVE TypeOK'
    OBVIOUS
<1> USE MadeArePcs
<1>1. ASSUME NEW p \in Peers, Call(p) PROVE TypeOK'
      <2> DEFINE i == Len(peerOf) + 1
      <2>1. /\ peerOf' \in Seq(Peers) /\ Len(peerOf') <= MaxPcs
            /\ Made' = Made \cup {i}
            BY <1>1, CallMakesOne DEF Call, SetPeerConnection, MonitorNetworkQuality
      <2>2. entry' \in [Peers -> [pc : Made' \cup {No}, metrics : Metrics]]
            <3>1. entry' = [entry EXCEPT ![p].pc = i]
                  BY <1>1 DEF Call, SetPeerConnection, MonitorNetworkQuality
            <3>2. \A q \in Peers : entry[q] \in [pc : Made' \cup {No}, metrics : Metrics]
                  BY <2>1 DEF TypeOK
            <3>3. [entry[p] EXCEPT !.pc = i] \in [pc : Made' \cup {No}, metrics : Metrics]
                  BY <2>1, <3>2
            <3>4. DOMAIN entry = Peers /\ entry = [q \in Peers |-> entry[q]]
                  BY DEF TypeOK
            <3> QED BY <3>1, <3>2, <3>3, <3>4
      <2>3. /\ room' \in Made' \cup {No}
            /\ timers' \in [Peers -> Made' \cup {No}]
            /\ running' \subseteq Made'
            BY <1>1, <2>1 DEF Call, SetPeerConnection, MonitorNetworkQuality, TypeOK
      <2>4. seen' \in (Levels \cup {Null}) \X (Made' \cup {No})
            BY <1>1, <2>1 DEF Call, SetPeerConnection, MonitorNetworkQuality, page, TypeOK
      <2> QED BY <1>1, <2>1, <2>2, <2>3, <2>4
              DEF Call, SetPeerConnection, MonitorNetworkQuality, page, TypeOK
<1>2. ASSUME NEW p \in Peers, StopMonitor(p) PROVE TypeOK'
      BY <1>2 DEF StopMonitor, calls, page, TypeOK, Made
<1>3. ASSUME NEW i \in Made, Set(i) PROVE TypeOK'
      <2>1. setting[i] \in Seq(Setting) /\ setting[i] # <<>>
            BY <1>3 DEF Set, TypeOK
      <2>2. Head(setting[i]) \in Setting /\ Tail(setting[i]) \in Seq(Setting)
            BY <2>1
      <2>3. Head(setting[i]).level \in Levels
            BY <2>2 DEF Setting
      <2> QED BY <1>3, <2>2, <2>3 DEF Set, calls, monitors, TypeOK, Made
<1>4. ASSUME NEW i \in Made, SetFails(i) PROVE TypeOK'
      <2>1. setting[i] \in Seq(Setting) /\ setting[i] # <<>>
            BY <1>4 DEF SetFails, TypeOK
      <2>2. Tail(setting[i]) \in Seq(Setting)
            BY <2>1
      <2>3. faults' \in 0..MaxFaults
            BY <1>4, QualityAssumption DEF SetFails, Fault, TypeOK
      <2>4. troubles' \subseteq Troubles
            BY <1>4 DEF SetFails, TypeOK, Troubles
      <2> QED BY <1>4, <2>2, <2>3, <2>4 DEF SetFails, calls, monitors, TypeOK, Made
<1>5. ASSUME NEW i \in Made, NEW k \in Slots, Tick(i, k) PROVE TypeOK'
      BY <1>5 DEF Tick, calls, page, TypeOK, Made
<1>6. ASSUME NEW i \in Made, NEW k \in Slots, NEW report \in Reports, NEW gap \in Gaps,
             Sampled(i, k, report, gap)
      PROVE  TypeOK'
      <2> DEFINE m == Measured(samples[i][k], report, gap)
                 new == [rate |-> m.rate, loss |-> m.loss, from |-> i,
                         level |-> QualityLevel(m.rate, m.loss, report.rtt)]
      <2>1. samples[i][k] \in Reports \cup {Null}
            BY <1>6 DEF Sampled, TypeOK
      <2>2. new \in Metrics
            <3>1. /\ m.rate \in [bytes : Int, ms : Int] \cup {Null}
                  /\ m.loss \in [lost : Int, total : Int] \cup {Null}
                  BY <2>1, MeasuredIsSane
            <3>2. QualityLevel(m.rate, m.loss, report.rtt) \in Levels
                  BY LevelIsALevel
            <3> HIDE DEF m
            <3> QED BY <3>1, <3>2 DEF Metrics
      <2>3. entry' = [entry EXCEPT ![peerOf[i]].metrics = new]
            BY <1>6 DEF Sampled, UpdateMetrics
      <2> HIDE DEF new
      <2>4. entry' \in [Peers -> [pc : Made \cup {No}, metrics : Metrics]]
            <3>1. entry \in [Peers -> [pc : Made \cup {No}, metrics : Metrics]]
                  BY DEF TypeOK
            <3> QED BY <2>2, <2>3, <3>1
      <2> QED BY <1>6, <2>4 DEF Sampled, calls, page, TypeOK, Made
<1>7. ASSUME NEW i \in Made, NEW k \in Slots, SampleFails(i, k) PROVE TypeOK'
      <2>1. faults' \in 0..MaxFaults
            BY <1>7, QualityAssumption DEF SampleFails, Fault, TypeOK
      <2> QED BY <1>7, <2>1 DEF SampleFails, calls, page, TypeOK, Made
<1>8. CASE Mount
      <2>1. faults' \in 0..MaxFaults
            BY <1>8, QualityAssumption DEF Mount, Fault, TypeOK
      <2>2. troubles' \subseteq Troubles
            BY <1>8 DEF Mount, Troubles
      <2> QED BY <1>8, <2>1, <2>2 DEF Mount, calls, monitors, TypeOK, Made
<1>9. CASE Unmount
      <2>1. \A i \in Pcs : Abandoned(setting[i]) \in Seq(Setting)
            BY AbandonedIsSetting DEF TypeOK
      <2> QED BY <1>9, <2>1 DEF Unmount, calls, monitors, TypeOK, Made
<1>10. CASE Effect
      <2>1. room # No /\ room \in Made /\ Level \in Levels
            BY <1>10, RoomHasLevel DEF Effect
      <2>2. [level |-> Level, mine |-> TRUE] \in Setting /\ setting[room] \in Seq(Setting)
            BY <2>1 DEF TypeOK, Setting
      <2>6. Append(setting[room], [level |-> Level, mine |-> TRUE]) \in Seq(Setting)
            BY <2>2
      <2>3. setting' \in [Pcs -> Seq(Setting)]
            BY <1>10, <2>1, <2>6 DEF Effect, TypeOK
      <2>4. troubles' \subseteq Troubles
            BY <1>10 DEF Effect, NewTroubles, TypeOK, Troubles
      <2>5. applied' \in Levels \cup {Null}
            BY <1>10, <2>1 DEF Effect, TypeOK
      <2> QED BY <1>10, <2>1, <2>3, <2>4, <2>5 DEF Effect, calls, monitors, TypeOK, Made
<1>11. CASE UNCHANGED vars
      BY <1>11 DEF vars, calls, monitors, page, TypeOK, Made
<1> QED BY <1>1, <1>2, <1>3, <1>4, <1>5, <1>6, <1>7, <1>8, <1>9, <1>10, <1>11 DEF Next

\* Every reachable state of calls, monitors, entries and page has its type.
THEOREM QualityTypeCorrect == Spec => []TypeOK
BY TypeInit, TypeNext, PTL DEF Spec

----------------------------------------------------------------------------
(* Monitors and entries.                                                   *)

\* A registered monitor samples a connection to its peer, which is why
\* replacing or stopping one cannot touch the interval of another.
TimersKeepTheirPeer == \A p \in Peers : timers[p] # No => peerOf[timers[p]] = p

\* The monitors that run are the registered ones.
MonitorInv == TypeOK /\ TimersKeepTheirPeer /\ MonitorsCanBeStopped

LEMMA OthersLeaveMonitors ==
    [Next]_vars => \/ \E p \in Peers : Call(p) \/ StopMonitor(p)
                   \/ UNCHANGED <<calls, timers, running>>
<1>1. ASSUME NEW i \in Made, Set(i) \/ SetFails(i) PROVE UNCHANGED <<calls, timers, running>>
      BY <1>1 DEF Set, SetFails, monitors
<1>2. ASSUME NEW i \in Made, NEW k \in Slots, Tick(i, k) \/ SampleFails(i, k)
      PROVE  UNCHANGED <<calls, timers, running>>
      BY <1>2 DEF Tick, SampleFails
<1>3. ASSUME NEW i \in Made, NEW k \in Slots, NEW report \in Reports, NEW gap \in Gaps,
             Sampled(i, k, report, gap)
      PROVE  UNCHANGED <<calls, timers, running>>
      BY <1>3 DEF Sampled
<1>4. CASE Mount \/ Unmount \/ Effect
      BY <1>4 DEF Mount, Unmount, Effect, monitors
<1>5. CASE UNCHANGED vars
      BY <1>5 DEF vars, monitors
<1> QED BY <1>1, <1>2, <1>3, <1>4, <1>5 DEF Next

LEMMA MonitorNext == MonitorInv /\ [Next]_vars => MonitorInv'
<1> SUFFICES ASSUME MonitorInv, [Next]_vars PROVE MonitorInv'
    OBVIOUS
<1>0. TypeOK /\ TypeOK'
      BY TypeNext DEF MonitorInv
<1>T. /\ timers \in [Peers -> Made \cup {No}]
      /\ running = {timers[q] : q \in Peers} \ {No}
      /\ \A q \in Peers : timers[q] # No => peerOf[timers[q]] = q
      BY <1>0 DEF TypeOK, MonitorInv, MonitorsCanBeStopped, TimersKeepTheirPeer
<1>1. ASSUME NEW p \in Peers, Call(p)
      PROVE  TimersKeepTheirPeer' /\ MonitorsCanBeStopped'
      <2> DEFINE i == Len(peerOf) + 1
      <2>1. /\ i \notin Made /\ i # No /\ peerOf'[i] = p
            /\ \A j \in Made : peerOf'[j] = peerOf[j]
            BY <1>0, <1>1, CallMakesOne DEF Call, SetPeerConnection, MonitorNetworkQuality
      <2>2. /\ timers' = [timers EXCEPT ![p] = i]
            /\ running' = (running \ {timers[p]}) \cup {i}
            BY <1>1 DEF Call, SetPeerConnection, MonitorNetworkQuality
      <2> HIDE DEF i
      <2>3. timers'[p] = i /\ \A q \in Peers \ {p} : timers'[q] = timers[q]
            BY <1>T, <2>2
      <2>4. \A q \in Peers : timers'[q] # No => peerOf'[timers'[q]] = q
            BY <1>T, <2>1, <2>3
      <2>5. \A q \in Peers \ {p} : timers[q] # No => timers[q] # timers[p]
            BY <1>T
      <2>6. ASSUME NEW j \in running' PROVE j \in {timers'[q] : q \in Peers} \ {No}
            <3>1. CASE j = i
                  BY <2>1, <2>3, <3>1
            <3>2. CASE j \in running /\ j # timers[p]
                  <4>1. PICK q \in Peers : j = timers[q] /\ j # No
                        BY <1>T, <3>2
                  <4> QED BY <2>3, <3>2, <4>1
            <3> QED BY <2>2, <2>6, <3>1, <3>2
      <2>7. ASSUME NEW q \in Peers, timers'[q] # No PROVE timers'[q] \in running'
            <3>1. CASE q = p
                  BY <2>2, <2>3, <3>1
            <3>2. CASE q # p
                  BY <1>T, <2>2, <2>3, <2>5, <2>7, <3>2
            <3> QED BY <3>1, <3>2
      <2>8. running' = {timers'[q] : q \in Peers} \ {No}
            BY <2>6, <2>7
      <2> QED BY <2>4, <2>8 DEF TimersKeepTheirPeer, MonitorsCanBeStopped
<1>2. ASSUME NEW p \in Peers, StopMonitor(p)
      PROVE  TimersKeepTheirPeer' /\ MonitorsCanBeStopped'
      <2>1. /\ timers' = [timers EXCEPT ![p] = No]
            /\ running' = running \ {timers[p]}
            /\ peerOf' = peerOf
            BY <1>2 DEF StopMonitor, calls
      <2>2. timers'[p] = No /\ \A q \in Peers \ {p} : timers'[q] = timers[q]
            BY <1>T, <2>1
      <2>3. \A q \in Peers \ {p} : timers[q] # No => timers[q] # timers[p]
            BY <1>T
      <2>4. running' = {timers'[q] : q \in Peers} \ {No}
            BY <1>T, <2>1, <2>2, <2>3
      <2> QED BY <1>T, <2>1, <2>2, <2>4 DEF TimersKeepTheirPeer, MonitorsCanBeStopped
<1>3. CASE UNCHANGED <<peerOf, timers, running>>
      BY <1>0, <1>3 DEF MonitorInv, TimersKeepTheirPeer, MonitorsCanBeStopped
<1>4. \/ \E p \in Peers : Call(p) \/ StopMonitor(p)
      \/ UNCHANGED <<peerOf, timers, running>>
      BY OthersLeaveMonitors DEF calls
<1> QED BY <1>0, <1>1, <1>2, <1>3, <1>4 DEF MonitorInv

LEMMA MonitorInit == Init => MonitorInv
<1> SUFFICES ASSUME Init PROVE MonitorInv
    OBVIOUS
<1>1. \A p \in Peers : timers[p] = No
      BY DEF Init
<1> QED BY <1>1, TypeInit DEF Init, MonitorInv, TimersKeepTheirPeer, MonitorsCanBeStopped

\* However calls to a peer overlap, no interval runs that stopMonitor could not
\* end: each is the registered one of its peer.
THEOREM NoMonitorIsLost == Spec => []MonitorsCanBeStopped
<1>1. MonitorInv => MonitorsCanBeStopped
      BY DEF MonitorInv
<1> QED BY <1>1, MonitorInit, MonitorNext, PTL DEF Spec

----------------------------------------------------------------------------
(* What the entries hold.                                                  *)

\* i, if it is one, is a connection to q.
Keeps(i, q) == i # No => i \in Made /\ peerOf[i] = q

LEMMA KeepsItsPeer ==
    EntriesKeepTheirPeer <=>
        /\ \A q \in Peers : Keeps(entry[q].pc, q) /\ Keeps(entry[q].metrics.from, q)
        /\ room # No => entry[peerOf[room]].pc = room
BY DEF EntriesKeepTheirPeer, Keeps

EntryInv == TypeOK /\ EntriesKeepTheirPeer

LEMMA EntryNext == EntryInv /\ [Next]_vars => EntryInv'
<1> SUFFICES ASSUME EntryInv, [Next]_vars PROVE EntryInv'
    OBVIOUS
<1>0. TypeOK /\ TypeOK' /\ EntriesKeepTheirPeer
      BY TypeNext DEF EntryInv
<1>E. /\ entry \in [Peers -> [pc : Made \cup {No}, metrics : Metrics]]
      /\ \A q \in Peers : Keeps(entry[q].pc, q) /\ Keeps(entry[q].metrics.from, q)
      /\ room # No => entry[peerOf[room]].pc = room
      BY <1>0, KeepsItsPeer DEF TypeOK
<1>1. ASSUME NEW p \in Peers, Call(p) PROVE EntriesKeepTheirPeer'
      <2> DEFINE i == Len(peerOf) + 1
      <2>1. /\ i # No /\ i \in Made' /\ peerOf'[i] = p
            /\ \A j \in Made : j \in Made' /\ peerOf'[j] = peerOf[j]
            BY <1>0, <1>1, CallMakesOne DEF Call, SetPeerConnection, MonitorNetworkQuality
      <2>2. room' = i /\ entry' = [entry EXCEPT ![p].pc = i]
            BY <1>1 DEF Call, SetPeerConnection, MonitorNetworkQuality
      <2> HIDE DEF i
      <2>3. \A q \in Peers : /\ entry'[q].pc = IF q = p THEN i ELSE entry[q].pc
                             /\ entry'[q].metrics = entry[q].metrics
            BY <1>E, <2>2
      <2>4. \A j, q : Keeps(j, q) => (j # No => j \in Made' /\ peerOf'[j] = q)
            BY <2>1 DEF Keeps
      <2>5. \A q \in Peers : \A j \in {entry'[q].pc, entry'[q].metrics.from} \ {No} :
                j \in Made' /\ peerOf'[j] = q
            BY <1>E, <2>1, <2>3, <2>4
      <2>6. peerOf'[room'] = p /\ entry'[p].pc = room'
            BY <2>1, <2>2, <2>3
      <2> QED BY <2>5, <2>6 DEF EntriesKeepTheirPeer
<1>2. ASSUME NEW i \in Made, NEW k \in Slots, NEW report \in Reports, NEW gap \in Gaps,
             Sampled(i, k, report, gap)
      PROVE  EntriesKeepTheirPeer'
      <2> DEFINE of == Measured(samples[i][k], report, gap)
                 m == [rate |-> of.rate, loss |-> of.loss, from |-> i,
                       level |-> QualityLevel(of.rate, of.loss, report.rtt)]
      <2>1. entry' = [entry EXCEPT ![peerOf[i]].metrics = m] /\ m.from = i
            BY <1>2 DEF Sampled, UpdateMetrics
      <2> HIDE DEF m
      <2>2. peerOf' = peerOf /\ room' = room /\ Made' = Made
            BY <1>2 DEF Sampled, calls, Made
      <2>3. \A q \in Peers : /\ entry'[q].pc = entry[q].pc
                             /\ entry'[q].metrics.from =
                                  IF q = peerOf[i] THEN i ELSE entry[q].metrics.from
            BY <1>E, <2>1
      <2>4. i # No /\ peerOf[i] \in Peers
            BY <1>0, MadeArePcs DEF TypeOK, Made
      <2>5. \A q \in Peers : \A j \in {entry'[q].pc, entry'[q].metrics.from} \ {No} :
                j \in Made' /\ peerOf'[j] = q
            BY <1>E, <2>2, <2>3, <2>4 DEF Keeps
      <2>6. room # No => peerOf[room] \in Peers
            BY <1>0, RoomHasLevel
      <2> QED BY <1>E, <2>2, <2>3, <2>5, <2>6 DEF EntriesKeepTheirPeer
<1>3. CASE UNCHANGED <<peerOf, room, entry>>
      BY <1>0, <1>3 DEF EntryInv, EntriesKeepTheirPeer, Made
<1>4. \/ \E p \in Peers : Call(p)
      \/ \E i \in Made, k \in Slots, report \in Reports, gap \in Gaps : Sampled(i, k, report, gap)
      \/ UNCHANGED <<peerOf, room, entry>>
      BY DEF Next, vars, calls, StopMonitor, Set, SetFails, Tick, SampleFails,
             Mount, Unmount, Effect
<1> QED BY <1>0, <1>1, <1>2, <1>3, <1>4 DEF EntryInv

LEMMA EntryInit == Init => EntryInv
<1> SUFFICES ASSUME Init PROVE EntryInv
    OBVIOUS
<1>1. room = No /\ \A p \in Peers : entry[p].pc = No /\ entry[p].metrics.from = No
      BY DEF Init
<1> QED BY <1>1, TypeInit, KeepsItsPeer DEF EntryInv, Keeps

\* Samples that answer after their call was superseded reach the entry of no
\* other peer, and leave the room's connection in its entry.
THEOREM LateSamplesKeepTheirPeer == Spec => []EntriesKeepTheirPeer
<1>1. EntryInv => EntriesKeepTheirPeer
      BY DEF EntryInv
<1> QED BY <1>1, EntryInit, EntryNext, PTL DEF Spec

----------------------------------------------------------------------------
(* The numbers.                                                            *)

LEMMA SaneMetrics == MetricsAreSane <=> \A p \in Peers : Sane(entry[p].metrics)
BY DEF MetricsAreSane, Sane

MetricsInv == TypeOK /\ MetricsAreSane

LEMMA MetricsInit == Init => MetricsInv
<1> SUFFICES ASSUME Init PROVE MetricsInv
    OBVIOUS
<1>1. \A p \in Peers : entry[p].metrics.rate = Null /\ entry[p].metrics.loss = Null
      BY DEF Init
<1> QED BY <1>1, TypeInit, SaneMetrics DEF MetricsInv, Sane

LEMMA MetricsNext == MetricsInv /\ [Next]_vars => MetricsInv'
<1> SUFFICES ASSUME MetricsInv, [Next]_vars PROVE MetricsInv'
    OBVIOUS
<1>0. TypeOK /\ TypeOK' /\ \A p \in Peers : Sane(entry[p].metrics)
      BY TypeNext, SaneMetrics DEF MetricsInv
<1>1. ASSUME NEW p \in Peers, Call(p) PROVE MetricsInv'
      <2>1. \A q \in Peers : entry'[q].metrics = entry[q].metrics
            BY <1>0, <1>1 DEF Call, SetPeerConnection, MonitorNetworkQuality, TypeOK
      <2> QED BY <1>0, <2>1 DEF MetricsInv, MetricsAreSane, Sane
<1>2. ASSUME NEW i \in Made, NEW k \in Slots, NEW report \in Reports, NEW gap \in Gaps,
             Sampled(i, k, report, gap)
      PROVE  MetricsInv'
      <2> DEFINE of == Measured(samples[i][k], report, gap)
                 m == [rate |-> of.rate, loss |-> of.loss, from |-> i,
                       level |-> QualityLevel(of.rate, of.loss, report.rtt)]
      <2>1. samples[i][k] \in Reports \cup {Null}
            BY <1>0, <1>2, MadeArePcs DEF Sampled, TypeOK
      <2>2. Sane(of)
            BY <2>1, MeasuredIsSane
      <2>3. Sane(m)
            BY <2>2 DEF Sane
      <2>4. entry' = [entry EXCEPT ![peerOf[i]].metrics = m]
            BY <1>2 DEF Sampled, UpdateMetrics
      <2> HIDE DEF m
      <2>5. \A q \in Peers : entry'[q].metrics = IF q = peerOf[i] THEN m ELSE entry[q].metrics
            BY <1>0, <2>4 DEF TypeOK
      <2> QED BY <1>0, <2>3, <2>5 DEF MetricsInv, MetricsAreSane, Sane
<1>3. CASE UNCHANGED entry
      BY <1>0, <1>3 DEF MetricsInv, MetricsAreSane, Sane
<1>4. \/ \E p \in Peers : Call(p)
      \/ \E i \in Made, k \in Slots, report \in Reports, gap \in Gaps : Sampled(i, k, report, gap)
      \/ UNCHANGED entry
      BY DEF Next, vars, StopMonitor, Set, SetFails, Tick, SampleFails,
             Mount, Unmount, Effect
<1> QED BY <1>1, <1>2, <1>3, <1>4

\* Whatever getStats reports, in whatever order, and whatever the clock does,
\* the rates shown are not negative nor divided by zero, and the losses are
\* parts of the packets.
THEOREM TheNumbersAreSane == Spec => []MetricsAreSane
<1>1. MetricsInv => MetricsAreSane
      BY DEF MetricsInv
<1> QED BY <1>1, MetricsInit, MetricsNext, PTL DEF Spec

----------------------------------------------------------------------------
(* What the page remembers.                                                *)

\* One connection was shown, and nothing of an earlier page was under way.
OneConnection == mounted /\ troubles \cap {"earlier", "another"} = {}

\* Then what is under way is its own, and for that connection.
RequestsAreMine ==
    OneConnection => \A i \in Pcs : \A k \in 1..Len(setting[i]) :
                        i = seen[2] /\ setting[i][k].mine

\* Without any trouble at most one request is under way, for the level seen
\* last, and without it that level is what the sender is set to.
LastRequestIsSeen ==
    mounted /\ troubles = {} /\ seen[2] # No =>
        \/ setting[seen[2]] = <<>> /\ enc[seen[2]] = seen[1]
        \/ setting[seen[2]] = <<[level |-> seen[1], mine |-> TRUE]>>

PageInv == TypeOK /\ RequestsAreMine /\ AppliedIsSet /\ LastRequestIsSeen

LEMMA PageInit == Init => PageInv
BY TypeInit DEF Init, PageInv, RequestsAreMine, AppliedIsSet, LastRequestIsSeen, OneConnection

\* The head of what is under way, when it is not nothing.
LEMMA HeadAndTail ==
    ASSUME NEW s \in Seq(Setting), s # <<>>
    PROVE  /\ Len(s) \in Nat /\ 1 \in 1..Len(s) /\ Head(s) = s[1]
           /\ Tail(s) \in Seq(Setting) /\ Len(Tail(s)) = Len(s) - 1
           /\ \A k \in 1..Len(Tail(s)) : k + 1 \in 1..Len(s) /\ Tail(s)[k] = s[k + 1]
BY HeadTailProperties

LEMMA PageNext == PageInv /\ [Next]_vars => PageInv'
<1> SUFFICES ASSUME PageInv, [Next]_vars PROVE PageInv'
    OBVIOUS
<1>0. TypeOK /\ TypeOK' /\ RequestsAreMine /\ AppliedIsSet /\ LastRequestIsSeen
      BY TypeNext DEF PageInv
<1>1. CASE Effect
      <2> DEFINE own == [level |-> Level, mine |-> TRUE]
                 skip == applied = Level \/ enc[room] = Level
      <2>1. /\ mounted /\ mounted' /\ room # No
            /\ seen' = <<Level, room>>
            /\ troubles' = troubles \cup NewTroubles
            /\ applied' = IF enc[room] = Level THEN Level ELSE applied
            /\ setting' = IF skip THEN setting
                          ELSE [setting EXCEPT ![room] = Append(@, own)]
            /\ enc' = enc
            BY <1>1 DEF Effect
      <2>2. Level \in Levels /\ room \in Pcs /\ Null \notin Levels
            BY <1>0, <2>1, RoomHasLevel, MadeArePcs, QualityAssumption
      <2>3. setting \in [Pcs -> Seq(Setting)]
            BY <1>0 DEF TypeOK
      <2> HIDE DEF own
      <2>4. OneConnection' => OneConnection /\ seen[2] \in {No, room}
            BY <2>1 DEF OneConnection, NewTroubles
      <2>5. RequestsAreMine'
            <3> SUFFICES ASSUME OneConnection' PROVE RequestsAreMine'
                BY DEF RequestsAreMine
            <3>1. \A i \in Pcs : \A k \in 1..Len(setting[i]) : i = room /\ setting[i][k].mine
                  BY <1>0, <2>4, MadeArePcs DEF RequestsAreMine
            <3>2. CASE skip
                  BY <2>1, <3>1, <3>2 DEF RequestsAreMine
            <3>3. CASE ~skip
                  <4>1. own.mine  BY DEF own
                  <4>2. \A k \in 1..Len(Append(setting[room], own)) :
                            Append(setting[room], own)[k].mine
                        BY <2>2, <2>3, <3>1, <4>1
                  <4>3. \A i \in Pcs : setting'[i] = IF i = room THEN Append(setting[room], own)
                                                     ELSE setting[i]
                        BY <2>1, <2>3, <3>3
                  <4> QED BY <2>1, <3>1, <4>2, <4>3 DEF RequestsAreMine
            <3> QED BY <3>2, <3>3
      <2>6. AppliedIsSet'
            <3> SUFFICES ASSUME OneConnection', applied' # Null
                         PROVE  room # No /\ enc[room] = applied'
                BY <2>1 DEF AppliedIsSet, OneConnection
            <3> QED BY <1>0, <2>1, <2>4 DEF AppliedIsSet, OneConnection
      <2>7. LastRequestIsSeen'
            <3> SUFFICES ASSUME troubles' = {}
                         PROVE  \/ setting'[room] = <<>> /\ enc[room] = Level
                                \/ setting'[room] = <<own>>
                BY <2>1 DEF LastRequestIsSeen, own
            <3>1. setting[room] = <<>> /\ OneConnection /\ OneConnection' /\ seen[2] \in {No, room}
                  BY <2>1, <2>4 DEF NewTroubles, OneConnection
            <3>2. CASE skip
                  <4>1. applied = Level => enc[room] = Level
                        BY <1>0, <2>2, <3>1 DEF AppliedIsSet, OneConnection
                  <4> QED BY <2>1, <3>1, <3>2, <4>1
            <3>3. CASE ~skip
                  <4>1. setting'[room] = Append(<<>>, own)
                        BY <2>1, <2>2, <2>3, <3>1, <3>3
                  <4> QED BY <4>1
            <3> QED BY <3>2, <3>3
      <2> QED BY <1>0, <2>5, <2>6, <2>7 DEF PageInv
<1>2. ASSUME NEW i \in Made, Set(i) PROVE PageInv'
      <2>1. /\ setting[i] # <<>> /\ setting[i] \in Seq(Setting) /\ i \in Pcs
            /\ setting' = [setting EXCEPT ![i] = Tail(@)]
            /\ enc' = [enc EXCEPT ![i] = Head(setting[i]).level]
            /\ applied' = IF Head(setting[i]).mine THEN Head(setting[i]).level ELSE applied
            /\ UNCHANGED <<mounted, seen, troubles>>
            BY <1>0, <1>2, MadeArePcs DEF Set, TypeOK
      <2>2. /\ \A j \in Pcs : setting'[j] = IF j = i THEN Tail(setting[i]) ELSE setting[j]
            /\ enc'[i] = Head(setting[i]).level
            BY <1>0, <2>1 DEF TypeOK
      <2>3. Head(setting[i]) = setting[i][1] /\ 1 \in 1..Len(setting[i])
            BY <2>1, HeadAndTail
      <2>4. RequestsAreMine'
            <3>1. \A k \in 1..Len(Tail(setting[i])) :
                      \E l \in 1..Len(setting[i]) : Tail(setting[i])[k] = setting[i][l]
                  BY <2>1, HeadAndTail
            <3> QED BY <1>0, <2>1, <2>2, <3>1 DEF RequestsAreMine, OneConnection
      <2>5. OneConnection => i = seen[2] /\ Head(setting[i]).mine
            BY <1>0, <2>1, <2>3 DEF RequestsAreMine
      <2>6. AppliedIsSet'
            <3>1. i # No
                  BY <2>1, <1>0, MadeArePcs
            <3> QED BY <2>1, <2>2, <2>5, <3>1 DEF AppliedIsSet, OneConnection
      <2>7. LastRequestIsSeen'
            <3> SUFFICES ASSUME mounted, troubles = {}, seen[2] # No
                         PROVE  setting'[seen[2]] = <<>> /\ enc'[seen[2]] = seen[1]
                BY <2>1 DEF LastRequestIsSeen
            <3>1. i = seen[2]
                  BY <2>5 DEF OneConnection
            <3>2. setting[i] = <<[level |-> seen[1], mine |-> TRUE]>>
                  BY <1>0, <2>1, <3>1 DEF LastRequestIsSeen
            <3>3. Tail(setting[i]) = <<>> /\ Head(setting[i]).level = seen[1]
                  BY <3>2
            <3> QED BY <2>1, <2>2, <3>1, <3>3
      <2> QED BY <1>0, <2>4, <2>6, <2>7 DEF PageInv
<1>3. ASSUME NEW i \in Made, SetFails(i) PROVE PageInv'
      <2>1. /\ setting[i] # <<>> /\ setting[i] \in Seq(Setting) /\ i \in Pcs
            /\ setting' = [setting EXCEPT ![i] = Tail(@)]
            /\ troubles' = IF Head(setting[i]).mine THEN troubles \cup {"refused"} ELSE troubles
            /\ UNCHANGED <<mounted, seen, applied, enc>>
            BY <1>0, <1>3, MadeArePcs DEF SetFails, TypeOK
      <2>2. \A j \in Pcs : setting'[j] = IF j = i THEN Tail(setting[i]) ELSE setting[j]
            BY <1>0, <2>1 DEF TypeOK
      <2>3. OneConnection' <=> OneConnection
            BY <2>1 DEF OneConnection
      <2>4. RequestsAreMine'
            <3>1. \A k \in 1..Len(Tail(setting[i])) :
                      \E l \in 1..Len(setting[i]) : Tail(setting[i])[k] = setting[i][l]
                  BY <2>1, HeadAndTail
            <3> QED BY <1>0, <2>1, <2>2, <2>3, <3>1 DEF RequestsAreMine
      <2>5. AppliedIsSet'
            BY <1>0, <2>1, <2>3 DEF AppliedIsSet, OneConnection
      <2>6. LastRequestIsSeen'
            <3>1. Head(setting[i]) = setting[i][1] /\ 1 \in 1..Len(setting[i])
                  BY <2>1, HeadAndTail
            <3>2. OneConnection => Head(setting[i]).mine
                  BY <1>0, <2>1, <3>1 DEF RequestsAreMine
            <3>3. ~(mounted' /\ troubles' = {})
                  BY <2>1, <3>2 DEF OneConnection
            <3> QED BY <3>3 DEF LastRequestIsSeen
      <2> QED BY <1>0, <2>4, <2>5, <2>6 DEF PageInv
<1>4. CASE Mount
      <2>1. /\ seen'[2] = No /\ applied' = Null /\ setting' = setting
            /\ troubles' = IF \A j \in Pcs : setting[j] = <<>> THEN {} ELSE {"earlier"}
            BY <1>4 DEF Mount
      <2>2. OneConnection' => \A j \in Pcs : setting[j] = <<>>
            BY <2>1 DEF OneConnection
      <2>3. RequestsAreMine'
            BY <2>1, <2>2 DEF RequestsAreMine
      <2> QED BY <1>0, <2>1, <2>3 DEF PageInv, AppliedIsSet, LastRequestIsSeen
<1>5. CASE Unmount
      BY <1>0, <1>5 DEF Unmount, PageInv, RequestsAreMine, AppliedIsSet, LastRequestIsSeen,
                        OneConnection
<1>6. CASE UNCHANGED page
      BY <1>0, <1>6 DEF page, PageInv, RequestsAreMine, AppliedIsSet, LastRequestIsSeen,
                        OneConnection
<1>7. \/ Effect \/ Mount \/ Unmount \/ UNCHANGED page
      \/ \E i \in Made : Set(i) \/ SetFails(i)
      BY DEF Next, vars, Call, StopMonitor, Tick, Sampled, SampleFails
<1> QED BY <1>1, <1>2, <1>3, <1>4, <1>5, <1>6, <1>7

\* Pending, overlapping and refused requests do not make the page take a level
\* for applied that its sender is not set to, while it shows one connection.
THEOREM TheAppliedLevelIsSet == Spec => []AppliedIsSet
<1>1. PageInv => AppliedIsSet
      BY DEF PageInv
<1> QED BY <1>1, PageInit, PageNext, PTL DEF Spec

\* Without such trouble a settled page has set the sender to the level of the
\* room's peer.
THEOREM ASettledPageHasTheLevel == Spec => []SettledIsLevel
<1>1. PageInv => SettledIsLevel
      <2> SUFFICES ASSUME PageInv, mounted, troubles = {}, room # No,
                          seen = <<Level, room>>, setting[room] = <<>>
                   PROVE  enc[room] = Level
          BY DEF SettledIsLevel
      <2>1. seen[1] = Level /\ seen[2] = room
            OBVIOUS
      <2>2. <<[level |-> seen[1], mine |-> TRUE]>> # <<>>
            OBVIOUS
      <2> QED BY <2>1, <2>2 DEF PageInv, LastRequestIsSeen
<1> QED BY <1>1, PageInit, PageNext, PTL DEF Spec

----------------------------------------------------------------------------
(* What the calls of the browser do to the chat room and the monitors.     *)

OpenedCalls == [i \in Made |-> [own |-> "this", peer |-> peerOf[i]]]
RoomCalls == [b \in {"this"} |-> room]
Monitors == [b \in {"this"} |-> timers]

MonView == <<OpenedCalls, RoomCalls, Monitors>>

\* A call has the next number, which no call had.
LEMMA CallIsOpen ==
    ASSUME TypeOK, NEW p \in Peers, Call(p)
    PROVE  [Mon!Next]_MonView
<1>1. PICK i \in Pcs : i = Len(peerOf) + 1
      BY DEF Call
<1>2. /\ peerOf' = Append(peerOf, p)
      /\ room' = i /\ timers' = [timers EXCEPT ![p] = i]
      BY <1>1 DEF Call, MonitorNetworkQuality
<1>3. /\ Made' = Made \cup {i} /\ i \notin Made
      /\ peerOf'[i] = p /\ \A j \in Made : peerOf'[j] = peerOf[j]
      BY <1>1, <1>2, CallMakesOne
<1>4. RoomCalls' = [RoomCalls EXCEPT !["this"] = i]
      BY <1>2 DEF RoomCalls
<1>5. Monitors' = [Monitors EXCEPT !["this"][p] = i]
      BY <1>2 DEF Monitors
<1>6. i \notin DOMAIN OpenedCalls
      BY <1>3 DEF OpenedCalls
<1>7. OpenedCalls' = [j \in DOMAIN OpenedCalls \cup {i} |->
                        IF j = i THEN [own |-> "this", peer |-> p] ELSE OpenedCalls[j]]
      BY <1>3 DEF OpenedCalls
<1>8. Mon!Open("this", p, i)
      BY <1>4, <1>5, <1>6, <1>7
      DEF Mon!Open, OpenedCalls, RoomCalls, Monitors
<1> QED BY <1>8 DEF Mon!Next

LEMMA MonitoringNext == TypeOK /\ [Next]_vars => [Mon!Next]_MonView
<1> SUFFICES ASSUME TypeOK, [Next]_vars PROVE [Mon!Next]_MonView
    OBVIOUS
<1>1. ASSUME NEW p \in Peers, Call(p) PROVE [Mon!Next]_MonView
      BY <1>1, CallIsOpen
<1>2. ASSUME NEW p \in Peers, StopMonitor(p) PROVE [Mon!Next]_MonView
      <2>1. Monitors' = [Monitors EXCEPT !["this"][p] = No]
            BY <1>2 DEF StopMonitor, Monitors
      <2>2. OpenedCalls' = OpenedCalls /\ RoomCalls' = RoomCalls
            BY <1>2 DEF StopMonitor, calls, OpenedCalls, RoomCalls, Made
      <2>3. Mon!Stop("this", p)
            BY <2>1, <2>2 DEF Mon!Stop, Mon!No, No, OpenedCalls, RoomCalls, Monitors
      <2> QED BY <2>3 DEF Mon!Next
<1>3. CASE UNCHANGED <<calls, timers>>
      BY <1>3 DEF calls, MonView, OpenedCalls, RoomCalls, Monitors, Made
<1>4. \/ \E p \in Peers : Call(p) \/ StopMonitor(p)
      \/ UNCHANGED <<calls, timers>>
      BY OthersLeaveMonitors
<1> QED BY <1>1, <1>2, <1>3, <1>4

LEMMA MonitoringInit == Init => Mon!Init
<1> SUFFICES ASSUME Init PROVE Mon!Init
    OBVIOUS
<1>1. Made = {}
      BY EmptySeq DEF Init, Made
<1>2. OpenedCalls = << >>
      BY <1>1 DEF OpenedCalls
<1>3. RoomCalls = [b \in {"this"} |-> No] /\ Monitors = [b \in {"this"} |-> [p \in Peers |-> No]]
      BY DEF Init, RoomCalls, Monitors
<1> QED BY <1>2, <1>3 DEF Mon!Init, Mon!No, No, OpenedCalls, RoomCalls, Monitors

\* The monitors of a browser are checked with calls that do what Monitoring
\* allows: Calls does no more to them, by CallsImplementMonitoring.
THEOREM QualityImplementsMonitoring == Spec => ImplementsMonitoring
<1>1. TypeOK /\ [Next]_vars => [Mon!Next]_<<OpenedCalls, RoomCalls, Monitors>>
      BY MonitoringNext DEF MonView
<1> QED BY <1>1, MonitoringInit, QualityTypeCorrect, PTL
        DEF Spec, ImplementsMonitoring, Mon!Spec, Mon!monitoring,
            OpenedCalls, RoomCalls, Monitors

MP == INSTANCE MonitoringProofs WITH
    Browsers <- {"this"}, Peers <- Peers, Ids <- Pcs,
    opened <- [i \in Made |-> [own |-> "this", peer |-> peerOf[i]]],
    room <- [b \in {"this"} |-> room],
    timers <- [b \in {"this"} |-> timers]

LEMMA MonitoringIs == ImplementsMonitoring => MP!Spec
BY DEF ImplementsMonitoring, Mon!Spec, MP!Spec, Mon!Init, MP!Init, Mon!Next, MP!Next,
       Mon!Open, MP!Open, Mon!Stop, MP!Stop, Mon!No, MP!No, Mon!monitoring, MP!monitoring

LEMMA NoCallIsNone == MP!NoIsNone
BY QualityAssumption DEF MP!NoIsNone, MP!No, Pcs

\* So the monitor of the room's peer samples the connection that the page
\* shows, or none does.
THEOREM TheShownCallIsSampled ==
    Spec => [](room # No => timers[peerOf[room]] \in {room, No})
<1>1. MP!Spec => []MP!SamplesTheRoom
      BY NoCallIsNone, MP!TheRoomIsSampled
<1>2. TypeOK /\ MP!SamplesTheRoom =>
          (room # No => timers[peerOf[room]] \in {room, No})
      <2> SUFFICES ASSUME TypeOK, MP!SamplesTheRoom, room # No
                   PROVE  timers[peerOf[room]] \in {room, No}
          OBVIOUS
      <2>1. room \in Made
            BY DEF TypeOK
      <2> QED BY <2>1 DEF MP!SamplesTheRoom, MP!No, No
<1> QED BY <1>1, <1>2, QualityTypeCorrect, QualityImplementsMonitoring, MonitoringIs, PTL
=============================================================================
