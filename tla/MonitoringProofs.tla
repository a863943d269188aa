-------------------------- MODULE MonitoringProofs --------------------------
(***************************************************************************)
(* What Monitoring promises, for any browsers and calls.  CallsProofs and  *)
(* QualityProofs show that the call layer and the environment that Quality *)
(* is checked in keep to Monitoring, and inherit these theorems.           *)
(***************************************************************************)
EXTENDS Monitoring, TLAPS

\* No call has the number that stands for none.
NoIsNone == No \notin Ids

MonInv ==
    /\ room \in [Browsers -> Ids \cup {No}]
    /\ timers \in [Browsers -> [Peers -> Ids \cup {No}]]
    /\ DOMAIN opened \subseteq Ids
    /\ \A i \in DOMAIN opened : opened[i].own \in Browsers /\ opened[i].peer \in Peers
    /\ SamplesItsPeer
    /\ SamplesTheRoom

\* A call that is not sampled any more is not sampled again.
Abandoned ==
    \A i \in DOMAIN opened :
        (\A b \in Browsers, p \in Peers : timers[b][p] # i) =>
            \A b \in Browsers, p \in Peers : timers'[b][p] # i

LEMMA OpenStep ==
    ASSUME NoIsNone, MonInv, NEW b \in Browsers, NEW p \in Peers, NEW i \in Ids, Open(b, p, i)
    PROVE  MonInv' /\ Abandoned
<1> USE DEF MonInv
<1>1. /\ DOMAIN opened' = DOMAIN opened \cup {i}
      /\ opened'[i] = [own |-> b, peer |-> p]
      /\ \A j \in DOMAIN opened : opened'[j] = opened[j]
      /\ i \notin DOMAIN opened /\ i # No
      BY DEF Open, NoIsNone
<1>2. /\ room' \in [Browsers -> Ids \cup {No}]
      /\ \A c \in Browsers : room'[c] = IF c = b THEN i ELSE room[c]
      BY DEF Open
<1>3. /\ timers' \in [Browsers -> [Peers -> Ids \cup {No}]]
      /\ \A c \in Browsers, q \in Peers :
             timers'[c][q] = IF c = b /\ q = p THEN i ELSE timers[c][q]
      BY DEF Open
<1>4. \A j \in DOMAIN opened' : opened'[j].own \in Browsers /\ opened'[j].peer \in Peers
      BY <1>1
<1>5. SamplesItsPeer'
      BY <1>1, <1>3 DEF SamplesItsPeer
<1>6. SamplesTheRoom'
      BY <1>1, <1>2, <1>3 DEF SamplesTheRoom
<1>7. Abandoned
      BY <1>1, <1>3 DEF Abandoned
<1> QED BY <1>1, <1>2, <1>3, <1>4, <1>5, <1>6, <1>7

LEMMA StopStep ==
    ASSUME NoIsNone, MonInv, NEW b \in Browsers, NEW p \in Peers, Stop(b, p)
    PROVE  MonInv' /\ Abandoned
<1> USE DEF MonInv
<1>1. /\ opened' = opened /\ room' = room
      /\ timers' \in [Browsers -> [Peers -> Ids \cup {No}]]
      /\ \A c \in Browsers, q \in Peers :
             timers'[c][q] = IF c = b /\ q = p THEN No ELSE timers[c][q]
      BY DEF Stop
<1>2. SamplesItsPeer'
      BY <1>1 DEF SamplesItsPeer
<1>3. SamplesTheRoom'
      BY <1>1 DEF SamplesTheRoom
<1>4. Abandoned
      BY <1>1 DEF Abandoned, NoIsNone
<1> QED BY <1>1, <1>2, <1>3, <1>4

LEMMA MonStep ==
    ASSUME NoIsNone, MonInv, [Next]_monitoring
    PROVE  MonInv' /\ [Abandoned]_monitoring
<1>1. ASSUME UNCHANGED monitoring PROVE MonInv' /\ [Abandoned]_monitoring
      BY <1>1 DEF monitoring, MonInv, SamplesItsPeer, SamplesTheRoom
<1> QED BY <1>1, OpenStep, StopStep DEF Next

LEMMA MonAlways ==
    ASSUME NoIsNone
    PROVE  Spec => []MonInv /\ [][Abandoned]_monitoring
<1>1. Init => MonInv
      BY DEF Init, MonInv, SamplesItsPeer, SamplesTheRoom
<1> QED BY <1>1, MonStep, PTL DEF Spec

\* What is sampled for a peer is a call of this browser with that peer.
THEOREM MonitorsFitTheirPeers ==
    ASSUME NoIsNone
    PROVE  Spec => []SamplesItsPeer
<1>1. MonInv => SamplesItsPeer
      BY DEF MonInv
<1> QED BY <1>1, MonAlways, PTL

\* The quality shown beside a call is sampled from that call.
THEOREM TheRoomIsSampled ==
    ASSUME NoIsNone
    PROVE  Spec => []SamplesTheRoom
<1>1. MonInv => SamplesTheRoom
      BY DEF MonInv
<1> QED BY <1>1, MonAlways, PTL

\* No monitor is resumed.
THEOREM NobodyIsSampledTwice ==
    ASSUME NoIsNone
    PROVE  Spec => MonitoredOnce
BY MonAlways, PTL DEF MonitoredOnce, Abandoned
=============================================================================
