---------------------------- MODULE CallsProofs ----------------------------
(***************************************************************************)
(* Proofs about Calls, for any users, any number of peer connections and a *)
(* relay that may lose messages.                                           *)
(***************************************************************************)
EXTENDS Calls, SequenceTheorems, TLAPS

----------------------------------------------------------------------------
(* The inductive invariants.                                               *)

\* A message on its way from p to u is about a connection that p made for u.
RelayFromOwner ==
    \A p, u \in Users : \A k \in 1..Len(relay[p][u]) :
        LET i == relay[p][u][k].pc IN
        i \in Made /\ pc[i].own = p /\ pc[i].peer = u

\* currentPc and currentPeerUserId belong together: a call the user dialled.
CurrentDialled ==
    \A u \in Users :
        IF current[u].pc = No THEN current[u].peer = Nobody
        ELSE /\ current[u].pc \in Made
             /\ pc[current[u].pc].own = u
             /\ pc[current[u].pc].peer = current[u].peer
             /\ pc[current[u].pc].role = "caller"
             /\ pc[current[u].pc].step = "done"

\* Connection a was made by the user call i dialled, for the user who dialled.
Answers(a, i) ==
    /\ a \in Made
    /\ pc[a].own = pc[i].peer
    /\ pc[a].peer = pc[i].own

\* Only callers set answers, and only those of the user they dialled.
SettingAnswers ==
    \A i \in Made : \A k \in 1..Len(pc[i].setting) :
        pc[i].role = "caller" /\ pc[i].step = "done" /\ Answers(pc[i].setting[k], i)

RemoteAnswers ==
    \A i \in Made : pc[i].role = "caller" /\ pc[i].remote # No => Answers(pc[i].remote, i)

AnswerInv ==
    /\ TypeOK
    /\ RelayFromOwner
    /\ CurrentDialled
    /\ SettingAnswers
    /\ RemoteAnswers

\* A connection with a remote description is described, and only such a
\* connection leaves "new".
DescribedFirst ==
    \A i \in Made : /\ pc[i].remote # No => pc[i].step = "done"
                    /\ pc[i].conn # "new" => pc[i].remote # No

\* Once a user's call is described, the user has a current call.
CallersHaveCurrent ==
    \A i \in Made : pc[i].role = "caller" /\ pc[i].step = "done"
                        => current[pc[i].own].pc # No

\* The timer for a peer samples a connection made for that peer.
TimersOwn ==
    \A u, p \in Users : timers[u][p] # No =>
        /\ timers[u][p] \in Made
        /\ pc[timers[u][p]].own = u
        /\ pc[timers[u][p]].peer = p

StoresInv ==
    /\ DescribedFirst
    /\ CallersHaveCurrent
    /\ TimersOwn
    /\ ConnectedIsReal
    /\ MonitorEndsWithCall

----------------------------------------------------------------------------
(* What the steps do to the connections and to the relay.                  *)

\* A step on connection i changes no other connection, and neither whose it
\* is nor which offer it answers.
OnlyThis(i) ==
    /\ pc' \in [1..made -> PeerConnection]
    /\ Made' = Made
    /\ \A j \in Made : j # i => pc'[j] = pc[j]
    /\ \A j \in Made : /\ pc'[j].own = pc[j].own
                       /\ pc'[j].peer = pc[j].peer
                       /\ pc'[j].role = pc[j].role
                       /\ pc'[j].offer = pc[j].offer

\* The functions on 1..n are sequences.
LEMMA FunctionIsSeq ==
    ASSUME NEW n \in Nat, NEW S, NEW f \in [1..n -> S]
    PROVE  f \in Seq(S)
BY SMT

LEMMA MadeIs == TypeOK => Made = 1..made /\ made \in Nat
BY CallsAssumption DEF TypeOK, Made, CallsAssumption

\* A new connection is added behind the others.
LEMMA Adds ==
    ASSUME TypeOK, NEW u \in Users, NEW p \in Users, NEW role \in {"caller", "callee"},
           NEW o \in Ids \cup {No}, NewPc(u, p, role, o)
    PROVE  /\ made' \in 0..MaxPcs
           /\ pc' \in [1..made' -> PeerConnection]
           /\ made' = made + 1
           /\ Made' = Made \cup {made'} /\ made' \notin Made
           /\ \A j \in Made : pc'[j] = pc[j]
           /\ pc'[made'].own = u /\ pc'[made'].peer = p
           /\ pc'[made'].step = "media" /\ pc'[made'].remote = No
           /\ pc'[made'].setting = <<>> /\ pc'[made'].conn = "new"
           /\ pc'[made'].role = role /\ pc'[made'].offer = o
<1> DEFINE new == [own |-> u, peer |-> p, role |-> role, step |-> "media",
                   offer |-> o, signaling |-> "stable", remote |-> No,
                   setting |-> <<>>, ice |-> {}, gathered |-> FALSE, conn |-> "new"]
<1>1. new \in PeerConnection
      BY EmptySeq DEF PeerConnection, States
<1>2. pc \in Seq(PeerConnection) /\ Len(pc) = made /\ Made = 1..made /\ made \in Nat
      <2>1. made \in Nat /\ pc \in [1..made -> PeerConnection] /\ Made = 1..made
            BY MadeIs DEF TypeOK
      <2>2. pc \in Seq(PeerConnection)
            BY <2>1, FunctionIsSeq
      <2> QED BY <2>1, <2>2, LenProperties
<1>3. pc' = Append(pc, new) /\ made' = made + 1 /\ made < MaxPcs
      BY DEF NewPc
<1>4. /\ pc' \in Seq(PeerConnection) /\ Len(pc') = made + 1
      /\ \A j \in 1..made : pc'[j] = pc[j]
      /\ pc'[made + 1] = new
      BY <1>1, <1>2, <1>3, AppendProperties
<1>5. pc' \in [1..made' -> PeerConnection] /\ Made' = 1..made'
      BY <1>3, <1>4, LenProperties DEF Made
<1>6. made' \in 0..MaxPcs /\ Made' = Made \cup {made'} /\ made' \notin Made
      BY <1>2, <1>3, <1>5, CallsAssumption DEF CallsAssumption
<1>7. pc'[made'] = new /\ \A j \in Made : pc'[j] = pc[j]
      BY <1>2, <1>3, <1>4
<1>8. /\ new.own = u /\ new.peer = p /\ new.step = "media" /\ new.remote = No
      /\ new.setting = <<>> /\ new.conn = "new" /\ new.role = role /\ new.offer = o
      OBVIOUS
<1> HIDE DEF new
<1> QED BY <1>3, <1>5, <1>6, <1>7, <1>8

\* Posting adds one message to one queue.
LEMMA Posts ==
    ASSUME TypeOK, NEW p \in Users, NEW u \in Users, NEW i \in Ids,
           NEW type \in {"offer", "answer", "ice"}, Post(p, u, type, i)
    PROVE  /\ relay' \in [Users -> [Users -> Seq(Message)]]
           /\ \A q, v \in Users : \A k \in 1..Len(relay'[q][v]) :
                  \/ k \in 1..Len(relay[q][v]) /\ relay'[q][v][k] = relay[q][v][k]
                  \/ /\ q = p /\ v = u
                     /\ relay'[q][v][k].pc = i /\ relay'[q][v][k].type = type
<1> DEFINE m == [type |-> type, pc |-> i]
<1>1. m \in Message /\ relay[p][u] \in Seq(Message)
      BY DEF Message, TypeOK
<1>2. relay' = [relay EXCEPT ![p][u] = Append(@, m)]
      BY DEF Post
<1>3. /\ Append(relay[p][u], m) \in Seq(Message)
      /\ Len(Append(relay[p][u], m)) = Len(relay[p][u]) + 1
      /\ \A k \in 1..Len(relay[p][u]) : Append(relay[p][u], m)[k] = relay[p][u][k]
      /\ Append(relay[p][u], m)[Len(relay[p][u]) + 1] = m
      /\ Len(relay[p][u]) \in Nat
      BY <1>1, AppendProperties, LenProperties
<1>4. relay' \in [Users -> [Users -> Seq(Message)]]
      BY <1>2, <1>3 DEF TypeOK
<1>5. ASSUME NEW q \in Users, NEW v \in Users, NEW k \in 1..Len(relay'[q][v])
      PROVE  \/ k \in 1..Len(relay[q][v]) /\ relay'[q][v][k] = relay[q][v][k]
             \/ /\ q = p /\ v = u
                /\ relay'[q][v][k].pc = i /\ relay'[q][v][k].type = type
      <2>1. CASE q = p /\ v = u
            <3>1. relay'[q][v] = Append(relay[p][u], m)
                  BY <1>2, <2>1 DEF TypeOK
            <3>2. k \in 1..Len(relay[p][u]) \/ k = Len(relay[p][u]) + 1
                  BY <1>3, <1>5, <3>1
            <3> QED BY <1>3, <2>1, <3>1, <3>2
      <2>2. CASE ~(q = p /\ v = u)
            <3>1. relay'[q][v] = relay[q][v]
                  BY <1>2, <2>2 DEF TypeOK
            <3> QED BY <3>1, <1>5
      <2> QED BY <2>1, <2>2
<1> QED BY <1>4, <1>5

\* What Posts says of an offer, for the provers to find.
LEMMA PostsOffer ==
    ASSUME TypeOK, NEW p \in Users, NEW u \in Users, NEW i \in Ids, Post(p, u, "offer", i)
    PROVE  \A q, v \in Users : \A k \in 1..Len(relay'[q][v]) :
               \/ k \in 1..Len(relay[q][v]) /\ relay'[q][v][k] = relay[q][v][k]
               \/ /\ q = p /\ v = u
                  /\ relay'[q][v][k].pc = i /\ relay'[q][v][k].type = "offer"
<1> DEFINE type == "offer"
<1>1. type \in {"offer", "answer", "ice"} /\ Post(p, u, type, i)
      OBVIOUS
<1> HIDE DEF type
<1>2. \A q, v \in Users : \A k \in 1..Len(relay'[q][v]) :
          \/ k \in 1..Len(relay[q][v]) /\ relay'[q][v][k] = relay[q][v][k]
          \/ /\ q = p /\ v = u
             /\ relay'[q][v][k].pc = i /\ relay'[q][v][k].type = type
      BY <1>1, Posts, SMTT(20)
<1> QED BY <1>2 DEF type

\* Delivering or losing takes the first message of one queue.
LEMMA Takes ==
    ASSUME TypeOK, NEW p \in Users, NEW u \in Users, relay[p][u] # <<>>,
           relay' = [relay EXCEPT ![p][u] = Tail(@)]
    PROVE  /\ relay' \in [Users -> [Users -> Seq(Message)]]
           /\ Head(relay[p][u]) = relay[p][u][1] /\ 1 \in 1..Len(relay[p][u])
           /\ Head(relay[p][u]).pc \in Ids
           /\ \A q, v \in Users : \A k \in 1..Len(relay'[q][v]) :
                  \E l \in 1..Len(relay[q][v]) : relay'[q][v][k] = relay[q][v][l]
<1>1. relay[p][u] \in Seq(Message)
      BY DEF TypeOK
<1>2. /\ Tail(relay[p][u]) \in Seq(Message)
      /\ Len(Tail(relay[p][u])) = Len(relay[p][u]) - 1
      /\ Head(relay[p][u]) = relay[p][u][1] /\ Head(relay[p][u]) \in Message
      /\ \A k \in 1..Len(Tail(relay[p][u])) : Tail(relay[p][u])[k] = relay[p][u][k + 1]
      /\ Len(relay[p][u]) \in Nat \ {0}
      BY <1>1, HeadTailProperties, EmptySeq, LenProperties
<1>3. relay' \in [Users -> [Users -> Seq(Message)]]
      BY <1>2 DEF TypeOK
<1>4. ASSUME NEW q \in Users, NEW v \in Users, NEW k \in 1..Len(relay'[q][v])
      PROVE  \E l \in 1..Len(relay[q][v]) : relay'[q][v][k] = relay[q][v][l]
      <2>1. CASE q = p /\ v = u
            <3>1. relay'[q][v] = Tail(relay[p][u])
                  BY <2>1 DEF TypeOK
            <3>2. k \in 1..Len(Tail(relay[p][u]))
                  BY <1>4, <3>1
            <3>3. k + 1 \in 1..Len(relay[p][u])
                  BY <1>2, <3>2
            <3>4. relay'[q][v][k] = relay[p][u][k + 1]
                  BY <1>2, <3>1, <3>2
            <3> QED BY <2>1, <3>3, <3>4
      <2>2. CASE ~(q = p /\ v = u)
            <3>1. relay'[q][v] = relay[q][v]
                  BY <2>2 DEF TypeOK
            <3> QED BY <3>1, <1>4
      <2> QED BY <2>1, <2>2
<1>5. 1 \in 1..Len(relay[p][u]) /\ Head(relay[p][u]).pc \in Ids
      BY <1>2 DEF Message
<1> QED BY <1>2, <1>3, <1>4, <1>5

\* A step on connection i, given as what the connection becomes.
LEMMA Updates ==
    ASSUME TypeOK, NEW i \in Made, NEW r \in PeerConnection,
           r.own = pc[i].own, r.peer = pc[i].peer, r.role = pc[i].role, r.offer = pc[i].offer,
           pc' = [pc EXCEPT ![i] = r]
    PROVE  OnlyThis(i) /\ pc'[i] = r
<1>1. pc \in [1..made -> PeerConnection] /\ Made = 1..made
      BY MadeIs DEF TypeOK
<1>2. pc' \in [1..made -> PeerConnection] /\ Made' = 1..made /\ pc'[i] = r
      BY <1>1 DEF Made
<1>3. \A j \in Made : j # i => pc'[j] = pc[j]
      BY <1>1
<1> QED BY <1>1, <1>2, <1>3 DEF OnlyThis

----------------------------------------------------------------------------
(* Types.                                                                  *)

\* What the steps write to the stores is well typed.
LEMMA StoreTypes ==
    ASSUME TypeOK, NEW i \in Made
    PROVE  /\ pc[i] \in PeerConnection
           /\ pc[i].own \in Users /\ pc[i].peer \in Users
           /\ i \in Ids
           /\ \A s \in States \cup {"none"} :
                  [connState EXCEPT ![pc[i].own] = s] \in [Users -> States \cup {"none"}]
           /\ \A j \in Ids \cup {No} :
                  [timers EXCEPT ![pc[i].own][pc[i].peer] = j]
                      \in [Users -> [Users -> Ids \cup {No}]]
           /\ \A b \in BOOLEAN :
                  [room EXCEPT ![pc[i].own].connected = b]
                      \in [Users -> [id : Users \cup {Nobody}, pc : Ids \cup {No},
                                     connected : BOOLEAN]]
           /\ [room EXCEPT ![pc[i].own].id = pc[i].peer, ![pc[i].own].pc = i]
                  \in [Users -> [id : Users \cup {Nobody}, pc : Ids \cup {No},
                                 connected : BOOLEAN]]
           /\ \A p \in Users : [offers EXCEPT ![pc[i].own][p] = No]
                  \in [Users -> [Users -> Ids \cup {No}]]
<1>1. pc[i] \in PeerConnection /\ i \in 1..made /\ made \in 0..MaxPcs
      BY MadeIs DEF TypeOK
<1>2. pc[i].own \in Users /\ pc[i].peer \in Users
      BY <1>1 DEF PeerConnection
<1>3. i \in Ids
      BY <1>1, CallsAssumption DEF CallsAssumption, Ids
<1>4. \A s \in States \cup {"none"} :
          [connState EXCEPT ![pc[i].own] = s] \in [Users -> States \cup {"none"}]
      BY <1>2 DEF TypeOK
<1>5. \A j \in Ids \cup {No} :
          [timers EXCEPT ![pc[i].own][pc[i].peer] = j] \in [Users -> [Users -> Ids \cup {No}]]
      BY <1>2 DEF TypeOK
<1>6. \A b \in BOOLEAN :
          [room EXCEPT ![pc[i].own].connected = b]
              \in [Users -> [id : Users \cup {Nobody}, pc : Ids \cup {No},
                             connected : BOOLEAN]]
      BY <1>2 DEF TypeOK
<1>7. [room EXCEPT ![pc[i].own].id = pc[i].peer, ![pc[i].own].pc = i]
          \in [Users -> [id : Users \cup {Nobody}, pc : Ids \cup {No}, connected : BOOLEAN]]
      BY <1>2, <1>3 DEF TypeOK
<1>8. \A p \in Users : [offers EXCEPT ![pc[i].own][p] = No]
          \in [Users -> [Users -> Ids \cup {No}]]
      BY <1>2 DEF TypeOK
<1> QED BY <1>1, <1>2, <1>3, <1>4, <1>5, <1>6, <1>7, <1>8

\* What each step makes of its connection.
LEMMA MediaDeniedIs ==
    ASSUME TypeOK, NEW i \in Made, MediaDenied(i)
    PROVE  OnlyThis(i) /\ pc'[i] = [pc[i] EXCEPT !.step = "failed"]
<1> DEFINE r == [pc[i] EXCEPT !.step = "failed"]
<1>1. pc' = [pc EXCEPT ![i] = r]
      BY DEF MediaDenied
<1>2. /\ r \in PeerConnection /\ r.own = pc[i].own /\ r.peer = pc[i].peer
      /\ r.role = pc[i].role /\ r.offer = pc[i].offer
      <2>1. pc[i] \in PeerConnection
            BY StoreTypes
      <2> QED BY <2>1 DEF PeerConnection, States
<1> QED BY <1>1, <1>2, Updates

LEMMA MediaGrantedIs ==
    ASSUME TypeOK, NEW i \in Made, MediaGranted(i)
    PROVE  OnlyThis(i) /\ pc'[i] = [pc[i] EXCEPT !.step = "describe"]
<1> DEFINE r == [pc[i] EXCEPT !.step = "describe"]
<1>1. pc' = [pc EXCEPT ![i] = r]
      BY DEF MediaGranted
<1>2. /\ r \in PeerConnection /\ r.own = pc[i].own /\ r.peer = pc[i].peer
      /\ r.role = pc[i].role /\ r.offer = pc[i].offer
      <2>1. pc[i] \in PeerConnection
            BY StoreTypes
      <2> QED BY <2>1 DEF PeerConnection, States
<1> QED BY <1>1, <1>2, Updates

LEMMA SendOfferIs ==
    ASSUME TypeOK, NEW i \in Made, SendOffer(i)
    PROVE  /\ OnlyThis(i)
           /\ pc'[i] = [pc[i] EXCEPT !.step = "done", !.signaling = "have-local-offer"]
<1> DEFINE r == [pc[i] EXCEPT !.step = "done", !.signaling = "have-local-offer"]
<1>1. pc' = [pc EXCEPT ![i] = r]
      BY DEF SendOffer
<1>2. /\ r \in PeerConnection /\ r.own = pc[i].own /\ r.peer = pc[i].peer
      /\ r.role = pc[i].role /\ r.offer = pc[i].offer
      <2>1. pc[i] \in PeerConnection
            BY StoreTypes
      <2> QED BY <2>1 DEF PeerConnection, States
<1> QED BY <1>1, <1>2, Updates

LEMMA SendAnswerIs ==
    ASSUME TypeOK, NEW i \in Made, SendAnswer(i)
    PROVE  /\ OnlyThis(i)
           /\ pc'[i] = [pc[i] EXCEPT !.step = "done", !.remote = pc[i].offer]
<1> DEFINE r == [pc[i] EXCEPT !.step = "done", !.remote = pc[i].offer]
<1>1. pc' = [pc EXCEPT ![i] = r]
      BY DEF SendAnswer
<1>2. /\ r \in PeerConnection /\ r.own = pc[i].own /\ r.peer = pc[i].peer
      /\ r.role = pc[i].role /\ r.offer = pc[i].offer
      <2>1. pc[i] \in PeerConnection
            BY StoreTypes
      <2> QED BY <2>1 DEF PeerConnection, States
<1> QED BY <1>1, <1>2, Updates

LEMMA SendIceIs ==
    ASSUME TypeOK, NEW i \in Made, SendIce(i)
    PROVE  OnlyThis(i) /\ pc'[i] = [pc[i] EXCEPT !.gathered = TRUE]
<1> DEFINE r == [pc[i] EXCEPT !.gathered = TRUE]
<1>1. pc' = [pc EXCEPT ![i] = r]
      BY DEF SendIce
<1>2. /\ r \in PeerConnection /\ r.own = pc[i].own /\ r.peer = pc[i].peer
      /\ r.role = pc[i].role /\ r.offer = pc[i].offer
      <2>1. pc[i] \in PeerConnection
            BY StoreTypes
      <2> QED BY <2>1 DEF PeerConnection, States
<1> QED BY <1>1, <1>2, Updates

LEMMA ConnectionStateChangeIs ==
    ASSUME TypeOK, NEW i \in Made, NEW s \in States, ConnectionStateChange(i, s)
    PROVE  OnlyThis(i) /\ pc'[i] = [pc[i] EXCEPT !.conn = s]
<1> DEFINE r == [pc[i] EXCEPT !.conn = s]
<1>1. pc' = [pc EXCEPT ![i] = r]
      BY DEF ConnectionStateChange
<1>2. /\ r \in PeerConnection /\ r.own = pc[i].own /\ r.peer = pc[i].peer
      /\ r.role = pc[i].role /\ r.offer = pc[i].offer
      <2>1. pc[i] \in PeerConnection
            BY StoreTypes
      <2> QED BY <2>1 DEF PeerConnection, States
<1> QED BY <1>1, <1>2, Updates

LEMMA AnswerSetIs ==
    ASSUME TypeOK, NEW i \in Made, AnswerSet(i)
    PROVE  /\ OnlyThis(i)
           /\ pc[i].setting # <<>>
           /\ \/ pc'[i] = [pc[i] EXCEPT !.setting = Tail(@)] /\ UNCHANGED connState
              \/ /\ pc'[i] = [pc[i] EXCEPT !.setting = Tail(@), !.signaling = "stable",
                                           !.remote = Head(pc[i].setting)]
                 /\ Notify(pc[i].own, current[pc[i].own].pc, pc)
<1> DEFINE q == [pc[i] EXCEPT !.setting = Tail(@)]
           r == [pc[i] EXCEPT !.setting = Tail(@), !.signaling = "stable",
                              !.remote = Head(pc[i].setting)]
<1>1. pc[i] \in PeerConnection
      BY StoreTypes
<1>2. pc[i].setting \in Seq(Ids) /\ pc[i].setting # <<>>
      BY <1>1 DEF PeerConnection, AnswerSet
<1>3. Tail(pc[i].setting) \in Seq(Ids) /\ Head(pc[i].setting) \in Ids
      BY <1>2, HeadTailProperties
<1>4. /\ q \in PeerConnection /\ q.own = pc[i].own /\ q.peer = pc[i].peer
      /\ q.role = pc[i].role /\ q.offer = pc[i].offer
      BY <1>1, <1>3 DEF PeerConnection
<1>5. /\ r \in PeerConnection /\ r.own = pc[i].own /\ r.peer = pc[i].peer
      /\ r.role = pc[i].role /\ r.offer = pc[i].offer
      BY <1>1, <1>3 DEF PeerConnection
<1>6. CASE pc' = [pc EXCEPT ![i] = q] /\ UNCHANGED connState
      BY <1>2, <1>4, <1>6, Updates
<1>7. CASE pc' = [pc EXCEPT ![i] = r] /\ Notify(pc[i].own, current[pc[i].own].pc, pc)
      BY <1>2, <1>5, <1>7, Updates
<1>8. \/ pc' = [pc EXCEPT ![i] = q] /\ UNCHANGED connState
      \/ pc' = [pc EXCEPT ![i] = r] /\ Notify(pc[i].own, current[pc[i].own].pc, pc)
      BY DEF AnswerSet
<1> QED BY <1>6, <1>7, <1>8

LEMMA ReceiveAnswerIs ==
    ASSUME TypeOK, CurrentDialled, NEW p \in Users, NEW u \in Users, ReceiveAnswer(p, u)
    PROVE  \/ pc' = pc
           \/ LET i == current[u].pc IN
              /\ i \in Made /\ current[u].peer = p
              /\ OnlyThis(i)
              /\ pc'[i] = [pc[i] EXCEPT !.setting = Append(@, Head(relay[p][u]).pc)]
<1> DEFINE i == current[u].pc
           a == Head(relay[p][u]).pc
           r == [pc[i] EXCEPT !.setting = Append(@, a)]
<1> SUFFICES ASSUME pc' # pc
             PROVE  /\ i \in Made /\ current[u].peer = p /\ OnlyThis(i) /\ pc'[i] = r
    OBVIOUS
<1>1. i # No /\ current[u].peer = p /\ pc' = [pc EXCEPT ![i] = r]
      BY DEF ReceiveAnswer
<1>2. i \in Made
      BY <1>1 DEF CurrentDialled
<1>3. pc[i] \in PeerConnection
      BY <1>2, StoreTypes
<1>4. a \in Ids
      BY Takes DEF ReceiveAnswer, Arrives
<1>5. Append(pc[i].setting, a) \in Seq(Ids)
      BY <1>3, <1>4, AppendProperties DEF PeerConnection
<1>6. /\ r \in PeerConnection /\ r.own = pc[i].own /\ r.peer = pc[i].peer
      /\ r.role = pc[i].role /\ r.offer = pc[i].offer
      BY <1>3, <1>5 DEF PeerConnection
<1> QED BY <1>1, <1>2, <1>6, Updates

LEMMA ReceiveIceIs ==
    ASSUME TypeOK, CurrentDialled, NEW p \in Users, NEW u \in Users, ReceiveIce(p, u)
    PROVE  \/ pc' = pc
           \/ LET i == current[u].pc IN
              /\ i \in Made
              /\ OnlyThis(i)
              /\ pc'[i] = [pc[i] EXCEPT !.ice = @ \cup {Head(relay[p][u]).pc}]
<1> DEFINE i == current[u].pc
           a == Head(relay[p][u]).pc
           r == [pc[i] EXCEPT !.ice = @ \cup {a}]
<1> SUFFICES ASSUME pc' # pc
             PROVE  /\ i \in Made /\ OnlyThis(i) /\ pc'[i] = r
    OBVIOUS
<1>1. current[u].peer = p /\ pc' = [pc EXCEPT ![i] = r]
      BY DEF ReceiveIce
<1>2. i \in Made
      BY <1>1, CallsAssumption DEF CurrentDialled, CallsAssumption
<1>3. pc[i] \in PeerConnection
      BY <1>2, StoreTypes
<1>4. a \in Ids
      BY Takes DEF ReceiveIce, Arrives
<1>5. /\ r \in PeerConnection /\ r.own = pc[i].own /\ r.peer = pc[i].peer
      /\ r.role = pc[i].role /\ r.offer = pc[i].offer
      BY <1>3, <1>4 DEF PeerConnection
<1> QED BY <1>1, <1>2, <1>5, Updates

\* Each step preserves the types.
LEMMA TypesStep == TypeOK /\ CurrentDialled /\ [Next]_vars => TypeOK'
<1> SUFFICES ASSUME TypeOK, CurrentDialled, [Next]_vars PROVE TypeOK'
    OBVIOUS
<1> DEFINE Sessions == [Users -> [id : Users \cup {Nobody}, pc : Ids \cup {No},
                                  connected : BOOLEAN]]
           Offers == [Users -> [Users -> Ids \cup {No}]]
           Relays == [Users -> [Users -> Seq(Message)]]
<1>1. ASSUME NEW u \in Users, NEW p \in Users, Click(u, p) PROVE TypeOK'
      <2>1. CASE StartOutgoingCall(u, p) \/ AcceptCallRequest(u, p)
            <3>1. PICK role \in {"caller", "callee"}, o \in Ids \cup {No} : NewPc(u, p, role, o)
                  BY <2>1 DEF StartOutgoingCall, AcceptCallRequest, TypeOK
            <3>2. made' \in 0..MaxPcs /\ pc' \in [1..made' -> PeerConnection]
                  BY <3>1, Adds
            <3> QED BY <2>1, <3>2 DEF StartOutgoingCall, AcceptCallRequest, TypeOK
      <2>2. CASE DeclineCallRequest(u, p)
            <3>1. offers' \in Offers
                  BY <2>2 DEF DeclineCallRequest, RemoveOffer, TypeOK
            <3> QED BY <2>2, <3>1 DEF DeclineCallRequest, TypeOK
      <2> QED BY <1>1, <2>1, <2>2 DEF Click
<1>2. ASSUME NEW p \in Users, NEW u \in Users, Receive(p, u) PROVE TypeOK'
      <2>1. relay' \in Relays /\ Head(relay[p][u]).pc \in Ids
            BY <1>2, Takes DEF Receive, ReceiveOffer, ReceiveAnswer, ReceiveIce, Arrives
      <2>2. CASE ReceiveOffer(p, u)
            <3>1. offers' \in Offers
                  BY <2>1, <2>2 DEF ReceiveOffer, AddOffer, TypeOK
            <3> QED BY <2>1, <2>2, <3>1 DEF ReceiveOffer, TypeOK
      <2>3. CASE ReceiveAnswer(p, u)
            <3>1. pc' \in [1..made -> PeerConnection]
                  BY <2>3, ReceiveAnswerIs DEF OnlyThis, TypeOK
            <3> QED BY <2>1, <2>3, <3>1 DEF ReceiveAnswer, TypeOK
      <2>4. CASE ReceiveIce(p, u)
            <3>1. pc' \in [1..made -> PeerConnection]
                  BY <2>4, ReceiveIceIs DEF OnlyThis, TypeOK
            <3> QED BY <2>1, <2>4, <3>1 DEF ReceiveIce, TypeOK
      <2> QED BY <1>2, <2>2, <2>3, <2>4 DEF Receive
<1>3. ASSUME NEW p \in Users, NEW u \in Users, Lose(p, u) PROVE TypeOK'
      <2>1. relay' \in Relays
            BY <1>3, Takes DEF Lose
      <2> QED BY <1>3, <2>1 DEF Lose, TypeOK
<1>4. ASSUME NEW i \in Made, MediaDenied(i) PROVE TypeOK'
      <2>1. pc' \in [1..made -> PeerConnection]
            BY <1>4, MediaDeniedIs DEF OnlyThis
      <2> QED BY <1>4, <2>1 DEF MediaDenied, TypeOK
<1>5. ASSUME NEW i \in Made, MediaGranted(i) PROVE TypeOK'
      <2>1. pc' \in [1..made -> PeerConnection]
            BY <1>5, MediaGrantedIs DEF OnlyThis
      <2>2. room' \in Sessions /\ timers' \in Offers
            <3>1. CASE UNCHANGED <<room, timers>>
                  BY <3>1 DEF TypeOK
            <3>2. CASE OpenRoom(i)
                  BY <3>2, StoreTypes DEF OpenRoom, StartMonitor
            <3> QED BY <1>5, <3>1, <3>2 DEF MediaGranted
      <2> QED BY <1>5, <2>1, <2>2 DEF MediaGranted, TypeOK
<1>6. ASSUME NEW i \in Made, SendOffer(i) PROVE TypeOK'
      <2>1. pc' \in [1..made -> PeerConnection] /\ pc'[i].conn \in States
            BY <1>6, SendOfferIs, MadeIs DEF OnlyThis, PeerConnection
      <2>2. room' \in Sessions /\ timers' \in Offers
            BY <1>6, StoreTypes DEF SendOffer, OpenRoom, StartMonitor
      <2>3. connState' \in [Users -> States \cup {"none"}]
            <3>1. connState' = [connState EXCEPT ![pc[i].own] =
                                    IF i = No THEN "none" ELSE pc'[i].conn]
                  BY <1>6 DEF SendOffer, Notify, SetConnState
            <3> QED BY <2>1, <3>1, StoreTypes
      <2>4. current' \in [Users -> [pc : Ids \cup {No}, peer : Users \cup {Nobody}]]
            <3>1. pc[i].peer \in Users /\ i \in Ids
                  BY StoreTypes
            <3> QED BY <1>6, <3>1 DEF SendOffer, TypeOK
      <2>5. relay' \in Relays
            <3>1. pc[i].own \in Users /\ pc[i].peer \in Users /\ i \in Ids
                  BY StoreTypes
            <3> QED BY <1>6, <3>1, Posts DEF SendOffer
      <2> QED BY <1>6, <2>1, <2>2, <2>3, <2>4, <2>5 DEF SendOffer, TypeOK
<1>7. ASSUME NEW i \in Made, SendAnswer(i) PROVE TypeOK'
      <2>1. pc' \in [1..made -> PeerConnection]
            BY <1>7, SendAnswerIs DEF OnlyThis
      <2>2. pc[i].own \in Users /\ pc[i].peer \in Users /\ i \in Ids
            BY StoreTypes
      <2>3. offers' \in Offers
            BY <1>7, <2>2 DEF SendAnswer, RemoveOffer, TypeOK
      <2>4. relay' \in Relays
            BY <1>7, <2>2, Posts DEF SendAnswer
      <2> QED BY <1>7, <2>1, <2>3, <2>4 DEF SendAnswer, TypeOK
<1>8. ASSUME NEW i \in Made, AnswerSet(i) PROVE TypeOK'
      <2>1. pc' \in [1..made -> PeerConnection]
            BY <1>8, AnswerSetIs DEF OnlyThis
      <2>2. connState' \in [Users -> States \cup {"none"}]
            <3>1. CASE Notify(pc[i].own, current[pc[i].own].pc, pc)
                  <4> DEFINE c == current[pc[i].own].pc
                  <4>1. c = No \/ c \in Made
                        BY StoreTypes DEF CurrentDialled
                  <4>2. (IF c = No THEN "none" ELSE pc[c].conn) \in States \cup {"none"}
                        BY <4>1, MadeIs DEF TypeOK, PeerConnection
                  <4> QED BY <3>1, <4>2, StoreTypes DEF Notify, SetConnState
            <3>2. CASE UNCHANGED connState
                  BY <3>2 DEF TypeOK
            <3> QED BY <1>8, <3>1, <3>2, AnswerSetIs
      <2> QED BY <1>8, <2>1, <2>2 DEF AnswerSet, TypeOK
<1>9. ASSUME NEW i \in Made, SendIce(i) PROVE TypeOK'
      <2>1. pc' \in [1..made -> PeerConnection]
            BY <1>9, SendIceIs DEF OnlyThis
      <2>2. pc[i].own \in Users /\ pc[i].peer \in Users /\ i \in Ids
            BY StoreTypes
      <2>3. relay' \in Relays
            BY <1>9, <2>2, Posts DEF SendIce
      <2> QED BY <1>9, <2>1, <2>3 DEF SendIce, TypeOK
<1>10. ASSUME NEW i \in Made, NEW s \in States, ConnectionStateChange(i, s) PROVE TypeOK'
      <2> DEFINE c == IF pc[i].role = "caller" THEN current[pc[i].own].pc ELSE i
      <2>1. pc' \in [1..made -> PeerConnection] /\ Made' = Made
            BY <1>10, ConnectionStateChangeIs DEF OnlyThis
      <2>2. c = No \/ pc'[c].conn \in States
            <3>1. c = No \/ c \in Made
                  BY StoreTypes DEF CurrentDialled
            <3> QED BY <2>1, <3>1, MadeIs DEF PeerConnection
      <2>3. connState' \in [Users -> States \cup {"none"}]
            <3>1. (IF c = No THEN "none" ELSE pc'[c].conn) \in States \cup {"none"}
                  BY <2>2
            <3>2. connState' = [connState EXCEPT ![pc[i].own] =
                                    IF c = No THEN "none" ELSE pc'[c].conn]
                  BY <1>10 DEF ConnectionStateChange, Notify, SetConnState
            <3> HIDE DEF c
            <3> QED BY <3>1, <3>2, StoreTypes
      <2>4. room' \in Sessions
            <3>1. room' = [room EXCEPT ![pc[i].own].connected = (pc'[c].conn = "connected")]
                  BY <1>10 DEF ConnectionStateChange, ReportConnected
            <3> HIDE DEF c
            <3> QED BY <3>1, StoreTypes
      <2>5. timers' \in Offers
            <3>1. timers' = timers \/ timers' = [timers EXCEPT ![pc[i].own][pc[i].peer] = No]
                  BY <1>10 DEF ConnectionStateChange, StopMonitor
            <3>2. timers \in Offers
                  BY DEF TypeOK
            <3> QED BY <3>1, <3>2, StoreTypes
      <2> QED BY <1>10, <2>1, <2>3, <2>4, <2>5 DEF ConnectionStateChange, TypeOK
<1>11. CASE UNCHANGED vars
      BY <1>11 DEF vars, TypeOK
<1> QED BY <1>1, <1>2, <1>3, <1>4, <1>5, <1>6, <1>7, <1>8, <1>9, <1>10, <1>11 DEF Next

----------------------------------------------------------------------------
(* Whose answer a call takes.                                              *)

\* Connections stay whose they are, and described once they are.
KeepsWho ==
    /\ Made \subseteq Made'
    /\ \A j \in Made : /\ pc'[j].own = pc[j].own
                       /\ pc'[j].peer = pc[j].peer
                       /\ pc'[j].role = pc[j].role
                       /\ pc'[j].offer = pc[j].offer
                       /\ pc[j].step = "done" => pc'[j].step = "done"

LEMMA OnlyThisKeeps ==
    ASSUME NEW i \in Made, OnlyThis(i), pc[i].step = "done" => pc'[i].step = "done"
    PROVE  KeepsWho /\ Made' = Made
BY DEF KeepsWho, OnlyThis

LEMMA RelayKept ==
    ASSUME RelayFromOwner, KeepsWho,
           \A q, v \in Users : \A k \in 1..Len(relay'[q][v]) :
               \/ \E l \in 1..Len(relay[q][v]) : relay'[q][v][k] = relay[q][v][l]
               \/ /\ relay'[q][v][k].pc \in Made
                  /\ pc[relay'[q][v][k].pc].own = q
                  /\ pc[relay'[q][v][k].pc].peer = v
    PROVE  RelayFromOwner'
<1> SUFFICES ASSUME NEW q \in Users, NEW v \in Users, NEW k \in 1..Len(relay'[q][v])
             PROVE  LET i == relay'[q][v][k].pc IN
                    i \in Made' /\ pc'[i].own = q /\ pc'[i].peer = v
    BY DEF RelayFromOwner
<1> DEFINE m == relay'[q][v][k]
<1>1. m.pc \in Made /\ pc[m.pc].own = q /\ pc[m.pc].peer = v
      <2>1. CASE \E l \in 1..Len(relay[q][v]) : m = relay[q][v][l]
            <3>1. PICK l \in 1..Len(relay[q][v]) : m = relay[q][v][l]
                  BY <2>1
            <3> HIDE DEF m
            <3> QED BY <3>1 DEF RelayFromOwner
      <2> QED BY <2>1
<1> HIDE DEF m
<1>2. m.pc \in Made' /\ pc'[m.pc].own = q /\ pc'[m.pc].peer = v
      BY <1>1 DEF KeepsWho
<1> QED BY <1>2 DEF m

LEMMA CurrentKept ==
    ASSUME CurrentDialled, KeepsWho, UNCHANGED current
    PROVE  CurrentDialled'
BY DEF CurrentDialled, KeepsWho

\* Connections whose answers a step leaves alone keep the right ones.
LEMMA AnswersKept ==
    ASSUME SettingAnswers, RemoteAnswers, KeepsWho,
           \A j \in Made' :
               \/ pc'[j].setting = <<>> /\ pc'[j].remote = No
               \/ /\ j \in Made
                  /\ pc'[j].setting = pc[j].setting
                  /\ pc'[j].remote = pc[j].remote \/ pc[j].role = "callee"
    PROVE  SettingAnswers' /\ RemoteAnswers'
<1>1. SettingAnswers'
      <2> SUFFICES ASSUME NEW j \in Made', NEW k \in 1..Len(pc'[j].setting)
                   PROVE  /\ pc'[j].role = "caller" /\ pc'[j].step = "done"
                          /\ Answers(pc[j].setting[k], j)'
                          /\ pc'[j].setting[k] = pc[j].setting[k]
          BY DEF SettingAnswers, Answers
      <2>1. pc'[j].setting # <<>>
            BY EmptySeq
      <2>2. j \in Made /\ pc'[j].setting = pc[j].setting
            BY <2>1
      <2> QED BY <2>2 DEF SettingAnswers, Answers, KeepsWho
<1>2. RemoteAnswers'
      BY DEF RemoteAnswers, Answers, KeepsWho
<1> QED BY <1>1, <1>2

\* Each step preserves the whole invariant.
LEMMA AnswerStep == AnswerInv /\ [Next]_vars => AnswerInv'
<1> SUFFICES ASSUME AnswerInv, [Next]_vars PROVE AnswerInv'
    OBVIOUS
<1> USE DEF AnswerInv
<1>0. TypeOK'
      BY TypesStep
<1>1. ASSUME NEW u \in Users, NEW p \in Users, Click(u, p) PROVE AnswerInv'
      <2>1. CASE StartOutgoingCall(u, p) \/ AcceptCallRequest(u, p)
            <3>1. PICK role \in {"caller", "callee"}, o \in Ids \cup {No} : NewPc(u, p, role, o)
                  BY <2>1 DEF StartOutgoingCall, AcceptCallRequest, TypeOK
            <3>2. /\ Made' = Made \cup {made'} /\ \A j \in Made : pc'[j] = pc[j]
                  /\ pc'[made'].remote = No /\ pc'[made'].setting = <<>>
                  BY <3>1, Adds
            <3>3. KeepsWho
                  BY <3>2 DEF KeepsWho
            <3>4. UNCHANGED <<relay, current>>
                  BY <2>1 DEF StartOutgoingCall, AcceptCallRequest
            <3> QED BY <1>0, <3>2, <3>3, <3>4, RelayKept, CurrentKept, AnswersKept
      <2>2. CASE DeclineCallRequest(u, p)
            <3>1. UNCHANGED <<pc, relay, current>>
                  BY <2>2 DEF DeclineCallRequest
            <3>2. KeepsWho /\ Made' = Made
                  BY <3>1 DEF KeepsWho, Made
            <3> QED BY <1>0, <3>1, <3>2, RelayKept, CurrentKept, AnswersKept
      <2> QED BY <1>1, <2>1, <2>2 DEF Click
<1>2. ASSUME NEW p \in Users, NEW u \in Users, Receive(p, u) PROVE AnswerInv'
      <2>1. /\ \A q, v \in Users : \A k \in 1..Len(relay'[q][v]) :
                   \E l \in 1..Len(relay[q][v]) : relay'[q][v][k] = relay[q][v][l]
            /\ Head(relay[p][u]) = relay[p][u][1] /\ 1 \in 1..Len(relay[p][u])
            BY <1>2, Takes DEF Receive, ReceiveOffer, ReceiveAnswer, ReceiveIce, Arrives
      <2>2. UNCHANGED current
            BY <1>2 DEF Receive, ReceiveOffer, ReceiveAnswer, ReceiveIce
      <2>3. CASE pc' = pc
            <3>1. KeepsWho /\ Made' = Made
                  BY <2>3 DEF KeepsWho, Made
            <3> QED BY <1>0, <2>1, <2>2, <2>3, <3>1, RelayKept, CurrentKept, AnswersKept
      <2>4. CASE ReceiveIce(p, u) /\ pc' # pc
            <3> DEFINE i == current[u].pc
            <3>1. i \in Made /\ OnlyThis(i)
                  /\ pc'[i] = [pc[i] EXCEPT !.ice = @ \cup {Head(relay[p][u]).pc}]
                  BY <2>4, ReceiveIceIs
            <3>2. pc[i] \in PeerConnection
                  BY <3>1, StoreTypes
            <3>3. /\ pc'[i].setting = pc[i].setting /\ pc'[i].remote = pc[i].remote
                  /\ pc'[i].step = pc[i].step
                  BY <3>1, <3>2 DEF PeerConnection
            <3>4. KeepsWho /\ Made' = Made
                  BY <3>1, <3>3, OnlyThisKeeps
            <3>5. SettingAnswers' /\ RemoteAnswers'
                  BY <3>1, <3>3, <3>4, AnswersKept DEF OnlyThis
            <3> QED BY <1>0, <2>1, <2>2, <3>4, <3>5, RelayKept, CurrentKept
      <2>5. CASE ReceiveAnswer(p, u) /\ pc' # pc
            <3> DEFINE i == current[u].pc
                       a == Head(relay[p][u]).pc
            <3>1. i \in Made /\ current[u].peer = p /\ OnlyThis(i)
                  /\ pc'[i] = [pc[i] EXCEPT !.setting = Append(@, a)]
                  BY <2>5, ReceiveAnswerIs
            <3>2. pc[i] \in PeerConnection /\ pc[i].setting \in Seq(Ids)
                  BY <3>1, StoreTypes DEF PeerConnection
            <3>3. /\ pc'[i].setting = Append(pc[i].setting, a)
                  /\ pc'[i].remote = pc[i].remote /\ pc'[i].step = pc[i].step
                  BY <3>1, <3>2 DEF PeerConnection
            <3>4. KeepsWho /\ Made' = Made
                  BY <3>1, <3>3, OnlyThisKeeps
            <3>5. a \in Made /\ pc[a].own = p /\ pc[a].peer = u /\ a \in Ids
                  <4>1. a \in Made /\ pc[a].own = p /\ pc[a].peer = u
                        BY <2>1 DEF RelayFromOwner
                  <4> HIDE DEF a
                  <4> QED BY <4>1, StoreTypes
            <3>6. /\ pc[i].own = u /\ pc[i].peer = p /\ pc[i].role = "caller"
                  /\ pc[i].step = "done"
                  BY <3>1, MadeIs DEF CurrentDialled, No
            <3>7. SettingAnswers'
                  <4> SUFFICES ASSUME NEW j \in Made, NEW k \in 1..Len(pc'[j].setting)
                               PROVE  /\ pc'[j].role = "caller" /\ pc'[j].step = "done"
                                      /\ Answers(pc[j].setting[k], j)'
                      BY <3>4 DEF SettingAnswers, Answers
                  <4>1. CASE j = i /\ k = Len(pc[i].setting) + 1
                        <5>1. pc'[j].setting[k] = a
                              BY <3>2, <3>3, <3>5, <4>1, AppendProperties
                        <5> QED BY <3>3, <3>4, <3>5, <3>6, <4>1, <5>1 DEF KeepsWho, Answers
                  <4>2. CASE k \in 1..Len(pc[j].setting) /\ pc'[j].setting[k] = pc[j].setting[k]
                        BY <3>4, <4>2 DEF KeepsWho, SettingAnswers, Answers
                  <4>3. CASE j # i
                        <5>1. pc'[j] = pc[j]
                              BY <3>1, <4>3 DEF OnlyThis
                        <5> QED BY <4>2, <5>1
                  <4>4. CASE j = i /\ k # Len(pc[i].setting) + 1
                        <5>1. /\ Len(pc'[i].setting) = Len(pc[i].setting) + 1
                              /\ Len(pc[i].setting) \in Nat
                              /\ \A l \in 1..Len(pc[i].setting) :
                                     pc'[i].setting[l] = pc[i].setting[l]
                              <6> DEFINE s == pc[i].setting
                              <6>1. s \in Seq(Ids) /\ a \in Ids /\ pc'[i].setting = Append(s, a)
                                    BY <3>2, <3>3, <3>5
                              <6> HIDE DEF s
                              <6>2. /\ Len(Append(s, a)) = Len(s) + 1 /\ Len(s) \in Nat
                                    /\ \A l \in 1..Len(s) : Append(s, a)[l] = s[l]
                                    BY <6>1, AppendProperties, LenProperties
                              <6> QED BY <6>1, <6>2 DEF s
                        <5>2. k \in 1..Len(pc[i].setting)
                              BY <4>4, <5>1
                        <5> QED BY <4>2, <4>4, <5>1, <5>2
                  <4> QED BY <4>1, <4>3, <4>4
            <3>8. RemoteAnswers'
                  <4>1. \A j \in Made : pc'[j].remote = pc[j].remote
                        BY <3>1, <3>3 DEF OnlyThis
                  <4> QED BY <3>4, <4>1 DEF RemoteAnswers, Answers, KeepsWho
            <3> QED BY <1>0, <2>1, <2>2, <3>4, <3>7, <3>8, RelayKept, CurrentKept
      <2> QED BY <1>2, <2>3, <2>4, <2>5 DEF Receive, ReceiveOffer
<1>3. ASSUME NEW p \in Users, NEW u \in Users, Lose(p, u) PROVE AnswerInv'
      <2>1. \A q, v \in Users : \A k \in 1..Len(relay'[q][v]) :
                \E l \in 1..Len(relay[q][v]) : relay'[q][v][k] = relay[q][v][l]
            BY <1>3, Takes DEF Lose
      <2>2. UNCHANGED <<pc, current>>
            BY <1>3 DEF Lose
      <2>3. KeepsWho /\ Made' = Made
            BY <2>2 DEF KeepsWho, Made
      <2> QED BY <1>0, <2>1, <2>2, <2>3, RelayKept, CurrentKept, AnswersKept
<1>4. ASSUME NEW i \in Made, MediaDenied(i) \/ MediaGranted(i) PROVE AnswerInv'
      <2>1. /\ OnlyThis(i) /\ pc[i].step # "done"
            /\ pc'[i].setting = pc[i].setting /\ pc'[i].remote = pc[i].remote
            <3>1. PICK st \in {"failed", "describe"} :
                      OnlyThis(i) /\ pc'[i] = [pc[i] EXCEPT !.step = st]
                  BY <1>4, MediaDeniedIs, MediaGrantedIs
            <3>2. pc[i] \in PeerConnection /\ pc[i].step = "media"
                  BY <1>4, StoreTypes DEF MediaDenied, MediaGranted
            <3> QED BY <3>1, <3>2 DEF PeerConnection
      <2>2. KeepsWho /\ Made' = Made
            BY <2>1, OnlyThisKeeps
      <2>3. UNCHANGED <<relay, current>>
            BY <1>4 DEF MediaDenied, MediaGranted
      <2>4. SettingAnswers' /\ RemoteAnswers'
            BY <2>1, <2>2, AnswersKept DEF OnlyThis
      <2> QED BY <1>0, <2>2, <2>3, <2>4, RelayKept, CurrentKept
<1>5. ASSUME NEW i \in Made, SendOffer(i) PROVE AnswerInv'
      <2> DEFINE u == pc[i].own
      <2>1. pc[i] \in PeerConnection /\ u \in Users /\ pc[i].peer \in Users /\ i \in Ids
            BY StoreTypes
      <2>2. /\ OnlyThis(i) /\ pc'[i].step = "done"
            /\ pc'[i].setting = pc[i].setting /\ pc'[i].remote = pc[i].remote
            BY <1>5, <2>1, SendOfferIs DEF PeerConnection
      <2>3. KeepsWho /\ Made' = Made
            BY <2>2, OnlyThisKeeps
      <2>4. SettingAnswers' /\ RemoteAnswers'
            BY <2>2, <2>3, AnswersKept DEF OnlyThis
      <2>5. RelayFromOwner'
            <3>1. PICK x \in Users, y \in Users :
                      x = u /\ y = pc[i].peer /\ Post(x, y, "offer", i)
                  BY <1>5, <2>1 DEF SendOffer
            <3>2. \A q, v \in Users : \A k \in 1..Len(relay'[q][v]) :
                      \/ k \in 1..Len(relay[q][v]) /\ relay'[q][v][k] = relay[q][v][k]
                      \/ /\ q = x /\ v = y
                         /\ relay'[q][v][k].pc = i /\ relay'[q][v][k].type = "offer"
                  BY <2>1, <3>1, PostsOffer
            <3>3. ASSUME NEW q \in Users, NEW v \in Users, NEW k \in 1..Len(relay'[q][v])
                  PROVE  \/ \E l \in 1..Len(relay[q][v]) : relay'[q][v][k] = relay[q][v][l]
                         \/ /\ relay'[q][v][k].pc \in Made
                            /\ pc[relay'[q][v][k].pc].own = q
                            /\ pc[relay'[q][v][k].pc].peer = v
                  BY <3>1, <3>2
            <3> QED BY <1>0, <2>3, <3>3, RelayKept
      <2>6. CurrentDialled'
            <3>1. current' = [current EXCEPT ![u] = [pc |-> i, peer |-> pc[i].peer]]
                  BY <1>5 DEF SendOffer
            <3>2. current'[u].pc = i /\ current'[u].peer = pc[i].peer
                  BY <2>1, <3>1 DEF TypeOK
            <3>3. \A v \in Users : v # u => current'[v] = current[v]
                  BY <3>1 DEF TypeOK
            <3>4. pc'[i].own = u /\ pc'[i].peer = pc[i].peer /\ pc'[i].role = "caller"
                  BY <1>5, <2>3 DEF KeepsWho, SendOffer
            <3>5. i # No
                  BY <2>1 DEF Ids, No
            <3> QED BY <2>2, <2>3, <3>2, <3>3, <3>4, <3>5 DEF CurrentDialled, KeepsWho
      <2> QED BY <1>0, <2>4, <2>5, <2>6
<1>6. ASSUME NEW i \in Made, SendAnswer(i) \/ SendIce(i) PROVE AnswerInv'
      <2>1. pc[i] \in PeerConnection /\ pc[i].own \in Users /\ pc[i].peer \in Users /\ i \in Ids
            BY StoreTypes
      <2>2. /\ OnlyThis(i) /\ pc'[i].setting = pc[i].setting
            /\ pc[i].step = "done" => pc'[i].step = "done"
            /\ pc'[i].remote = pc[i].remote \/ pc[i].role = "callee"
            <3>1. CASE SendAnswer(i)
                  <4>1. /\ OnlyThis(i) /\ pc[i].role = "callee"
                        /\ pc'[i] = [pc[i] EXCEPT !.step = "done", !.remote = pc[i].offer]
                        BY <3>1, SendAnswerIs DEF SendAnswer
                  <4> QED BY <2>1, <4>1 DEF PeerConnection
            <3>2. CASE SendIce(i)
                  BY <2>1, <3>2, SendIceIs DEF PeerConnection
            <3> QED BY <1>6, <3>1, <3>2
      <2>3. KeepsWho /\ Made' = Made
            BY <2>2, OnlyThisKeeps
      <2>4. SettingAnswers' /\ RemoteAnswers'
            BY <2>2, <2>3, AnswersKept DEF OnlyThis
      <2>5. RelayFromOwner'
            <3>1. PICK type \in {"answer", "ice"} : Post(pc[i].own, pc[i].peer, type, i)
                  BY <1>6 DEF SendAnswer, SendIce
            <3>2. \A q, v \in Users : \A k \in 1..Len(relay'[q][v]) :
                      \/ k \in 1..Len(relay[q][v]) /\ relay'[q][v][k] = relay[q][v][k]
                      \/ q = pc[i].own /\ v = pc[i].peer /\ relay'[q][v][k].pc = i
                  BY <2>1, <3>1, Posts
            <3> QED BY <2>3, <3>2, RelayKept
      <2>6. UNCHANGED current
            BY <1>6 DEF SendAnswer, SendIce
      <2> QED BY <1>0, <2>3, <2>4, <2>5, <2>6, CurrentKept
<1>7. ASSUME NEW i \in Made, AnswerSet(i) PROVE AnswerInv'
      <2>1. pc[i] \in PeerConnection /\ pc[i].setting \in Seq(Ids) /\ pc[i].setting # <<>>
            BY <1>7, StoreTypes DEF PeerConnection, AnswerSet
      <2>2. /\ OnlyThis(i) /\ pc'[i].setting = Tail(pc[i].setting)
            /\ pc'[i].step = pc[i].step
            /\ pc'[i].remote \in {pc[i].remote, Head(pc[i].setting)}
            BY <1>7, <2>1, AnswerSetIs DEF PeerConnection
      <2>3. KeepsWho /\ Made' = Made
            BY <2>2, OnlyThisKeeps
      <2>4. UNCHANGED <<relay, current>>
            BY <1>7 DEF AnswerSet
      <2>5. /\ Head(pc[i].setting) = pc[i].setting[1]
            /\ Len(Tail(pc[i].setting)) = Len(pc[i].setting) - 1
            /\ Len(pc[i].setting) \in Nat \ {0}
            /\ \A k \in 1..Len(Tail(pc[i].setting)) :
                   Tail(pc[i].setting)[k] = pc[i].setting[k + 1]
            BY <2>1, HeadTailProperties, EmptySeq, LenProperties
      <2>6. SettingAnswers'
            <3> SUFFICES ASSUME NEW j \in Made, NEW k \in 1..Len(pc'[j].setting)
                         PROVE  /\ pc'[j].role = "caller" /\ pc'[j].step = "done"
                                /\ Answers(pc[j].setting[k], j)'
                BY <2>3 DEF SettingAnswers, Answers
            <3>1. PICK l \in 1..Len(pc[j].setting) : pc'[j].setting[k] = pc[j].setting[l]
                  <4>1. CASE j = i
                        <5>1. k \in 1..Len(Tail(pc[i].setting))
                              BY <2>2, <4>1
                        <5>2. k + 1 \in 1..Len(pc[i].setting)
                              BY <2>5, <5>1
                        <5> QED BY <2>2, <2>5, <4>1, <5>1, <5>2
                  <4>2. CASE j # i
                        BY <2>2, <4>2 DEF OnlyThis
                  <4> QED BY <4>1, <4>2
            <3> QED BY <2>3, <3>1 DEF KeepsWho, SettingAnswers, Answers
      <2>7. RemoteAnswers'
            <3>1. Answers(Head(pc[i].setting), i)
                  BY <2>5 DEF SettingAnswers
            <3>2. \A j \in Made : j # i => pc'[j].remote = pc[j].remote
                  BY <2>2 DEF OnlyThis
            <3> QED BY <2>2, <2>3, <3>1, <3>2 DEF RemoteAnswers, Answers, KeepsWho
      <2> QED BY <1>0, <2>3, <2>4, <2>6, <2>7, RelayKept, CurrentKept
<1>8. ASSUME NEW i \in Made, NEW s \in States, ConnectionStateChange(i, s) PROVE AnswerInv'
      <2>1. pc[i] \in PeerConnection
            BY StoreTypes
      <2>2. /\ OnlyThis(i) /\ pc'[i].setting = pc[i].setting
            /\ pc'[i].step = pc[i].step /\ pc'[i].remote = pc[i].remote
            BY <1>8, <2>1, ConnectionStateChangeIs DEF PeerConnection
      <2>3. KeepsWho /\ Made' = Made
            BY <2>2, OnlyThisKeeps
      <2>4. UNCHANGED <<relay, current>>
            BY <1>8 DEF ConnectionStateChange
      <2>5. SettingAnswers' /\ RemoteAnswers'
            BY <2>2, <2>3, AnswersKept DEF OnlyThis
      <2> QED BY <1>0, <2>3, <2>4, <2>5, RelayKept, CurrentKept
<1>9. CASE UNCHANGED vars
      BY <1>0, <1>9
         DEF vars, RelayFromOwner, CurrentDialled, SettingAnswers, RemoteAnswers, Answers, Made
<1> QED BY <1>1, <1>2, <1>3, <1>4, <1>5, <1>6, <1>7, <1>8, <1>9 DEF Next

LEMMA AnswerInit == Init => AnswerInv
<1> SUFFICES ASSUME Init PROVE AnswerInv
    OBVIOUS
<1>1. Made = {} /\ pc \in [1..made -> PeerConnection] /\ made \in 0..MaxPcs
      BY CallsAssumption DEF Init, Made, CallsAssumption
<1>2. relay \in [Users -> [Users -> Seq(Message)]]
      BY EmptySeq DEF Init
<1>3. \A p, u \in Users : Len(relay[p][u]) = 0
      BY EmptySeq DEF Init
<1>4. TypeOK
      BY <1>1, <1>2 DEF Init, TypeOK, States
<1> QED BY <1>1, <1>3, <1>4
        DEF Init, AnswerInv, RelayFromOwner, CurrentDialled, SettingAnswers, RemoteAnswers, No

LEMMA AnswerAlways == Spec => []AnswerInv
BY AnswerInit, AnswerStep, PTL DEF Spec

\* The state stays well formed: no action invents a value.
THEOREM CallsTypeCorrect == Spec => []TypeOK
<1>1. AnswerInv => TypeOK
      BY DEF AnswerInv
<1> QED BY <1>1, AnswerAlways, PTL

\* However many calls are started, answered twice, or dialled past each other,
\* and whatever is lost: the answer a call takes is its peer's, to this user.
THEOREM AnswersComeFromTheDialled == Spec => []AnsweredByDialled
<1>1. AnswerInv => AnsweredByDialled
      BY DEF AnswerInv, RemoteAnswers, Answers, AnsweredByDialled
<1> QED BY <1>1, AnswerAlways, PTL

----------------------------------------------------------------------------
(* What the stores and the monitors say.                                   *)

ConnsKept == \A j \in Made : pc'[j].conn = pc[j].conn

LEMMA DescribedKept ==
    ASSUME DescribedFirst, KeepsWho,
           \A j \in Made' :
               \/ pc'[j].remote = No /\ pc'[j].conn = "new"
               \/ j \in Made /\ pc'[j].remote = pc[j].remote /\ pc'[j].conn = pc[j].conn
               \/ pc'[j].step = "done" /\ (pc'[j].conn = "new" \/ pc'[j].remote # No)
    PROVE  DescribedFirst'
BY DEF DescribedFirst, KeepsWho

LEMMA CallersKept ==
    ASSUME CallersHaveCurrent, KeepsWho,
           \A j \in Made : current[pc[j].own].pc # No => current'[pc[j].own].pc # No,
           \A j \in Made' : pc'[j].role = "caller" /\ pc'[j].step = "done" =>
               j \in Made /\ (pc[j].step = "done" \/ current'[pc[j].own].pc # No)
    PROVE  CallersHaveCurrent'
BY DEF CallersHaveCurrent, KeepsWho

LEMMA TimersKept ==
    ASSUME TimersOwn, KeepsWho,
           \A u, p \in Users :
               \/ timers'[u][p] \in {timers[u][p], No}
               \/ /\ timers'[u][p] \in Made
                  /\ pc[timers'[u][p]].own = u /\ pc[timers'[u][p]].peer = p
    PROVE  TimersOwn'
BY DEF TimersOwn, KeepsWho

LEMMA ConnectedKept ==
    ASSUME ConnectedIsReal, KeepsWho, ConnsKept,
           \A u \in Users : room'[u].connected = room[u].connected,
           \A u \in Users : connState'[u] = "connected" =>
               \/ connState[u] = "connected"
               \/ \E j \in Made : pc[j].own = u /\ pc[j].conn = "connected"
    PROVE  ConnectedIsReal'
BY DEF ConnectedIsReal, KeepsWho, ConnsKept

LEMMA MonitorsKept ==
    ASSUME TimersOwn, MonitorEndsWithCall, KeepsWho, ConnsKept,
           \A u, p \in Users :
               \/ timers'[u][p] \in {timers[u][p], No}
               \/ timers'[u][p] \in Made /\ pc[timers'[u][p]].conn = "new",
           \A u \in Users :
               \/ current'[u].pc = current[u].pc
               \/ current'[u].pc \in Made /\ pc[current'[u].pc].conn = "new"
    PROVE  MonitorEndsWithCall'
<1> SUFFICES ASSUME NEW u \in Users, NEW p \in Users, NEW i, i = timers'[u][p],
                    i # No, pc'[i].conn \in {"disconnected", "failed"}
             PROVE  pc'[i].role = "caller" /\ current'[pc'[i].own].pc # i
    BY DEF MonitorEndsWithCall, Superseded
<1>1. i = timers[u][p]
      BY DEF ConnsKept
<1>2. /\ i \in Made /\ pc[i].own = u /\ pc[i].conn \in {"disconnected", "failed"}
      /\ pc'[i].own = u /\ pc'[i].role = pc[i].role
      BY <1>1 DEF TimersOwn, KeepsWho, ConnsKept
<1>3. pc[i].role = "caller" /\ current[u].pc # i
      BY <1>1, <1>2 DEF MonitorEndsWithCall, Superseded
<1>4. current'[u].pc # i
      BY <1>2, <1>3
<1> QED BY <1>2, <1>3, <1>4

\* A step that touches neither the stores nor what a connection has reached.
LEMMA QuietStep ==
    ASSUME StoresInv, KeepsWho, UNCHANGED <<current, room, connState, timers>>,
           \A j \in Made' :
               \/ pc'[j].remote = No /\ pc'[j].conn = "new" /\ pc'[j].step # "done" /\ j \notin Made
               \/ /\ j \in Made /\ pc'[j].remote = pc[j].remote
                  /\ pc'[j].conn = pc[j].conn
                  /\ pc'[j].step = "done" => pc[j].step = "done"
    PROVE  StoresInv'
<1> USE DEF StoresInv
<1>1. ConnsKept
      BY DEF ConnsKept, KeepsWho
<1>2. DescribedFirst'
      BY DescribedKept
<1>3. CallersHaveCurrent'
      BY CallersKept
<1>4. TimersOwn'
      BY TimersKept
<1>5. ConnectedIsReal'
      BY <1>1, ConnectedKept
<1>6. MonitorEndsWithCall'
      BY <1>1, MonitorsKept
<1> QED BY <1>2, <1>3, <1>4, <1>5, <1>6

\* A connection changes its state: its browser's stores and monitor follow.
LEMMA StateChangeStep ==
    ASSUME AnswerInv, StoresInv, NEW i \in Made, NEW s \in States, ConnectionStateChange(i, s)
    PROVE  StoresInv'
<1> DEFINE u == pc[i].own
           p == pc[i].peer
           seen == IF pc[i].role = "caller" THEN current[u].pc ELSE i
<1> USE DEF StoresInv, AnswerInv
<1>1. pc[i] \in PeerConnection /\ u \in Users /\ p \in Users /\ i # No /\ made \in Nat
      <2>1. pc[i] \in PeerConnection /\ pc[i].own \in Users /\ pc[i].peer \in Users
            BY StoreTypes
      <2>2. i # No /\ made \in Nat
            BY MadeIs DEF No
      <2> QED BY <2>1, <2>2
<1>2. /\ OnlyThis(i) /\ pc'[i].conn = s /\ pc'[i].step = pc[i].step
      /\ pc'[i].remote = pc[i].remote
      BY <1>1, ConnectionStateChangeIs DEF PeerConnection
<1>3. KeepsWho /\ Made' = Made /\ (\A j \in Made : j # i => pc'[j] = pc[j])
      BY <1>2, OnlyThisKeeps DEF OnlyThis
<1>4. pc[i].remote # No /\ pc[i].step = "done"
      BY <1>1 DEF ConnectionStateChange, MayBecome, Paired, DescribedFirst
<1>5. seen \in Made /\ pc[seen].own = u /\ seen # No
      <2>1. CASE pc[i].role = "caller"
            <3>1. current[u].pc # No
                  BY <1>4, <2>1 DEF CallersHaveCurrent
            <3> QED BY <1>1, <2>1, <3>1 DEF CurrentDialled
      <2>2. CASE pc[i].role # "caller"
            BY <1>1, <2>2
      <2> QED BY <2>1, <2>2
<1>6. /\ connState' = [connState EXCEPT ![u] = pc'[seen].conn]
      /\ room' = [room EXCEPT ![u].connected = (pc'[seen].conn = "connected")]
      /\ timers' = IF pc'[seen].conn = "connected" THEN timers
                   ELSE [timers EXCEPT ![u][p] = No]
      /\ UNCHANGED current
      BY <1>5 DEF ConnectionStateChange, Notify, SetConnState, ReportConnected, StopMonitor
<1> HIDE DEF seen, u, p
<1>7. DescribedFirst'
      BY <1>2, <1>3, <1>4, DescribedKept
<1>8. CallersHaveCurrent'
      <2>1. \A j \in Made : pc'[j].step = pc[j].step
            BY <1>2, <1>3
      <2> QED BY <1>3, <1>6, <2>1, CallersKept
<1>9. \A v, q \in Users :
          /\ timers'[v][q] \in {timers[v][q], No}
          /\ pc'[seen].conn # "connected" => timers'[u][p] = No
      BY <1>1, <1>6 DEF TypeOK
<1>10. TimersOwn'
      BY <1>3, <1>9, TimersKept
<1>11. ConnectedIsReal'
      <2> SUFFICES ASSUME NEW v \in Users, connState'[v] = "connected" \/ room'[v].connected
                   PROVE  \E j \in Made : pc'[j].own = v /\ pc'[j].conn = "connected"
          BY <1>3 DEF ConnectedIsReal
      <2>1. CASE v = u
            <3>1. pc'[seen].conn = "connected"
                  BY <1>1, <1>6, <2>1 DEF TypeOK
            <3> QED BY <1>3, <1>5, <2>1, <3>1 DEF KeepsWho
      <2>2. CASE v # u
            <3>1. connState[v] = "connected" \/ room[v].connected
                  BY <1>6, <2>2 DEF TypeOK
            <3>2. PICK j \in Made : pc[j].own = v /\ pc[j].conn = "connected"
                  BY <3>1 DEF ConnectedIsReal
            <3>3. j # i
                  BY <2>2, <3>2 DEF u
            <3> QED BY <1>3, <3>2, <3>3
      <2> QED BY <2>1, <2>2
<1>12. MonitorEndsWithCall'
      <2> SUFFICES ASSUME NEW v \in Users, NEW q \in Users, NEW j, j = timers'[v][q],
                          j # No, pc'[j].conn \in {"disconnected", "failed"}
                   PROVE  pc'[j].role = "caller" /\ current'[pc'[j].own].pc # j
          BY DEF MonitorEndsWithCall, Superseded
      <2>1. j = timers[v][q]
            BY <1>9
      <2>2. /\ j \in Made /\ pc[j].own = v /\ pc[j].peer = q
            /\ pc'[j].own = v /\ pc'[j].role = pc[j].role
            BY <1>3, <2>1 DEF TimersOwn, KeepsWho
      <2>3. CASE j # i
            BY <1>3, <1>6, <2>1, <2>2, <2>3 DEF MonitorEndsWithCall, Superseded
      <2>4. CASE j = i
            <3>1. v = u /\ q = p
                  BY <2>2, <2>4 DEF u, p
            <3>2. pc'[seen].conn = "connected"
                  BY <1>9, <3>1
            <3>3. seen # i
                  BY <2>4, <3>2
            <3>4. pc[i].role = "caller" /\ current[u].pc # i
                  BY <3>3 DEF seen
            <3> QED BY <1>6, <2>2, <2>4, <3>1, <3>4
      <2> QED BY <2>3, <2>4
<1> QED BY <1>7, <1>8, <1>10, <1>11, <1>12

\* Opening the room sets one timer and leaves isConnected alone.
LEMMA OpensRoom ==
    ASSUME TypeOK, NEW i \in Made, OpenRoom(i)
    PROVE  /\ \A v, q \in Users :
                  \/ timers'[v][q] = timers[v][q]
                  \/ timers'[v][q] = i /\ v = pc[i].own /\ q = pc[i].peer
           /\ \A v \in Users : room'[v].connected = room[v].connected
<1> DEFINE u == pc[i].own
           p == pc[i].peer
<1>1. u \in Users /\ p \in Users
      BY StoreTypes
<1>2. /\ timers' = [timers EXCEPT ![u][p] = i]
      /\ room' = [room EXCEPT ![u].id = p, ![u].pc = i]
      BY DEF OpenRoom, StartMonitor
<1> HIDE DEF u, p
<1>3. \A v, q \in Users : timers'[v][q] = timers[v][q] \/ (timers'[v][q] = i /\ v = u /\ q = p)
      BY <1>1, <1>2 DEF TypeOK
<1>4. \A v \in Users : room'[v].connected = room[v].connected
      BY <1>1, <1>2 DEF TypeOK
<1> QED BY <1>3, <1>4 DEF u, p

\* Each step preserves what the stores say.
LEMMA StoresStep == AnswerInv /\ StoresInv /\ [Next]_vars => StoresInv'
<1> SUFFICES ASSUME AnswerInv, StoresInv, [Next]_vars PROVE StoresInv'
    OBVIOUS
<1> USE DEF AnswerInv
<1>1. ASSUME NEW u \in Users, NEW p \in Users, Click(u, p) PROVE StoresInv'
      <2>1. CASE StartOutgoingCall(u, p) \/ AcceptCallRequest(u, p)
            <3>1. PICK role \in {"caller", "callee"}, o \in Ids \cup {No} : NewPc(u, p, role, o)
                  BY <2>1 DEF StartOutgoingCall, AcceptCallRequest, TypeOK
            <3>2. /\ Made' = Made \cup {made'} /\ made' \notin Made
                  /\ \A j \in Made : pc'[j] = pc[j]
                  /\ pc'[made'].remote = No /\ pc'[made'].conn = "new"
                  /\ pc'[made'].step = "media"
                  BY <3>1, Adds
            <3>3. KeepsWho
                  BY <3>2 DEF KeepsWho
            <3>4. UNCHANGED <<current, room, connState, timers>>
                  BY <2>1 DEF StartOutgoingCall, AcceptCallRequest
            <3> QED BY <3>2, <3>3, <3>4, QuietStep
      <2>2. CASE DeclineCallRequest(u, p)
            <3>1. UNCHANGED <<pc, current, room, connState, timers>>
                  BY <2>2 DEF DeclineCallRequest
            <3>2. KeepsWho /\ Made' = Made
                  BY <3>1 DEF KeepsWho, Made
            <3> QED BY <3>1, <3>2, QuietStep
      <2> QED BY <1>1, <2>1, <2>2 DEF Click
<1>2. ASSUME NEW p \in Users, NEW u \in Users, Receive(p, u) \/ Lose(p, u) PROVE StoresInv'
      <2>1. UNCHANGED <<current, room, connState, timers>>
            BY <1>2 DEF Receive, ReceiveOffer, ReceiveAnswer, ReceiveIce, Lose
      <2>2. CASE pc' = pc
            <3>1. KeepsWho /\ Made' = Made
                  BY <2>2 DEF KeepsWho, Made
            <3> QED BY <2>1, <2>2, <3>1, QuietStep
      <2>3. CASE pc' # pc
            <3> DEFINE i == current[u].pc
            <3>1. ReceiveAnswer(p, u) \/ ReceiveIce(p, u)
                  BY <1>2, <2>3 DEF Receive, ReceiveOffer, Lose
            <3>2. /\ i \in Made /\ OnlyThis(i)
                  /\ \/ pc'[i] = [pc[i] EXCEPT !.setting = Append(@, Head(relay[p][u]).pc)]
                     \/ pc'[i] = [pc[i] EXCEPT !.ice = @ \cup {Head(relay[p][u]).pc}]
                  BY <2>3, <3>1, ReceiveAnswerIs, ReceiveIceIs
            <3>3. pc[i] \in PeerConnection
                  BY <3>2, StoreTypes
            <3>4. /\ pc'[i].remote = pc[i].remote /\ pc'[i].conn = pc[i].conn
                  /\ pc'[i].step = pc[i].step
                  BY <3>2, <3>3 DEF PeerConnection
            <3>5. KeepsWho /\ Made' = Made
                  BY <3>2, <3>4, OnlyThisKeeps
            <3>6. \A j \in Made : j # i => pc'[j] = pc[j]
                  BY <3>2 DEF OnlyThis
            <3> QED BY <2>1, <3>2, <3>4, <3>5, <3>6, QuietStep
      <2> QED BY <2>2, <2>3
<1>3. ASSUME NEW i \in Made, MediaDenied(i) \/ SendIce(i) PROVE StoresInv'
      <2>1. pc[i] \in PeerConnection
            BY StoreTypes
      <2>2. /\ OnlyThis(i) /\ pc'[i].remote = pc[i].remote /\ pc'[i].conn = pc[i].conn
            /\ (pc[i].step = "done") <=> (pc'[i].step = "done")
            <3>1. CASE MediaDenied(i)
                  <4>1. /\ OnlyThis(i) /\ pc[i].step = "media"
                        /\ pc'[i] = [pc[i] EXCEPT !.step = "failed"]
                        BY <3>1, MediaDeniedIs DEF MediaDenied
                  <4> QED BY <2>1, <4>1 DEF PeerConnection
            <3>2. CASE SendIce(i)
                  BY <2>1, <3>2, SendIceIs DEF PeerConnection
            <3> QED BY <1>3, <3>1, <3>2
      <2>3. KeepsWho /\ Made' = Made /\ (\A j \in Made : j # i => pc'[j] = pc[j])
            BY <2>2, OnlyThisKeeps DEF OnlyThis
      <2>4. UNCHANGED <<current, room, connState, timers>>
            BY <1>3 DEF MediaDenied, SendIce
      <2> QED BY <2>2, <2>3, <2>4, QuietStep
<1>4. ASSUME NEW i \in Made, MediaGranted(i) PROVE StoresInv'
      <2> DEFINE u == pc[i].own
                 p == pc[i].peer
      <2>1. pc[i] \in PeerConnection /\ u \in Users /\ p \in Users /\ i \in Ids
            BY StoreTypes
      <2>2. /\ OnlyThis(i) /\ pc'[i].remote = pc[i].remote /\ pc'[i].conn = pc[i].conn
            /\ pc'[i].step = "describe" /\ pc[i].step = "media"
            <3>1. /\ OnlyThis(i) /\ pc[i].step = "media"
                  /\ pc'[i] = [pc[i] EXCEPT !.step = "describe"]
                  BY <1>4, MediaGrantedIs DEF MediaGranted
            <3> QED BY <2>1, <3>1 DEF PeerConnection
      <2>3. KeepsWho /\ Made' = Made /\ (\A j \in Made : j # i => pc'[j] = pc[j])
            BY <2>2, OnlyThisKeeps DEF OnlyThis
      <2>4. pc[i].conn = "new"
            BY <2>2 DEF StoresInv, DescribedFirst
      <2>5. UNCHANGED <<current, connState>>
            BY <1>4 DEF MediaGranted
      <2>6. /\ \A v, q \in Users :
                   \/ timers'[v][q] = timers[v][q]
                   \/ timers'[v][q] = i /\ v = u /\ q = p
            /\ \A v \in Users : room'[v].connected = room[v].connected
            <3>1. OpenRoom(i) \/ (room' = room /\ timers' = timers)
                  BY <1>4 DEF MediaGranted
            <3>2. CASE OpenRoom(i)
                  BY <3>2, OpensRoom
            <3>3. CASE room' = room /\ timers' = timers
                  BY <3>3
            <3> QED BY <3>1, <3>2, <3>3
      <2>7. ConnsKept /\ DescribedFirst'
            BY <2>2, <2>3, DescribedKept DEF ConnsKept, StoresInv
      <2>8. CallersHaveCurrent'
            BY <2>2, <2>3, <2>5, CallersKept DEF StoresInv
      <2>9. TimersOwn'
            BY <2>3, <2>6, TimersKept DEF StoresInv
      <2>10. ConnectedIsReal'
            BY <2>3, <2>5, <2>6, <2>7, ConnectedKept DEF StoresInv
      <2>11. MonitorEndsWithCall'
            BY <2>3, <2>4, <2>5, <2>6, <2>7, MonitorsKept DEF StoresInv
      <2> QED BY <2>7, <2>8, <2>9, <2>10, <2>11 DEF StoresInv
<1>5. ASSUME NEW i \in Made, SendOffer(i) PROVE StoresInv'
      <2> DEFINE u == pc[i].own
                 p == pc[i].peer
      <2>1. pc[i] \in PeerConnection /\ u \in Users /\ p \in Users /\ i \in Ids
            BY StoreTypes
      <2>2. /\ OnlyThis(i) /\ pc'[i].remote = pc[i].remote /\ pc'[i].conn = pc[i].conn
            /\ pc'[i].step = "done" /\ pc[i].step = "describe"
            <3>1. /\ OnlyThis(i) /\ pc[i].step = "describe"
                  /\ pc'[i] = [pc[i] EXCEPT !.step = "done", !.signaling = "have-local-offer"]
                  BY <1>5, SendOfferIs DEF SendOffer
            <3> QED BY <2>1, <3>1 DEF PeerConnection
      <2>3. KeepsWho /\ Made' = Made /\ (\A j \in Made : j # i => pc'[j] = pc[j])
            BY <2>2, OnlyThisKeeps DEF OnlyThis
      <2>4. pc[i].conn = "new" /\ i # No
            BY <2>1, <2>2 DEF StoresInv, DescribedFirst, Ids, No
      <2>5. /\ current'[u].pc = i
            /\ \A v \in Users : v # u => current'[v].pc = current[v].pc
            BY <1>5, <2>1 DEF SendOffer, TypeOK
      <2>6. /\ \A v, q \in Users :
                   \/ timers'[v][q] = timers[v][q]
                   \/ timers'[v][q] = i /\ v = u /\ q = p
            /\ \A v \in Users : room'[v].connected = room[v].connected
            <3>1. OpenRoom(i)
                  BY <1>5 DEF SendOffer
            <3> QED BY <3>1, OpensRoom
      <2>7. \A v \in Users : connState'[v] = connState[v] \/ connState'[v] = "new"
            BY <1>5, <2>1, <2>2, <2>4 DEF SendOffer, Notify, SetConnState, TypeOK
      <2>8. ConnsKept /\ DescribedFirst'
            BY <2>2, <2>3, DescribedKept DEF ConnsKept, StoresInv
      <2>9. CallersHaveCurrent'
            <3>1. \A j \in Made : current[pc[j].own].pc # No => current'[pc[j].own].pc # No
                  BY <2>4, <2>5, StoreTypes
            <3> QED BY <2>3, <2>4, <2>5, <3>1, CallersKept DEF StoresInv
      <2>10. TimersOwn'
            BY <2>3, <2>6, TimersKept DEF StoresInv
      <2>11. ConnectedIsReal'
            BY <2>3, <2>6, <2>7, <2>8, ConnectedKept DEF StoresInv
      <2>12. MonitorEndsWithCall'
            BY <2>3, <2>4, <2>5, <2>6, <2>8, MonitorsKept DEF StoresInv
      <2> QED BY <2>8, <2>9, <2>10, <2>11, <2>12 DEF StoresInv
<1>6. ASSUME NEW i \in Made, SendAnswer(i) PROVE StoresInv'
      <2>1. pc[i] \in PeerConnection
            BY StoreTypes
      <2>2. /\ OnlyThis(i) /\ pc'[i].conn = pc[i].conn /\ pc'[i].step = "done"
            /\ pc[i].step = "describe" /\ pc[i].role = "callee"
            <3>1. /\ OnlyThis(i) /\ pc[i].step = "describe" /\ pc[i].role = "callee"
                  /\ pc'[i] = [pc[i] EXCEPT !.step = "done", !.remote = pc[i].offer]
                  BY <1>6, SendAnswerIs DEF SendAnswer
            <3> QED BY <2>1, <3>1 DEF PeerConnection
      <2>3. KeepsWho /\ Made' = Made /\ (\A j \in Made : j # i => pc'[j] = pc[j])
            BY <2>2, OnlyThisKeeps DEF OnlyThis
      <2>4. pc[i].conn = "new"
            BY <2>2 DEF StoresInv, DescribedFirst
      <2>5. UNCHANGED <<current, room, connState, timers>>
            BY <1>6 DEF SendAnswer
      <2>6. ConnsKept /\ DescribedFirst'
            BY <2>2, <2>3, <2>4, DescribedKept DEF ConnsKept, StoresInv
      <2>7. CallersHaveCurrent'
            BY <2>2, <2>3, <2>5, CallersKept DEF StoresInv, KeepsWho
      <2>8. TimersOwn' /\ ConnectedIsReal' /\ MonitorEndsWithCall'
            BY <2>3, <2>5, <2>6, TimersKept, ConnectedKept, MonitorsKept DEF StoresInv
      <2> QED BY <2>6, <2>7, <2>8 DEF StoresInv
<1>7. ASSUME NEW i \in Made, AnswerSet(i) PROVE StoresInv'
      <2> DEFINE u == pc[i].own
                 c == current[u].pc
      <2>1. pc[i] \in PeerConnection /\ u \in Users /\ pc[i].setting \in Seq(Ids)
            BY StoreTypes DEF PeerConnection
      <2>2. /\ OnlyThis(i) /\ pc'[i].conn = pc[i].conn /\ pc'[i].step = pc[i].step
            /\ pc'[i].remote \in {pc[i].remote, Head(pc[i].setting)}
            /\ pc[i].setting # <<>>
            BY <1>7, <2>1, AnswerSetIs DEF PeerConnection
      <2>3. KeepsWho /\ Made' = Made /\ (\A j \in Made : j # i => pc'[j] = pc[j])
            BY <2>2, OnlyThisKeeps DEF OnlyThis
      <2>4. pc[i].step = "done" /\ Head(pc[i].setting) # No
            <3>1. Head(pc[i].setting) \in Ids /\ 1 \in 1..Len(pc[i].setting)
                  BY <2>1, <2>2, HeadTailProperties, EmptySeq
            <3> QED BY <3>1 DEF SettingAnswers, Ids, No
      <2>5. UNCHANGED <<current, room, timers>>
            BY <1>7 DEF AnswerSet
      <2>6. \A v \in Users : connState'[v] = "connected" =>
                \/ connState[v] = "connected"
                \/ \E j \in Made : pc[j].own = v /\ pc[j].conn = "connected"
            <3>1. CASE Notify(u, c, pc)
                  <4>1. c # No => c \in Made /\ pc[c].own = u
                        BY <2>1 DEF CurrentDialled
                  <4>2. connState' = [connState EXCEPT ![u] = IF c = No THEN "none" ELSE pc[c].conn]
                        BY <3>1 DEF Notify, SetConnState
                  <4> HIDE DEF c, u
                  <4> QED BY <4>1, <4>2 DEF TypeOK
            <3>2. CASE UNCHANGED connState
                  BY <3>2
            <3> QED BY <1>7, <3>1, <3>2, AnswerSetIs
      <2>7. ConnsKept
            BY <2>2, <2>3 DEF ConnsKept
      <2>8. DescribedFirst'
            <3>1. pc'[i].conn = "new" \/ pc'[i].remote # No
                  BY <2>2, <2>4 DEF StoresInv, DescribedFirst
            <3> QED BY <2>2, <2>3, <2>4, <3>1, DescribedKept DEF StoresInv
      <2>9. CallersHaveCurrent'
            BY <2>2, <2>3, <2>5, CallersKept DEF StoresInv
      <2>10. TimersOwn' /\ MonitorEndsWithCall'
            BY <2>3, <2>5, <2>7, TimersKept, MonitorsKept DEF StoresInv
      <2>11. ConnectedIsReal'
            BY <2>3, <2>5, <2>6, <2>7, ConnectedKept DEF StoresInv
      <2> QED BY <2>8, <2>9, <2>10, <2>11 DEF StoresInv
<1>8. ASSUME NEW i \in Made, NEW s \in States, ConnectionStateChange(i, s) PROVE StoresInv'
      BY <1>8, StateChangeStep
<1>9. CASE UNCHANGED vars
      BY <1>9 DEF vars, StoresInv, DescribedFirst, CallersHaveCurrent, TimersOwn,
                  ConnectedIsReal, MonitorEndsWithCall, Superseded, Made
<1> QED BY <1>1, <1>2, <1>3, <1>4, <1>5, <1>6, <1>7, <1>8, <1>9 DEF Next

LEMMA StoresInit == Init => StoresInv
<1> SUFFICES ASSUME Init PROVE StoresInv
    OBVIOUS
<1>1. Made = {}
      BY DEF Init, Made
<1> QED BY <1>1 DEF Init, StoresInv, DescribedFirst, CallersHaveCurrent, TimersOwn,
                    ConnectedIsReal, MonitorEndsWithCall, Superseded, No

LEMMA StoresAlways == Spec => []StoresInv
BY AnswerInit, AnswerStep, StoresInit, StoresStep, PTL DEF Spec

\* Whatever event of whatever call comes last, "connected" in the ConnState
\* store or in the chat room has a connection of that browser behind it.
THEOREM ConnectedHasAConnection == Spec => []ConnectedIsReal
<1>1. StoresInv => ConnectedIsReal
      BY DEF StoresInv
<1> QED BY <1>1, StoresAlways, PTL

\* For any number of calls and redials, a lost connection leaves its monitor
\* running only when the user dialled somebody else since.
THEOREM MonitorsEnd == Spec => []MonitorEndsWithCall
<1>1. StoresInv => MonitorEndsWithCall
      BY DEF StoresInv
<1> QED BY <1>1, StoresAlways, PTL

\* Only a decline or an answer to that caller takes an offer out of the store,
\* however the acceptances of a user overlap and fail.
THEOREM OffersWait == Spec => OfferKeptUntilAnswered
<1> DEFINE Waits == \A u, p \in Users :
        offers[u][p] # No /\ offers'[u][p] = No =>
            \/ UNCHANGED pc
            \/ \E i \in Made : /\ pc[i].own = u /\ pc[i].peer = p
                               /\ pc[i].step # "done" /\ pc'[i].step = "done"
<1>1. AnswerInv /\ [Next]_vars => [Waits]_vars
      <2> SUFFICES ASSUME AnswerInv, Next PROVE Waits
          OBVIOUS
      <2>1. CASE UNCHANGED offers
            BY <2>1
      <2>2. CASE UNCHANGED pc
            BY <2>2
      <2>3. ASSUME NEW i \in Made, SendAnswer(i) PROVE Waits
            <3> SUFFICES ASSUME NEW u \in Users, NEW p \in Users,
                                offers[u][p] # No, offers'[u][p] = No
                         PROVE  /\ pc[i].own = u /\ pc[i].peer = p
                                /\ pc[i].step # "done" /\ pc'[i].step = "done"
                OBVIOUS
            <3>1. TypeOK /\ pc[i] \in PeerConnection
                  BY StoreTypes DEF AnswerInv
            <3>2. /\ pc'[i] = [pc[i] EXCEPT !.step = "done", !.remote = pc[i].offer]
                  /\ pc[i].step = "describe"
                  BY <2>3, <3>1, SendAnswerIs DEF SendAnswer
            <3>3. pc'[i].step = "done"
                  BY <3>1, <3>2 DEF PeerConnection
            <3>4. offers' = [offers EXCEPT ![pc[i].own][pc[i].peer] = No]
                  BY <2>3 DEF SendAnswer, RemoveOffer
            <3>5. pc[i].own = u /\ pc[i].peer = p
                  BY <3>1, <3>4 DEF TypeOK
            <3> QED BY <3>2, <3>3, <3>5
      <2>4. UNCHANGED offers \/ UNCHANGED pc \/ \E i \in Made : SendAnswer(i)
            BY DEF Next, Click, Receive, StartOutgoingCall, AcceptCallRequest,
                   DeclineCallRequest, ReceiveOffer, ReceiveAnswer, ReceiveIce, Lose,
                   MediaDenied, MediaGranted, SendOffer, AnswerSet, SendIce,
                   ConnectionStateChange
      <2> QED BY <2>1, <2>2, <2>3, <2>4
<1> QED BY <1>1, AnswerAlways, PTL DEF Spec, OfferKeptUntilAnswered

----------------------------------------------------------------------------
(* Calls implements Pairing.                                               *)

\* Connection o is a call of p to u.
CallFrom(o, p, u) ==
    /\ o \in Made
    /\ pc[o].role = "caller" /\ pc[o].own = p /\ pc[o].peer = u

\* The offer store holds calls, and what is accepted is one of them.
OffersAreCalls ==
    \A u, p \in Users : offers[u][p] # No => CallFrom(offers[u][p], p, u)

AcceptedAreCalls ==
    \A i \in Made : pc[i].role = "callee" =>
        CallFrom(pc[i].offer, pc[i].peer, pc[i].own)

\* Callers send the offers, callees the answers.
SentByRole ==
    \A p, u \in Users : \A k \in 1..Len(relay[p][u]) :
        /\ relay[p][u][k].type = "offer" => pc[relay[p][u][k].pc].role = "caller"
        /\ relay[p][u][k].type = "answer" => pc[relay[p][u][k].pc].role = "callee"

\* The answers a caller sets are callees'.
SettingCallees ==
    \A i \in Made : \A k \in 1..Len(pc[i].setting) : pc[pc[i].setting[k]].role = "callee"

\* A caller takes no answer after the first; a callee's description is the
\* offer it accepted.
RemoteSettles ==
    \A i \in Made : pc[i].remote # No =>
        \/ pc[i].role = "caller" /\ pc[i].signaling = "stable"
        \/ pc[i].role = "callee" /\ pc[i].remote = pc[i].offer

PairInv ==
    /\ OffersAreCalls
    /\ AcceptedAreCalls
    /\ SentByRole
    /\ SettingCallees
    /\ RemoteSettles

LEMMA OffersKept ==
    ASSUME OffersAreCalls, KeepsWho,
           \A u, p \in Users : \/ offers'[u][p] \in {offers[u][p], No}
                               \/ CallFrom(offers'[u][p], p, u)
    PROVE  OffersAreCalls'
BY DEF OffersAreCalls, CallFrom, KeepsWho

LEMMA AcceptedKept ==
    ASSUME AcceptedAreCalls, KeepsWho,
           \A j \in Made' \ Made : pc'[j].role = "callee" =>
               CallFrom(pc'[j].offer, pc'[j].peer, pc'[j].own)
    PROVE  AcceptedAreCalls'
BY DEF AcceptedAreCalls, CallFrom, KeepsWho

LEMMA SentKept ==
    ASSUME RelayFromOwner, SentByRole, KeepsWho,
           \A q, v \in Users : \A k \in 1..Len(relay'[q][v]) :
               \/ \E l \in 1..Len(relay[q][v]) : relay'[q][v][k] = relay[q][v][l]
               \/ /\ relay'[q][v][k].pc \in Made
                  /\ relay'[q][v][k].type = "offer" =>
                         pc[relay'[q][v][k].pc].role = "caller"
                  /\ relay'[q][v][k].type = "answer" =>
                         pc[relay'[q][v][k].pc].role = "callee"
    PROVE  SentByRole'
<1> SUFFICES ASSUME NEW q \in Users, NEW v \in Users, NEW k \in 1..Len(relay'[q][v])
             PROVE  LET m == relay'[q][v][k] IN
                    /\ m.type = "offer" => pc'[m.pc].role = "caller"
                    /\ m.type = "answer" => pc'[m.pc].role = "callee"
    BY DEF SentByRole
<1> DEFINE m == relay'[q][v][k]
<1>1. /\ m.pc \in Made
      /\ m.type = "offer" => pc[m.pc].role = "caller"
      /\ m.type = "answer" => pc[m.pc].role = "callee"
      <2>1. CASE \E l \in 1..Len(relay[q][v]) : m = relay[q][v][l]
            <3>1. PICK l \in 1..Len(relay[q][v]) : m = relay[q][v][l]
                  BY <2>1
            <3> HIDE DEF m
            <3> QED BY <3>1 DEF RelayFromOwner, SentByRole
      <2> QED BY <2>1
<1> HIDE DEF m
<1>2. /\ m.type = "offer" => pc'[m.pc].role = "caller"
      /\ m.type = "answer" => pc'[m.pc].role = "callee"
      BY <1>1 DEF KeepsWho
<1> QED BY <1>2 DEF m

\* What a step does to the answers being set, connection by connection.
LEMMA SettingKept ==
    ASSUME SettingAnswers, SettingCallees, KeepsWho,
           \A j \in Made' : \A k \in 1..Len(pc'[j].setting) :
               \/ j \in Made /\ \E l \in 1..Len(pc[j].setting) : pc'[j].setting[k] = pc[j].setting[l]
               \/ pc'[j].setting[k] \in Made /\ pc[pc'[j].setting[k]].role = "callee"
    PROVE  SettingCallees'
<1> SUFFICES ASSUME NEW j \in Made', NEW k \in 1..Len(pc'[j].setting)
             PROVE  pc'[pc'[j].setting[k]].role = "callee"
    BY DEF SettingCallees
<1>1. pc'[j].setting[k] \in Made /\ pc[pc'[j].setting[k]].role = "callee"
      BY DEF SettingAnswers, SettingCallees, Answers
<1> QED BY <1>1 DEF KeepsWho

LEMMA RemoteKept ==
    ASSUME RemoteSettles, KeepsWho,
           \A j \in Made' : \/ pc'[j].remote = No
                            \/ pc'[j].role = "caller" /\ pc'[j].signaling = "stable"
                            \/ pc'[j].role = "callee" /\ pc'[j].remote = pc'[j].offer
                            \/ j \in Made /\ pc'[j].remote = pc[j].remote
                               /\ pc'[j].signaling = pc[j].signaling
    PROVE  RemoteSettles'
BY DEF RemoteSettles, KeepsWho

\* The view Pairing has of the connections.
LEMMA EndsAre ==
    /\ DOMAIN Ends = Made
    /\ \A i \in Made : /\ Ends[i].own = pc[i].own /\ Ends[i].peer = pc[i].peer
                       /\ Ends[i].role = pc[i].role /\ Ends[i].with = pc[i].remote
BY DEF Ends

\* A step that leaves the descriptions alone, and what is connected, is none
\* of Pairing's.
LEMMA ViewStutters ==
    ASSUME Made' = Made,
           \A i \in Made : /\ pc'[i].own = pc[i].own /\ pc'[i].peer = pc[i].peer
                           /\ pc'[i].role = pc[i].role /\ pc'[i].remote = pc[i].remote
                           /\ pc'[i].conn = pc[i].conn
    PROVE  Ends' = Ends
BY DEF Ends

EndOf(i) == [own |-> pc[i].own, peer |-> pc[i].peer, role |-> pc[i].role,
             with |-> pc[i].remote, up |-> pc[i].conn = "connected"]

\* A step on one connection changes the view of that one.
LEMMA ViewChanges ==
    ASSUME NEW i \in Made, OnlyThis(i)
    PROVE  Ends' = [Ends EXCEPT ![i] = EndOf(i)'] /\ Ends[i] = EndOf(i)
<1>1. Made' = Made /\ \A j \in Made : j # i => pc'[j] = pc[j]
      BY DEF OnlyThis
<1> QED BY <1>1 DEF Ends, EndOf

\* Replacing a field of such a record.
LEMMA EndFields ==
    ASSUME NEW a, NEW b, NEW c, NEW d, NEW e, NEW x
    PROVE  /\ [[own |-> a, peer |-> b, role |-> c, with |-> d, up |-> e] EXCEPT !.with = x]
              = [own |-> a, peer |-> b, role |-> c, with |-> x, up |-> e]
           /\ [[own |-> a, peer |-> b, role |-> c, with |-> d, up |-> e] EXCEPT !.up = x]
              = [own |-> a, peer |-> b, role |-> c, with |-> d, up |-> x]
OBVIOUS

\* Taking a description is Pairing's Describe.
LEMMA ViewDescribes ==
    ASSUME NEW i \in Made, OnlyThis(i), NEW j \in Made, pc[i].remote = No,
           pc'[i].remote = j, pc'[i].conn = pc[i].conn, Answers(j, i), pc[j].role # pc[i].role
    PROVE  Pair!Describe(i, j)
<1>1. Ends' = [Ends EXCEPT ![i] = EndOf(i)'] /\ Ends[i] = EndOf(i)
      BY ViewChanges
<1>2. EndOf(i)' = [own |-> pc[i].own, peer |-> pc[i].peer, role |-> pc[i].role,
                   with |-> j, up |-> pc[i].conn = "connected"]
      BY DEF EndOf, OnlyThis
<1>3. EndOf(i)' = [EndOf(i) EXCEPT !.with = j]
      BY <1>2, EndFields DEF EndOf
<1>4. Ends' = [Ends EXCEPT ![i].with = j]
      BY <1>1, <1>3
<1>5. Ends[i].with = Pair!No /\ Pair!Opposite(i, j)
      BY EndsAre DEF Answers, Pair!Opposite, Pair!No, No
<1> QED BY <1>4, <1>5 DEF Pair!Describe

\* A change of the connection's state is Pairing's ComeUp or GoDown.
LEMMA ViewComesUp ==
    ASSUME NEW i \in Made, OnlyThis(i), pc'[i].remote = pc[i].remote,
           pc'[i].conn = "connected" => Paired(i) /\ pc[i].remote \in Made
    PROVE  Pair!ComeUp(i) \/ Pair!GoDown(i)
<1>1. Ends' = [Ends EXCEPT ![i] = EndOf(i)'] /\ Ends[i] = EndOf(i)
      BY ViewChanges
<1>2. EndOf(i)' = [own |-> pc[i].own, peer |-> pc[i].peer, role |-> pc[i].role,
                   with |-> pc[i].remote, up |-> pc'[i].conn = "connected"]
      BY DEF EndOf, OnlyThis
<1>3. EndOf(i)' = [EndOf(i) EXCEPT !.up = (pc'[i].conn = "connected")]
      BY <1>2, EndFields DEF EndOf
<1>4. Ends' = [Ends EXCEPT ![i].up = (pc'[i].conn = "connected")]
      BY <1>1, <1>3
<1>5. CASE pc'[i].conn = "connected"
      <2>1. Pair!Paired(i)
            BY <1>5, EndsAre DEF Paired, Pair!Paired
      <2>2. Ends' = [Ends EXCEPT ![i].up = TRUE]
            BY <1>4, <1>5
      <2> QED BY <2>1, <2>2 DEF Pair!ComeUp
<1>6. CASE pc'[i].conn # "connected"
      <2>1. (pc'[i].conn = "connected") = FALSE
            BY <1>6
      <2>2. Ends' = [Ends EXCEPT ![i].up = FALSE]
            BY <1>4, <2>1
      <2> QED BY <2>2 DEF Pair!GoDown
<1> QED BY <1>5, <1>6

\* A new connection is Pairing's Make.
LEMMA ViewMakes ==
    ASSUME TypeOK, NEW u \in Users, NEW p \in Users, NEW role \in {"caller", "callee"},
           NEW o \in Ids \cup {No}, NewPc(u, p, role, o)
    PROVE  Pair!Make(u, p, role)
<1> DEFINE new == [own |-> u, peer |-> p, role |-> role, with |-> Pair!No, up |-> FALSE]
           S == {Ends[j] : j \in Made}
<1>1. Made = 1..made /\ made \in Nat
      BY MadeIs
<1>2. Ends \in Seq(S) /\ Len(Ends) = made
      <2>1. Ends \in [1..made -> S]
            BY <1>1, EndsAre DEF Ends
      <2>2. Ends \in Seq(S)
            BY <1>1, <2>1, FunctionIsSeq
      <2> QED BY <1>1, <2>1, <2>2, LenProperties
<1>3. /\ Made' = 1..made + 1 /\ \A j \in Made : pc'[j] = pc[j]
      /\ pc'[made + 1].own = u /\ pc'[made + 1].peer = p /\ pc'[made + 1].role = role
      /\ pc'[made + 1].remote = No /\ pc'[made + 1].conn = "new"
      <2>1. /\ made' = made + 1 /\ pc' \in [1..made' -> PeerConnection]
            /\ \A j \in Made : pc'[j] = pc[j]
            /\ pc'[made'].own = u /\ pc'[made'].peer = p /\ pc'[made'].role = role
            /\ pc'[made'].remote = No /\ pc'[made'].conn = "new"
            BY Adds
      <2>2. Made' = 1..made'
            BY <2>1 DEF Made
      <2> QED BY <2>1, <2>2
<1>4. Ends' = [j \in 1..made + 1 |-> IF j \in 1..made THEN Ends[j] ELSE new]
      <2>1. ASSUME NEW j \in 1..made PROVE EndOf(j)' = Ends[j]
            BY <1>1, <1>3, <2>1 DEF EndOf, Ends
      <2>2. ASSUME NEW j, j = made + 1 PROVE EndOf(j)' = new
            BY <1>3, <2>2 DEF EndOf, Pair!No, No
      <2>3. Ends' = [j \in 1..made + 1 |-> EndOf(j)']
            BY <1>3 DEF Ends, EndOf
      <2> HIDE DEF new
      <2>4. \A j \in 1..made + 1 : j \in 1..made \/ (j = made + 1 /\ j \notin 1..made)
            BY <1>1
      <2> QED BY <2>1, <2>2, <2>3, <2>4
<1>5. Append(Ends, new) = [j \in 1..made + 1 |-> IF j \in 1..made THEN Ends[j] ELSE new]
      <2> HIDE DEF new, S
      <2>1. Ends \in Seq(S \cup {new}) /\ new \in S \cup {new}
            <3>1. DOMAIN Ends = 1..made /\ \A j \in 1..made : Ends[j] \in S
                  BY <1>1, EndsAre DEF S
            <3>2. Ends \in [1..made -> S \cup {new}]
                  BY <1>1, <3>1 DEF Ends
            <3> QED BY <1>1, <3>2, FunctionIsSeq
      <2>2. /\ Append(Ends, new) \in Seq(S \cup {new})
            /\ Len(Append(Ends, new)) = made + 1
            /\ \A j \in 1..made : Append(Ends, new)[j] = Ends[j]
            /\ Append(Ends, new)[made + 1] = new
            BY <1>2, <2>1, AppendProperties
      <2>3. Append(Ends, new) \in [1..made + 1 -> S \cup {new}]
            BY <2>2, LenProperties
      <2>4. \A j \in 1..made + 1 : j \in 1..made \/ (j = made + 1 /\ j \notin 1..made)
            BY <1>1
      <2> QED BY <2>2, <2>3, <2>4
<1> QED BY <1>4, <1>5 DEF Pair!Make

\* Pairing's next step, from the step of one connection.
LEMMA PairNext ==
    ASSUME \/ Ends' = Ends
           \/ \E u, p \in Users, role \in {"caller", "callee"} : Pair!Make(u, p, role)
           \/ \E i, j \in Made : Pair!Describe(i, j)
           \/ \E i \in Made : Pair!ComeUp(i) \/ Pair!GoDown(i)
    PROVE  [Pair!Next]_Ends
<1>1. DOMAIN Ends = Made
      BY EndsAre
<1> QED BY <1>1 DEF Pair!Next, Pair!Roles

\* A step that describes no connection and makes none.
LEMMA UndescribedStep ==
    ASSUME PairInv, AnswerInv, NEW i \in Made, OnlyThis(i), KeepsWho,
           pc'[i].setting = pc[i].setting, pc'[i].remote = pc[i].remote,
           pc'[i].signaling = pc[i].signaling \/ pc[i].remote = No
    PROVE  AcceptedAreCalls' /\ SettingCallees' /\ RemoteSettles'
<1> USE DEF PairInv, AnswerInv
<1>1. Made' = Made /\ \A j \in Made : j # i => pc'[j] = pc[j]
      BY DEF OnlyThis
<1>2. AcceptedAreCalls'
      BY <1>1, AcceptedKept
<1>3. \A j \in Made : pc'[j].setting = pc[j].setting
      BY <1>1
<1>4. SettingCallees'
      BY <1>1, <1>3, SettingKept
<1>5. RemoteSettles'
      BY <1>1, RemoteKept
<1> QED BY <1>2, <1>4, <1>5

\* Posting keeps the roles of the senders.
LEMMA PostKeeps ==
    ASSUME PairInv, AnswerInv, KeepsWho, NEW i \in Made,
           NEW type \in {"offer", "answer", "ice"}, Post(pc[i].own, pc[i].peer, type, i),
           type = "offer" => pc[i].role = "caller", type = "answer" => pc[i].role = "callee"
    PROVE  SentByRole'
<1> USE DEF PairInv, AnswerInv
<1>1. pc[i].own \in Users /\ pc[i].peer \in Users /\ i \in Ids
      BY StoreTypes
<1>2. \A q, v \in Users : \A k \in 1..Len(relay'[q][v]) :
          \/ k \in 1..Len(relay[q][v]) /\ relay'[q][v][k] = relay[q][v][k]
          \/ relay'[q][v][k].pc = i /\ relay'[q][v][k].type = type
      BY <1>1, Posts
<1> QED BY <1>2, SentKept

\* Every step keeps these, and is a step of Pairing or none.
LEMMA PairStep ==
    AnswerInv /\ DescribedFirst /\ PairInv /\ [Next]_vars => PairInv' /\ [Pair!Next]_Ends
<1> SUFFICES ASSUME AnswerInv, DescribedFirst, PairInv, [Next]_vars
             PROVE  PairInv' /\ [Pair!Next]_Ends
    OBVIOUS
<1> USE DEF AnswerInv, PairInv
<1>0. \A j \in Made : /\ pc[j] \in PeerConnection /\ j \in Ids
                        /\ pc[j].own \in Users /\ pc[j].peer \in Users
      BY StoreTypes
<1>a. ASSUME UNCHANGED pc PROVE KeepsWho /\ Made' = Made /\ Ends' = Ends
      BY <1>a DEF KeepsWho, Made, Ends
<1>b. ASSUME UNCHANGED pc PROVE AcceptedAreCalls' /\ SettingCallees' /\ RemoteSettles'
      BY <1>a, <1>b, AcceptedKept, SettingKept, RemoteKept
<1>1. ASSUME NEW u \in Users, NEW p \in Users, Click(u, p) PROVE PairInv' /\ [Pair!Next]_Ends
      <2>1. CASE StartOutgoingCall(u, p) \/ AcceptCallRequest(u, p)
            <3>1. PICK role \in {"caller", "callee"}, o \in Ids \cup {No} :
                      NewPc(u, p, role, o) /\ (role = "callee" => CallFrom(o, p, u))
                  BY <2>1 DEF StartOutgoingCall, AcceptCallRequest, TypeOK, OffersAreCalls
            <3>2. /\ Made' = Made \cup {made'} /\ made' \notin Made
                  /\ \A j \in Made : pc'[j] = pc[j]
                  /\ pc'[made'].own = u /\ pc'[made'].peer = p /\ pc'[made'].role = role
                  /\ pc'[made'].offer = o
                  /\ pc'[made'].remote = No /\ pc'[made'].setting = <<>>
                  BY <3>1, Adds
            <3>3. KeepsWho
                  BY <3>2 DEF KeepsWho
            <3>4. UNCHANGED <<relay, offers>>
                  BY <2>1 DEF StartOutgoingCall, AcceptCallRequest
            <3>5. AcceptedAreCalls'
                  BY <3>1, <3>2, <3>3, AcceptedKept
            <3>6. SettingCallees'
                  <4>1. Len(pc'[made'].setting) = 0
                        BY <3>2, EmptySeq
                  <4> QED BY <3>2, <3>3, <4>1, SettingKept
            <3>7. RemoteSettles'
                  BY <3>2, <3>3, RemoteKept
            <3>8. [Pair!Next]_Ends
                  BY <3>1, ViewMakes, PairNext
            <3> QED BY <3>3, <3>4, <3>5, <3>6, <3>7, <3>8, OffersKept, SentKept
      <2>2. CASE DeclineCallRequest(u, p)
            <3>1. UNCHANGED <<pc, relay>> /\ \A v, q \in Users : offers'[v][q] \in {offers[v][q], No}
                  BY <2>2 DEF DeclineCallRequest, RemoveOffer, TypeOK
            <3> QED BY <1>a, <1>b, <3>1, OffersKept, SentKept
      <2> QED BY <1>1, <2>1, <2>2 DEF Click
<1>2. ASSUME NEW p \in Users, NEW u \in Users, Receive(p, u) PROVE PairInv' /\ [Pair!Next]_Ends
      <2> DEFINE a == Head(relay[p][u]).pc
                 i == current[u].pc
      <2>1. /\ \A q, v \in Users : \A k \in 1..Len(relay'[q][v]) :
                   \E l \in 1..Len(relay[q][v]) : relay'[q][v][k] = relay[q][v][l]
            /\ Head(relay[p][u]) = relay[p][u][1] /\ 1 \in 1..Len(relay[p][u])
            BY <1>2, Takes DEF Receive, ReceiveOffer, ReceiveAnswer, ReceiveIce, Arrives
      <2>2. a \in Made /\ pc[a].own = p /\ pc[a].peer = u
            BY <2>1 DEF RelayFromOwner
      <2>3. CASE ReceiveOffer(p, u)
            <3>1. CallFrom(a, p, u)
                  BY <2>1, <2>2, <2>3 DEF ReceiveOffer, Arrives, SentByRole, CallFrom
            <3>2. UNCHANGED pc /\ \A v, q \in Users : offers'[v][q] = offers[v][q]
                                                    \/ (v = u /\ q = p /\ offers'[v][q] = a)
                  BY <2>3 DEF ReceiveOffer, AddOffer, TypeOK
            <3> HIDE DEF a
            <3>3. OffersAreCalls'
                  BY <1>a, <3>1, <3>2, OffersKept
            <3> QED BY <1>a, <1>b, <2>1, <3>2, <3>3, SentKept
      <2>4. CASE ReceiveAnswer(p, u) \/ ReceiveIce(p, u)
            <3>1. UNCHANGED offers
                  BY <2>4 DEF ReceiveAnswer, ReceiveIce
            <3>2. CASE pc' = pc
                  BY <1>a, <1>b, <2>1, <3>1, <3>2, OffersKept, SentKept
            <3>3. CASE ReceiveIce(p, u) /\ pc' # pc
                  <4>1. i \in Made /\ OnlyThis(i) /\ pc'[i] = [pc[i] EXCEPT !.ice = @ \cup {a}]
                        BY <3>3, ReceiveIceIs
                  <4> HIDE DEF a, i
                  <4>2. /\ pc'[i].setting = pc[i].setting /\ pc'[i].remote = pc[i].remote
                        /\ pc'[i].signaling = pc[i].signaling /\ pc'[i].conn = pc[i].conn
                        /\ pc'[i].step = pc[i].step
                        BY <1>0, <4>1 DEF PeerConnection
                  <4>3. KeepsWho /\ Made' = Made
                        BY <4>1, <4>2, OnlyThisKeeps
                  <4>4. Ends' = Ends
                        BY <4>1, <4>2, <4>3, ViewStutters DEF OnlyThis
                  <4> QED BY <2>1, <3>1, <4>1, <4>2, <4>3, <4>4, UndescribedStep, OffersKept, SentKept
            <3>4. CASE ReceiveAnswer(p, u) /\ pc' # pc
                  <4>1. i \in Made /\ OnlyThis(i)
                        /\ pc'[i] = [pc[i] EXCEPT !.setting = Append(@, a)]
                        BY <3>4, ReceiveAnswerIs
                  <4>2. pc[a].role = "callee"
                        BY <2>1, <3>4 DEF ReceiveAnswer, Arrives, SentByRole
                  <4> HIDE DEF a, i
                  <4>3. /\ pc'[i].setting = Append(pc[i].setting, a)
                        /\ pc'[i].remote = pc[i].remote /\ pc[i].setting \in Seq(Ids)
                        /\ pc'[i].signaling = pc[i].signaling /\ pc'[i].conn = pc[i].conn
                        /\ pc'[i].step = pc[i].step
                        BY <1>0, <4>1 DEF PeerConnection
                  <4>4. KeepsWho /\ Made' = Made /\ \A j \in Made : j # i => pc'[j] = pc[j]
                        BY <4>1, <4>3, OnlyThisKeeps DEF OnlyThis
                  <4>5. SettingCallees'
                        <5>1. /\ Len(pc'[i].setting) = Len(pc[i].setting) + 1
                              /\ Len(pc[i].setting) \in Nat
                              /\ \A l \in 1..Len(pc[i].setting) :
                                     pc'[i].setting[l] = pc[i].setting[l]
                              /\ pc'[i].setting[Len(pc[i].setting) + 1] = a
                              BY <1>0, <2>2, <4>3, AppendProperties, LenProperties
                        <5>2. ASSUME NEW k \in 1..Len(pc'[i].setting)
                              PROVE  \/ \E l \in 1..Len(pc[i].setting) :
                                            pc'[i].setting[k] = pc[i].setting[l]
                                     \/ pc'[i].setting[k] = a
                              <6>1. k \in 1..Len(pc[i].setting) \/ k = Len(pc[i].setting) + 1
                                    BY <5>1
                              <6> QED BY <5>1, <6>1
                        <5>3. ASSUME NEW j \in Made', NEW k \in 1..Len(pc'[j].setting)
                              PROVE  \/ j \in Made /\ \E l \in 1..Len(pc[j].setting) :
                                                          pc'[j].setting[k] = pc[j].setting[l]
                                     \/ /\ pc'[j].setting[k] \in Made
                                        /\ pc[pc'[j].setting[k]].role = "callee"
                              BY <2>2, <4>2, <4>4, <5>2
                        <5> QED BY <4>4, <5>3, SettingKept
                  <4>6. RemoteSettles' /\ AcceptedAreCalls'
                        BY <4>3, <4>4, RemoteKept, AcceptedKept
                  <4>7. Ends' = Ends
                        BY <4>1, <4>3, <4>4, ViewStutters DEF OnlyThis
                  <4> QED BY <2>1, <3>1, <4>4, <4>5, <4>6, <4>7, OffersKept, SentKept
            <3> QED BY <2>4, <3>2, <3>3, <3>4
      <2> QED BY <1>2, <2>3, <2>4 DEF Receive
<1>3. ASSUME NEW p \in Users, NEW u \in Users, Lose(p, u) PROVE PairInv' /\ [Pair!Next]_Ends
      <2>1. \A q, v \in Users : \A k \in 1..Len(relay'[q][v]) :
                \E l \in 1..Len(relay[q][v]) : relay'[q][v][k] = relay[q][v][l]
            BY <1>3, Takes DEF Lose
      <2>2. UNCHANGED <<pc, offers>>
            BY <1>3 DEF Lose
      <2> QED BY <1>a, <1>b, <2>1, <2>2, OffersKept, SentKept
<1>4. ASSUME NEW i \in Made, MediaDenied(i) \/ MediaGranted(i) \/ SendIce(i)
      PROVE  PairInv' /\ [Pair!Next]_Ends
      <2>1. /\ OnlyThis(i) /\ pc'[i].setting = pc[i].setting /\ pc'[i].remote = pc[i].remote
            /\ pc'[i].signaling = pc[i].signaling /\ pc'[i].conn = pc[i].conn
            /\ pc[i].step = "done" => pc'[i].step = "done"
            <3>1. \/ /\ OnlyThis(i) /\ pc[i].step = "media"
                     /\ \E st \in {"failed", "describe"} : pc'[i] = [pc[i] EXCEPT !.step = st]
                  \/ OnlyThis(i) /\ pc'[i] = [pc[i] EXCEPT !.gathered = TRUE]
                  BY <1>4, MediaDeniedIs, MediaGrantedIs, SendIceIs DEF MediaDenied, MediaGranted
            <3> QED BY <1>0, <3>1 DEF PeerConnection
      <2>2. KeepsWho /\ Made' = Made
            BY <2>1, OnlyThisKeeps
      <2>3. Ends' = Ends
            BY <2>1, <2>2, ViewStutters DEF OnlyThis
      <2>4. AcceptedAreCalls' /\ SettingCallees' /\ RemoteSettles'
            BY <2>1, <2>2, UndescribedStep
      <2>5. OffersAreCalls'
            BY <1>4, <2>2, OffersKept DEF MediaDenied, MediaGranted, SendIce
      <2>6. SentByRole'
            <3>1. CASE UNCHANGED relay
                  BY <2>2, <3>1, SentKept
            <3>2. CASE SendIce(i)
                  BY <2>2, <3>2, PostKeeps DEF SendIce
            <3> QED BY <1>4, <3>1, <3>2 DEF MediaDenied, MediaGranted
      <2> QED BY <2>3, <2>4, <2>5, <2>6
<1>5. ASSUME NEW i \in Made, SendOffer(i) PROVE PairInv' /\ [Pair!Next]_Ends
      <2>1. /\ OnlyThis(i) /\ pc'[i].setting = pc[i].setting /\ pc'[i].remote = pc[i].remote
            /\ pc'[i].conn = pc[i].conn /\ pc'[i].step = "done"
            <3>1. OnlyThis(i) /\ pc'[i] = [pc[i] EXCEPT !.step = "done", !.signaling = "have-local-offer"]
                  BY <1>5, SendOfferIs
            <3> QED BY <1>0, <3>1 DEF PeerConnection
      <2>2. pc[i].remote = No
            BY <1>5 DEF DescribedFirst, SendOffer
      <2>3. KeepsWho /\ Made' = Made
            BY <2>1, OnlyThisKeeps
      <2>4. Ends' = Ends
            BY <2>1, <2>3, ViewStutters DEF OnlyThis
      <2>5. AcceptedAreCalls' /\ SettingCallees' /\ RemoteSettles'
            BY <2>1, <2>2, <2>3, UndescribedStep
      <2>6. OffersAreCalls' /\ SentByRole'
            BY <1>5, <2>3, OffersKept, PostKeeps DEF SendOffer
      <2> QED BY <2>4, <2>5, <2>6
<1>6. ASSUME NEW i \in Made, SendAnswer(i) PROVE PairInv' /\ [Pair!Next]_Ends
      <2> DEFINE o == pc[i].offer
      <2>1. /\ OnlyThis(i) /\ pc'[i].setting = pc[i].setting /\ pc'[i].remote = o
            /\ pc'[i].conn = pc[i].conn /\ pc'[i].step = "done"
            <3>1. OnlyThis(i) /\ pc'[i] = [pc[i] EXCEPT !.step = "done", !.remote = o]
                  BY <1>6, SendAnswerIs
            <3> QED BY <1>0, <3>1 DEF PeerConnection
      <2>2. pc[i].remote = No /\ pc[i].role = "callee"
            BY <1>6 DEF DescribedFirst, SendAnswer
      <2>3. o \in Made /\ pc[o].role = "caller" /\ Answers(o, i)
            BY <2>2 DEF AcceptedAreCalls, CallFrom, Answers
      <2> HIDE DEF o
      <2>4. KeepsWho /\ Made' = Made /\ \A j \in Made : j # i => pc'[j] = pc[j]
            BY <2>1, OnlyThisKeeps DEF OnlyThis
      <2>5. [Pair!Next]_Ends
            <3>1. Pair!Describe(i, o)
                  BY <2>1, <2>2, <2>3, ViewDescribes
            <3> QED BY <2>3, <3>1, PairNext
      <2>6. AcceptedAreCalls'
            BY <2>4, AcceptedKept
      <2>7. SettingCallees'
            <3>1. \A j \in Made : pc'[j].setting = pc[j].setting
                  BY <2>1, <2>4
            <3> QED BY <2>4, <3>1, SettingKept
      <2>8. RemoteSettles'
            <3>1. pc'[i].role = "callee" /\ pc'[i].remote = pc'[i].offer
                  BY <2>1, <2>2, <2>4 DEF KeepsWho, o
            <3> QED BY <2>4, <3>1, RemoteKept
      <2>9. OffersAreCalls' /\ SentByRole'
            <3>1. \A v, q \in Users : offers'[v][q] \in {offers[v][q], No}
                  BY <1>0, <1>6 DEF SendAnswer, RemoveOffer, TypeOK
            <3> QED BY <1>6, <2>2, <2>4, <3>1, OffersKept, PostKeeps DEF SendAnswer
      <2> QED BY <2>5, <2>6, <2>7, <2>8, <2>9
<1>7. ASSUME NEW i \in Made, AnswerSet(i) PROVE PairInv' /\ [Pair!Next]_Ends
      <2> DEFINE a == Head(pc[i].setting)
      <2>1. pc[i].setting \in Seq(Ids) /\ pc[i].setting # <<>>
            BY <1>0, <1>7 DEF PeerConnection, AnswerSet
      <2>2. /\ OnlyThis(i) /\ pc'[i].setting = Tail(pc[i].setting)
            /\ pc'[i].step = pc[i].step /\ pc'[i].conn = pc[i].conn
            /\ \/ pc'[i].remote = pc[i].remote /\ pc'[i].signaling = pc[i].signaling
               \/ pc'[i].remote = a /\ pc'[i].signaling = "stable" /\ pc[i].signaling # "stable"
            <3>1. /\ OnlyThis(i)
                  /\ \/ pc'[i] = [pc[i] EXCEPT !.setting = Tail(@)]
                     \/ /\ pc'[i] = [pc[i] EXCEPT !.setting = Tail(@), !.signaling = "stable",
                                                  !.remote = a]
                        /\ pc[i].signaling # "stable"
                  <4>1. CASE pc[i].signaling = "stable"
                        <5>1. pc' = [pc EXCEPT ![i] = [pc[i] EXCEPT !.setting = Tail(@)]]
                              BY <1>7, <4>1 DEF AnswerSet
                        <5>2. pc'[i] = [pc[i] EXCEPT !.setting = Tail(@)]
                              BY <5>1 DEF Made
                        <5> QED BY <1>7, <5>2, AnswerSetIs
                  <4>2. CASE pc[i].signaling # "stable"
                        BY <1>7, <4>2, AnswerSetIs
                  <4> QED BY <4>1, <4>2
            <3> QED BY <1>0, <3>1 DEF PeerConnection
      <2>3. /\ a = pc[i].setting[1] /\ 1 \in 1..Len(pc[i].setting)
            /\ \A k \in 1..Len(Tail(pc[i].setting)) :
                   \E l \in 1..Len(pc[i].setting) : Tail(pc[i].setting)[k] = pc[i].setting[l]
            <3>1. /\ a = pc[i].setting[1]
                  /\ Len(Tail(pc[i].setting)) = Len(pc[i].setting) - 1
                  /\ Len(pc[i].setting) \in Nat \ {0}
                  /\ \A k \in 1..Len(Tail(pc[i].setting)) :
                         Tail(pc[i].setting)[k] = pc[i].setting[k + 1]
                  BY <2>1, HeadTailProperties, EmptySeq, LenProperties
            <3>2. \A k \in 1..Len(Tail(pc[i].setting)) : k + 1 \in 1..Len(pc[i].setting)
                  BY <3>1
            <3> QED BY <3>1, <3>2
      <2>4. Answers(a, i) /\ a \in Made /\ pc[a].role = "callee" /\ pc[i].role = "caller"
            BY <2>3 DEF SettingAnswers, SettingCallees, Answers
      <2> HIDE DEF a
      <2>5. KeepsWho /\ Made' = Made /\ \A j \in Made : j # i => pc'[j] = pc[j]
            BY <2>2, OnlyThisKeeps DEF OnlyThis
      <2>6. [Pair!Next]_Ends
            <3>1. CASE pc'[i].remote = pc[i].remote
                  <4>1. Ends' = Ends
                        BY <2>2, <2>5, <3>1, ViewStutters DEF OnlyThis
                  <4> QED BY <4>1
            <3>2. CASE pc'[i].remote = a /\ pc[i].signaling # "stable"
                  <4>1. pc[i].remote = No
                        BY <2>4, <3>2 DEF RemoteSettles
                  <4>2. Pair!Describe(i, a)
                        BY <2>2, <2>4, <3>2, <4>1, ViewDescribes
                  <4> QED BY <2>4, <4>2, PairNext
            <3> QED BY <2>2, <3>1, <3>2
      <2>7. AcceptedAreCalls'
            BY <2>5, AcceptedKept
      <2>8. SettingCallees'
            <3>1. ASSUME NEW j \in Made, NEW k \in 1..Len(pc'[j].setting)
                  PROVE  \E l \in 1..Len(pc[j].setting) : pc'[j].setting[k] = pc[j].setting[l]
                  <4>1. CASE j = i
                        BY <2>2, <2>3, <4>1
                  <4>2. CASE j # i
                        BY <2>5, <4>2
                  <4> QED BY <4>1, <4>2
            <3> QED BY <2>5, <3>1, SettingKept
      <2>9. RemoteSettles'
            <3>1. pc'[i].role = "caller"
                  BY <2>4, <2>5 DEF KeepsWho
            <3> QED BY <2>2, <2>5, <3>1, RemoteKept
      <2>10. OffersAreCalls' /\ SentByRole'
            BY <1>7, <2>5, OffersKept, SentKept DEF AnswerSet
      <2> QED BY <2>6, <2>7, <2>8, <2>9, <2>10
<1>8. ASSUME NEW i \in Made, NEW s \in States, ConnectionStateChange(i, s)
      PROVE  PairInv' /\ [Pair!Next]_Ends
      <2>1. /\ OnlyThis(i) /\ pc'[i].setting = pc[i].setting /\ pc'[i].remote = pc[i].remote
            /\ pc'[i].signaling = pc[i].signaling /\ pc'[i].conn = s
            /\ pc'[i].step = pc[i].step
            <3>1. OnlyThis(i) /\ pc'[i] = [pc[i] EXCEPT !.conn = s]
                  BY <1>8, ConnectionStateChangeIs
            <3> QED BY <1>0, <3>1 DEF PeerConnection
      <2>2. KeepsWho /\ Made' = Made
            BY <2>1, OnlyThisKeeps
      <2>3. s = "connected" => Paired(i) /\ pc[i].remote \in Made
            <3>1. s = "connected" => Paired(i) /\ pc[i].remote # No
                  BY <1>8 DEF ConnectionStateChange, MayBecome, Paired
            <3>2. pc[i].remote # No => pc[i].remote \in Made
                  BY DEF RemoteSettles, RemoteAnswers, Answers, AcceptedAreCalls, CallFrom
            <3> QED BY <3>1, <3>2
      <2>4. [Pair!Next]_Ends
            BY <2>1, <2>3, ViewComesUp, PairNext
      <2>5. AcceptedAreCalls' /\ SettingCallees' /\ RemoteSettles'
            BY <2>1, <2>2, UndescribedStep
      <2>6. OffersAreCalls' /\ SentByRole'
            BY <1>8, <2>2, OffersKept, SentKept DEF ConnectionStateChange
      <2> QED BY <2>4, <2>5, <2>6
<1>9. CASE UNCHANGED vars
      BY <1>9, <1>a, <1>b, OffersKept, SentKept DEF vars
<1> QED BY <1>1, <1>2, <1>3, <1>4, <1>5, <1>6, <1>7, <1>8, <1>9 DEF Next

LEMMA PairInit == Init => PairInv /\ Pair!Init
<1> SUFFICES ASSUME Init PROVE PairInv /\ Pair!Init
    OBVIOUS
<1>1. Made = {}
      BY DEF Init, Made
<1>2. \A p, u \in Users : Len(relay[p][u]) = 0
      BY EmptySeq DEF Init
<1>3. Ends = <<>>
      BY <1>1 DEF Ends
<1> QED BY <1>1, <1>2, <1>3
        DEF Init, PairInv, OffersAreCalls, AcceptedAreCalls, SentByRole, SettingCallees,
            RemoteSettles, No, Pair!Init

\* The browsers keep the promise of a call: through offers and answers that
\* are lost, late, repeated or given twice, every connection is described once,
\* with one that its peer made for it, and is connected only in a pair.
THEOREM CallsImplementPairing == Spec => ImplementsPairing
<1>1. StoresInv => DescribedFirst
      BY DEF StoresInv
<1>2. Init => PairInv /\ Pair!Init
      BY PairInit
<1>3. AnswerInv /\ DescribedFirst /\ PairInv /\ [Next]_vars => PairInv' /\ [Pair!Next]_Ends
      BY PairStep
<1> QED BY <1>1, <1>2, <1>3, AnswerAlways, StoresAlways, PTL
        DEF Spec, ImplementsPairing, Pair!Spec

PP == INSTANCE PairingProofs WITH ends <- Ends

LEMMA PairingIs == ImplementsPairing => PP!Spec
BY DEF ImplementsPairing, Pair!Spec, PP!Spec, Pair!Init, PP!Init, Pair!Next, PP!Next,
       Pair!Make, PP!Make, Pair!Describe, PP!Describe, Pair!ComeUp, PP!ComeUp,
       Pair!GoDown, PP!GoDown, Pair!Paired, PP!Paired, Pair!Opposite, PP!Opposite,
       Pair!Roles, PP!Roles, Pair!No, PP!No

\* So whoever's call is connected is connected with the user it is for, and no
\* connection serves two calls.
THEOREM ConnectedInPairs == Spec => []Pair!UpInPairs
<1>1. PP!Spec => []PP!UpInPairs
      BY PP!CallsArePairs
<1>2. PP!UpInPairs => Pair!UpInPairs
      BY DEF PP!UpInPairs, Pair!UpInPairs, PP!Paired, Pair!Paired, PP!Opposite, Pair!Opposite
<1> QED BY <1>1, <1>2, CallsImplementPairing, PairingIs, PTL

\* And no second answer, late or repeated, redirects a call that has one.
THEOREM CallsStayDescribed == Spec => Pair!DescribedOnce
<1>1. PP!Spec => PP!DescribedOnce
      BY PP!DescriptionsStay
<1>2. PP!DescribedOnce => Pair!DescribedOnce
      BY DEF PP!DescribedOnce, Pair!DescribedOnce, PP!No, Pair!No
<1> QED BY <1>1, <1>2, CallsImplementPairing, PairingIs, PTL

----------------------------------------------------------------------------
(* What the calls do to the chat rooms and monitors, as Monitoring has it. *)

MonView == <<OpenedCalls, RoomCalls, timers>>

\* A step that opens no call and leaves rooms and timers alone is none of
\* Monitoring's, and one that stops a timer is a Stop.
OpenedKept ==
    /\ Made \subseteq Made'
    /\ \A j \in Made' : Opened(j)' <=> j \in Made /\ Opened(j)
    /\ \A j \in Made : pc'[j].own = pc[j].own /\ pc'[j].peer = pc[j].peer

LEMMA OpenedStays ==
    ASSUME OpenedKept
    PROVE  OpenedCalls' = OpenedCalls
<1>1. {j \in Made' : Opened(j)'} = {j \in Made : Opened(j)}
      BY DEF OpenedKept
<1> QED BY <1>1 DEF OpenedCalls, OpenedKept

LEMMA QuietForMonitors ==
    ASSUME OpenedKept, \A v \in Users : room'[v].pc = room[v].pc,
           \/ UNCHANGED timers
           \/ \E u, p \in Users : timers' = [timers EXCEPT ![u][p] = No]
    PROVE  [Mon!Next]_MonView
<1>1. OpenedCalls' = OpenedCalls /\ RoomCalls' = RoomCalls
      BY OpenedStays DEF RoomCalls
<1>2. CASE UNCHANGED timers
      BY <1>1, <1>2 DEF MonView
<1>3. ASSUME NEW u \in Users, NEW p \in Users, timers' = [timers EXCEPT ![u][p] = No]
      PROVE  Mon!Stop(u, p)
      BY <1>1, <1>3 DEF Mon!Stop, Mon!No, No
<1> QED BY <1>2, <1>3 DEF Mon!Next

\* A connection that gets its room and its monitor is a call that is opened.
LEMMA OpensCall ==
    ASSUME TypeOK, NEW i \in Made, OnlyThis(i), ~Opened(i), Opened(i)', OpenRoom(i),
           \A j \in Made : j # i => (Opened(j)' <=> Opened(j))
    PROVE  [Mon!Next]_MonView
<1> DEFINE u == pc[i].own
           p == pc[i].peer
<1>1. u \in Users /\ p \in Users /\ i \in Ids
      BY StoreTypes
<1>2. DOMAIN OpenedCalls = {j \in Made : Opened(j)} /\ i \notin DOMAIN OpenedCalls
      BY DEF OpenedCalls
<1>3. OpenedCalls' = [j \in DOMAIN OpenedCalls \cup {i} |->
                        IF j = i THEN [own |-> u, peer |-> p] ELSE OpenedCalls[j]]
      <2>1. {j \in Made' : Opened(j)'} = {j \in Made : Opened(j)} \cup {i}
            BY DEF OnlyThis
      <2>2. \A j \in Made : pc'[j].own = pc[j].own /\ pc'[j].peer = pc[j].peer
            BY DEF OnlyThis
      <2> QED BY <1>2, <2>1, <2>2 DEF OpenedCalls
<1>4. RoomCalls' = [RoomCalls EXCEPT ![u] = i]
      <2>1. room' = [room EXCEPT ![u].id = p, ![u].pc = i]
            BY DEF OpenRoom
      <2>2. \A v \in Users : room'[v].pc = IF v = u THEN i ELSE room[v].pc
            BY <1>1, <2>1 DEF TypeOK
      <2> QED BY <1>1, <2>2 DEF RoomCalls
<1>5. timers' = [timers EXCEPT ![u][p] = i]
      BY DEF OpenRoom, StartMonitor
<1> HIDE DEF u, p
<1>6. Mon!Open(u, p, i)
      BY <1>2, <1>3, <1>4, <1>5 DEF Mon!Open
<1> QED BY <1>1, <1>6 DEF Mon!Next

\* Opened looks only at the role and the step.
LEMMA StepKeepsOpened ==
    ASSUME NEW i \in Made, OnlyThis(i),
           Opened(i)' <=> Opened(i)
    PROVE  OpenedKept
<1>1. \A j \in Made : j # i => (Opened(j)' <=> Opened(j))
      BY DEF OnlyThis, Opened
<1> QED BY <1>1 DEF OpenedKept, OnlyThis

LEMMA SamePcKeepsOpened == UNCHANGED pc => OpenedKept
BY DEF OpenedKept, Opened, Made

LEMMA MonitoringStep == AnswerInv /\ [Next]_vars => [Mon!Next]_MonView
<1> SUFFICES ASSUME AnswerInv, [Next]_vars PROVE [Mon!Next]_MonView
    OBVIOUS
<1> USE DEF AnswerInv
<1>0. \A j \in Made : pc[j] \in PeerConnection
      BY StoreTypes
<1>1. ASSUME NEW u \in Users, NEW p \in Users, Click(u, p) PROVE [Mon!Next]_MonView
      <2>1. CASE StartOutgoingCall(u, p) \/ AcceptCallRequest(u, p)
            <3>1. PICK role \in {"caller", "callee"}, o \in Ids \cup {No} : NewPc(u, p, role, o)
                  BY <2>1 DEF StartOutgoingCall, AcceptCallRequest, TypeOK
            <3>2. /\ Made' = Made \cup {made'} /\ made' \notin Made
                  /\ \A j \in Made : pc'[j] = pc[j]
                  /\ pc'[made'].step = "media"
                  BY <3>1, Adds
            <3>3. OpenedKept
                  BY <3>2 DEF OpenedKept, Opened
            <3> QED BY <2>1, <3>3, QuietForMonitors DEF StartOutgoingCall, AcceptCallRequest
      <2>2. CASE DeclineCallRequest(u, p)
            BY <2>2, SamePcKeepsOpened, QuietForMonitors DEF DeclineCallRequest
      <2> QED BY <1>1, <2>1, <2>2 DEF Click
<1>2. ASSUME NEW p \in Users, NEW u \in Users, Receive(p, u) \/ Lose(p, u)
      PROVE  [Mon!Next]_MonView
      <2>1. UNCHANGED <<room, timers>>
            BY <1>2 DEF Receive, ReceiveOffer, ReceiveAnswer, ReceiveIce, Lose
      <2>2. CASE UNCHANGED pc
            BY <2>1, <2>2, SamePcKeepsOpened, QuietForMonitors
      <2>3. CASE pc' # pc
            <3> DEFINE i == current[u].pc
                       a == Head(relay[p][u]).pc
            <3>1. i \in Made /\ OnlyThis(i)
                  /\ (\/ pc'[i] = [pc[i] EXCEPT !.setting = Append(@, a)]
                      \/ pc'[i] = [pc[i] EXCEPT !.ice = @ \cup {a}])
                  BY <1>2, <2>3, ReceiveAnswerIs, ReceiveIceIs DEF Receive, ReceiveOffer, Lose
            <3> HIDE DEF i, a
            <3>2. pc'[i].step = pc[i].step /\ pc'[i].role = pc[i].role
                  BY <1>0, <3>1 DEF PeerConnection
            <3>3. OpenedKept
                  BY <3>1, <3>2, StepKeepsOpened DEF Opened
            <3> QED BY <2>1, <3>3, QuietForMonitors
      <2> QED BY <2>2, <2>3
<1>3. ASSUME NEW i \in Made, MediaDenied(i) PROVE [Mon!Next]_MonView
      <2>1. OnlyThis(i) /\ pc'[i] = [pc[i] EXCEPT !.step = "failed"]
            BY <1>3, MediaDeniedIs
      <2>2. pc'[i].step = "failed" /\ pc'[i].role = pc[i].role
            BY <1>0, <2>1 DEF PeerConnection
      <2>3. pc[i].step = "media" /\ UNCHANGED <<room, timers>>
            BY <1>3 DEF MediaDenied
      <2>4. OpenedKept
            BY <2>1, <2>2, <2>3, StepKeepsOpened DEF Opened
      <2> QED BY <2>3, <2>4, QuietForMonitors
<1>4. ASSUME NEW i \in Made, MediaGranted(i) PROVE [Mon!Next]_MonView
      <2>0. OnlyThis(i) /\ pc'[i] = [pc[i] EXCEPT !.step = "describe"]
            BY <1>4, MediaGrantedIs
      <2>1. /\ OnlyThis(i) /\ pc'[i].step = "describe" /\ pc[i].step = "media"
            /\ pc'[i].role = pc[i].role
            <3>1. pc'[i].step = "describe" /\ pc'[i].role = pc[i].role
                  BY <1>0, <2>0 DEF PeerConnection
            <3> QED BY <1>4, <2>0, <3>1 DEF MediaGranted
      <2>2. \A j \in Made : j # i => (Opened(j)' <=> Opened(j))
            BY <2>1 DEF OnlyThis, Opened
      <2>3. CASE pc[i].role = "callee"
            BY <1>4, <2>1, <2>2, <2>3, OpensCall DEF Opened, MediaGranted
      <2>4. CASE pc[i].role # "callee"
            <3>1. UNCHANGED <<room, timers>>
                  BY <1>4, <2>4 DEF MediaGranted
            <3> QED BY <2>1, <2>4, <3>1, StepKeepsOpened, QuietForMonitors DEF Opened
      <2> QED BY <2>3, <2>4
<1>5. ASSUME NEW i \in Made, SendOffer(i) PROVE [Mon!Next]_MonView
      <2>0. /\ OnlyThis(i)
            /\ pc'[i] = [pc[i] EXCEPT !.step = "done", !.signaling = "have-local-offer"]
            BY <1>5, SendOfferIs
      <2>1. /\ OnlyThis(i) /\ pc'[i].step = "done" /\ pc[i].step = "describe"
            /\ pc[i].role = "caller" /\ OpenRoom(i)
            <3>1. pc'[i].step = "done"
                  BY <1>0, <2>0 DEF PeerConnection
            <3> QED BY <1>5, <2>0, <3>1 DEF SendOffer
      <2>2. \A j \in Made : j # i => (Opened(j)' <=> Opened(j))
            BY <2>1 DEF OnlyThis, Opened
      <2> QED BY <2>1, <2>2, OpensCall DEF Opened
<1>6. ASSUME NEW i \in Made, SendAnswer(i) PROVE [Mon!Next]_MonView
      <2>1. OnlyThis(i) /\ pc'[i] = [pc[i] EXCEPT !.step = "done", !.remote = pc[i].offer]
            BY <1>6, SendAnswerIs
      <2>2. pc'[i].step = "done" /\ pc'[i].role = pc[i].role
            BY <1>0, <2>1 DEF PeerConnection
      <2>3. pc[i].step = "describe" /\ pc[i].role = "callee" /\ UNCHANGED <<room, timers>>
            BY <1>6 DEF SendAnswer
      <2>4. OpenedKept
            BY <2>1, <2>2, <2>3, StepKeepsOpened DEF Opened
      <2> QED BY <2>3, <2>4, QuietForMonitors
<1>7. ASSUME NEW i \in Made, AnswerSet(i) \/ SendIce(i) PROVE [Mon!Next]_MonView
      <2>1. OnlyThis(i) /\ pc'[i].step = pc[i].step
            <3>1. CASE AnswerSet(i)
                  BY <1>0, <3>1, AnswerSetIs DEF PeerConnection
            <3>2. CASE SendIce(i)
                  BY <1>0, <3>2, SendIceIs DEF PeerConnection
            <3> QED BY <1>7, <3>1, <3>2
      <2>2. UNCHANGED <<room, timers>>
            BY <1>7 DEF AnswerSet, SendIce
      <2>3. OpenedKept
            BY <2>1, StepKeepsOpened DEF Opened, OnlyThis
      <2> QED BY <2>2, <2>3, QuietForMonitors
<1>8. ASSUME NEW i \in Made, NEW s \in States, ConnectionStateChange(i, s)
      PROVE  [Mon!Next]_MonView
      <2>1. OnlyThis(i) /\ pc'[i].step = pc[i].step /\ pc'[i].role = pc[i].role
            BY <1>0, <1>8, ConnectionStateChangeIs DEF PeerConnection
      <2>2. pc[i].own \in Users /\ pc[i].peer \in Users
            BY StoreTypes
      <2>3. \A v \in Users : room'[v].pc = room[v].pc
            BY <1>8 DEF ConnectionStateChange, ReportConnected, TypeOK
      <2>4. \/ UNCHANGED timers
            \/ timers' = [timers EXCEPT ![pc[i].own][pc[i].peer] = No]
            BY <1>8 DEF ConnectionStateChange, StopMonitor
      <2> QED BY <2>1, <2>2, <2>3, <2>4, StepKeepsOpened, QuietForMonitors DEF Opened
<1>9. CASE UNCHANGED vars
      BY <1>9, SamePcKeepsOpened, QuietForMonitors DEF vars
<1> QED BY <1>1, <1>2, <1>3, <1>4, <1>5, <1>6, <1>7, <1>8, <1>9 DEF Next

LEMMA MonitoringInit == Init => Mon!Init
<1> SUFFICES ASSUME Init PROVE Mon!Init
    OBVIOUS
<1>1. Made = {}
      BY EmptySeq DEF Init, Made
<1>2. OpenedCalls = << >>
      BY <1>1 DEF OpenedCalls
<1>3. RoomCalls = [u \in Users |-> No]
      BY DEF Init, RoomCalls
<1> QED BY <1>2, <1>3 DEF Init, Mon!Init, Mon!No, No

\* However awaits and events of superseded calls interleave, the call layer
\* keeps to Monitoring: a call gets its room and its monitor together and once,
\* and everything else only stops monitors.
THEOREM CallsImplementMonitoring == Spec => ImplementsMonitoring
<1>1. AnswerInv /\ [Next]_vars => [Mon!Next]_<<OpenedCalls, RoomCalls, timers>>
      BY MonitoringStep DEF MonView
<1> QED BY <1>1, MonitoringInit, AnswerAlways, PTL DEF Spec, ImplementsMonitoring, Mon!Spec, Mon!monitoring

MP == INSTANCE MonitoringProofs WITH
    Browsers <- Users, Peers <- Users, Ids <- Ids,
    opened <- OpenedCalls, room <- RoomCalls, timers <- timers

LEMMA MonitoringIs == ImplementsMonitoring => MP!Spec
BY DEF ImplementsMonitoring, Mon!Spec, MP!Spec, Mon!Init, MP!Init, Mon!Next, MP!Next,
       Mon!Open, MP!Open, Mon!Stop, MP!Stop, Mon!No, MP!No, Mon!monitoring, MP!monitoring

LEMMA NoCallIsNone == MP!NoIsNone
BY CallsAssumption DEF MP!NoIsNone, MP!No, Ids

\* So the quality beside a call is sampled from that call, if from any, even
\* when its user was called or calling twice.
THEOREM CallsSampleTheRoom == Spec => []Mon!SamplesTheRoom
<1>1. MP!Spec => []MP!SamplesTheRoom
      BY NoCallIsNone, MP!TheRoomIsSampled
<1>2. MP!SamplesTheRoom => Mon!SamplesTheRoom
      BY DEF MP!SamplesTheRoom, Mon!SamplesTheRoom, MP!No, Mon!No
<1> QED BY <1>1, <1>2, CallsImplementMonitoring, MonitoringIs, PTL

\* And a call whose monitor was stopped or replaced is never monitored again.
THEOREM CallsMonitorOnce == Spec => Mon!MonitoredOnce
<1>1. MP!Spec => MP!MonitoredOnce
      BY NoCallIsNone, MP!NobodyIsSampledTwice
<1>2. MP!MonitoredOnce => Mon!MonitoredOnce
      BY DEF MP!MonitoredOnce, Mon!MonitoredOnce, MP!monitoring, Mon!monitoring
<1> QED BY <1>1, <1>2, CallsImplementMonitoring, MonitoringIs, PTL
=============================================================================
