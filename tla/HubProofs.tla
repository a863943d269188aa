----------------------------- MODULE HubProofs -----------------------------
(* Theorems about the hub, for any set of users, connections, loops and      *)
(* callers.                                                                  *)
EXTENDS Hub, FiniteSetTheorems, TLAPS

----------------------------------------------------------------------------
(* Type correctness.  TypeOK is not inductive: it needs what the program     *)
(* counters say of the local variables, and that startOnce leaves at most    *)
(* one write pump, which holds at most one message.                          *)

LocalsOK ==
    /\ \A l \in Loops : /\ pc[l] # "select" => job[l] \in Conns
                        /\ pc[l] \in {"stop", "close"} => old[l] \in Conns
    /\ \A k \in Callers : /\ kpc[k] \in {"lookup", "check", "enqueue"}
                                => kto[k] \in Users /\ seq[k] \in 1..MaxSends
                          /\ kpc[k] \in {"check", "enqueue"} => kconn[k] \in Conns

OnePump ==
    \A c \in Conns :
        /\ writers[c] \in {0, 1}
        /\ ~started[c] => writers[c] = 0
        /\ \A m \in held[c] : writers[c] = 1
        /\ \A m, n \in held[c] : m = n

TypeInv == TypeOK /\ LocalsOK /\ OnePump

\* A write pump waits in its select statement exactly when it holds nothing.
LEMMA WaitingHoldsNothing ==
    ASSUME OnePump, NEW c \in Conns
    PROVE  Waiting(c) <=> (held[c] = {} /\ writers[c] = 1)
<1>1. CASE held[c] = {}
  <2>1. Cardinality(held[c]) = 0  BY <1>1, FS_EmptySet
  <2> QED BY <1>1, <2>1 DEF OnePump, Waiting
<1>2. ASSUME NEW m \in held[c] PROVE writers[c] = 1 /\ ~Waiting(c)
  <2>1. held[c] = {m} /\ writers[c] = 1  BY DEF OnePump
  <2>2. Cardinality(held[c]) = 1  BY <2>1, FS_Singleton
  <2> QED BY <2>1, <2>2 DEF Waiting
<1> QED BY <1>1, <1>2 DEF OnePump

LEMMA TypeInvInit == Init => TypeInv
<1> USE HubAssumption DEF HubAssumption
<1> SUFFICES ASSUME Init PROVE TypeInv
  OBVIOUS
<1>1. TypeOK
  <2>1. <<>> \in Seq(Message) /\ Len(<<>>) = 0  OBVIOUS
  <2>2. send \in [Conns -> Seq(Message)] /\ \A c \in Conns : Len(send[c]) <= SendCap
    BY <2>1 DEF Init
  <2>3. written \in [Conns -> Seq(Message)]  BY <2>1 DEF Init
  <2>4. seq \in [Callers -> 0..MaxSends] /\ writers \in [Conns -> {0, 1}]  BY DEF Init
  <2> QED BY <2>2, <2>3, <2>4 DEF Init, TypeOK
<1>2. LocalsOK  BY DEF Init, LocalsOK
<1>3. OnePump
  <2>1. ASSUME NEW c \in Conns PROVE writers[c] = 0 /\ held[c] = {}
    BY DEF Init
  <2> QED BY <2>1 DEF OnePump
<1> QED BY <1>1, <1>2, <1>3 DEF TypeInv

LEMMA TypeInvStep == TypeInv /\ [Next]_vars => TypeInv'
<1> SUFFICES ASSUME TypeInv, [Next]_vars PROVE TypeInv'
  OBVIOUS
<1> USE HubAssumption DEF HubAssumption, TypeInv, TypeOK, LocalsOK, OnePump
<1>1. CASE UNCHANGED vars
  BY <1>1 DEF vars, loopVars, connVars, pumpVars, sockVars, callVars
<1> USE DEF loopVars, connVars, pumpVars, sockVars, callVars
<1>2. ASSUME NEW l \in Loops, LoopStep(l) PROVE TypeInv'
  <2>1. CASE Lookup(l)  BY <2>1 DEF Lookup
  <2>2. CASE StopBegin(l)
    <3>1. TypeOK'
      <4>1. \E x \in {"close", "write"} : pc' = [pc EXCEPT ![l] = x]
        BY <2>2 DEF StopBegin
      <4>3. pc' \in [Loops -> {"select", "lookup", "stop", "close", "write", "writing"}]
        BY <4>1
      <4>4. stop' \in [Conns -> {"open", "stopping", "stopped"}]
        <5>1. CASE stop[old[l]] = "open"
          <6>1. stop' = [stop EXCEPT ![old[l]] = "stopping"]  BY <2>2, <5>1 DEF StopBegin
          <6> QED BY <6>1
        <5>2. CASE stop[old[l]] # "open"  BY <2>2, <5>2 DEF StopBegin
        <5> QED BY <5>1, <5>2
      <4>5. UNCHANGED <<clients, op, job, old, connVars, pumpVars, open, gone, callVars, crashed,
                        contested>>
        BY <2>2 DEF StopBegin
      <4> QED BY <4>3, <4>4, <4>5
    <3>2. LocalsOK'  BY <2>2 DEF StopBegin
    <3>3. OnePump'  BY <2>2 DEF StopBegin
    <3> QED BY <3>1, <3>2, <3>3
  <2>3. CASE StopEnd(l)  BY <2>3 DEF StopEnd
  <2>4. CASE BeginWrite(l)  BY <2>4 DEF BeginWrite
  <2>5. CASE EndWrite(l)  BY <2>5 DEF EndWrite
  <2>6. ASSUME NEW c \in Conns, RunRegister(l, c) PROVE TypeInv'
    BY <2>6 DEF RunRegister, Contend
  <2>7. ASSUME NEW c \in Conns, RunUnregister(l, c) PROVE TypeInv'
    BY <2>7 DEF RunUnregister, Contend
  <2> QED BY <1>2, <2>1, <2>2, <2>3, <2>4, <2>5, <2>6, <2>7 DEF LoopStep
<1>3. ASSUME NEW l \in Loops, MapFault(l) PROVE TypeInv'
  BY <1>3 DEF MapFault
<1>4. ASSUME NEW c \in Conns, PumpStep(c) PROVE TypeInv'
  <2>1. CASE Take(c)
    <3>1. held[c] = {} /\ writers[c] = 1  BY <2>1, WaitingHoldsNothing DEF Take
    <3>2. /\ Head(send[c]) \in Message
          /\ Tail(send[c]) \in Seq(Message)
          /\ Len(Tail(send[c])) <= SendCap
      BY <2>1 DEF Take
    <3>3. held'[c] = {Head(send[c])} /\ send'[c] = Tail(send[c])
      BY <2>1, <3>1 DEF Take
    <3>4. TypeOK'  BY <2>1, <3>2, <3>3 DEF Take
    <3>5. LocalsOK'  BY <2>1 DEF Take
    <3>6. OnePump'  BY <2>1, <3>1, <3>2, <3>3 DEF Take
    <3> QED BY <3>4, <3>5, <3>6
  <2>2. CASE WriteOk(c)
    <3>1. PICK m \in held[c] : /\ held' = [held EXCEPT ![c] = @ \ {m}]
                               /\ written' = [written EXCEPT ![c] = Append(@, m)]
      BY <2>2 DEF WriteOk
    <3>3. m \in Message /\ writers[c] = 1  BY <3>1
    <3>4. TypeOK'  BY <2>2, <3>1 DEF WriteOk
    <3>5. LocalsOK'  BY <2>2 DEF WriteOk
    <3>6. OnePump'  BY <2>2, <3>1 DEF WriteOk
    <3> QED BY <3>4, <3>5, <3>6
  <2>3. CASE WriteErr(c)
    <3>1. PICK m \in held[c] : held' = [held EXCEPT ![c] = @ \ {m}]
      BY <2>3 DEF WriteErr
    <3>2. writers[c] = 1 /\ writers'[c] = 0 /\ \A n : n \notin held'[c]
      BY <2>3, <3>1 DEF WriteErr, PumpExit
    <3>3. TypeOK'  BY <2>3, <3>1, <3>2 DEF WriteErr, PumpExit
    <3>4. LocalsOK'  BY <2>3 DEF WriteErr
    <3>5. OnePump'  BY <2>3, <3>1, <3>2 DEF WriteErr, PumpExit
    <3> QED BY <3>3, <3>4, <3>5
  <2>4. CASE PingErr(c)
    <3>1. held[c] = {} /\ writers[c] = 1  BY <2>4, WaitingHoldsNothing DEF PingErr
    <3> QED BY <2>4, <3>1 DEF PingErr, PumpExit
  <2>5. CASE SeeStop(c)
    <3>1. held[c] = {} /\ writers[c] = 1  BY <2>5, WaitingHoldsNothing DEF SeeStop
    <3> QED BY <2>5, <3>1 DEF SeeStop, PumpExit
  <2>6. CASE ReadErr(c)  BY <2>6 DEF ReadErr
  <2> QED BY <1>4, <2>1, <2>2, <2>3, <2>4, <2>5, <2>6 DEF PumpStep
<1>5. ASSUME NEW c \in Conns, HandlerStart(c) \/ SpawnedStart(c) PROVE TypeInv'
  <2>1. Start(c) /\ LocalsOK'  BY <1>5 DEF HandlerStart, SpawnedStart, Start
  <2>2. OnePump'
    <3>1. CASE started[c]  BY <2>1, <3>1 DEF Start
    <3>2. CASE ~started[c]
      <4>1. writers[c] = 0 /\ writers'[c] = 1 /\ started'[c] /\ \A m : m \notin held[c]
        BY <2>1, <3>2 DEF Start
      <4> QED BY <2>1, <4>1 DEF Start
    <3> QED BY <3>1, <3>2
  <2>3. started' \in [Conns -> BOOLEAN] /\ reading' \in [Conns -> BOOLEAN]
    BY <2>1 DEF Start
  <2>4. writers' \in [Conns -> {0, 1}]  BY <2>1 DEF Start
  <2>5. handler' \in [Conns -> {"absent", "register", "start", "done"}]
        /\ spawned' \in [Conns -> BOOLEAN]
    <3>1. CASE HandlerStart(c)  BY <3>1 DEF HandlerStart
    <3>2. CASE SpawnedStart(c)  BY <3>2 DEF SpawnedStart
    <3> QED BY <1>5, <3>1, <3>2
  <2>6. UNCHANGED <<held, send, written>>  BY <2>1 DEF Start
  <2>7. UNCHANGED <<clients, loopVars, leaving, sockVars, callVars, crashed, contested>>
    BY <1>5 DEF HandlerStart, SpawnedStart
  <2>8. TypeOK'  BY <2>3, <2>4, <2>5, <2>6, <2>7
  <2> QED BY <2>1, <2>2, <2>8
<1>6. ASSUME NEW c \in Conns, Handle(c) \/ CallUnregister(c) \/ PeerGone(c) PROVE TypeInv'
  <2>1. CASE Handle(c)  BY <2>1 DEF Handle
  <2>2. CASE CallUnregister(c)  BY <2>2 DEF CallUnregister
  <2>3. CASE PeerGone(c)  BY <2>3 DEF PeerGone
  <2> QED BY <1>6, <2>1, <2>2, <2>3
<1>7. ASSUME NEW k \in Callers, CallStep(k) PROVE TypeInv'
  <2>1. CASE SendLookup(k)  BY <2>1 DEF SendLookup
  <2>2. CASE SendCheck(k)  BY <2>2 DEF SendCheck
  <2>3. CASE SendEnqueue(k)
    <3> DEFINE c == kconn[k]
               m == [by |-> k, n |-> seq[k], to |-> kto[k]]
    <3>1. c \in Conns /\ m \in Message  BY <2>3 DEF SendEnqueue, Message
    <3>2. send' \in [Conns -> Seq(Message)] /\ \A d \in Conns : Len(send'[d]) <= SendCap
      <4>1. send' = [send EXCEPT ![c] = IF Len(@) < SendCap THEN Append(@, m) ELSE @]
        BY <2>3 DEF SendEnqueue
      <4>2. Append(send[c], m) \in Seq(Message) /\ Len(Append(send[c], m)) = Len(send[c]) + 1
        BY <3>1
      <4> HIDE DEF c, m
      <4> QED BY <3>1, <4>1, <4>2
    <3> QED BY <2>3, <3>2 DEF SendEnqueue
  <2>4. CASE GetConnectedUsers(k)  BY <2>4 DEF GetConnectedUsers
  <2>5. ASSUME NEW u \in Users, SendTo(k, u) PROVE TypeInv'
    BY <2>5 DEF SendTo
  <2> QED BY <1>7, <2>1, <2>2, <2>3, <2>4, <2>5 DEF CallStep
<1> QED BY <1>1, <1>2, <1>3, <1>4, <1>5, <1>6, <1>7 DEF Next

\* Every variable keeps its type; in particular the buffer of a connection
\* never exceeds its capacity and a write pump returns at most once.
THEOREM TypeCorrect == Spec => []TypeOK
<1>1. Spec => []TypeInv  BY TypeInvInit, TypeInvStep, PTL DEF Spec
<1>2. TypeInv => TypeOK  BY DEF TypeInv
<1> QED BY <1>1, <1>2, PTL

----------------------------------------------------------------------------
(* The client map, whatever the number of loops.  The invariant follows a    *)
(* connection from its registration to the map: until handleRegister writes  *)
(* it, nobody lists it and nobody can stop it, and one loop works on it.     *)

Working(l, c) == pc[l] # "select" /\ op[l] = "register" /\ job[l] = c

Unlisted(c) == /\ \A u \in Users : clients[u] # c
               /\ \A l \in Loops : old[l] # c

Listed ==
    \A u \in Users : clients[u] # None =>
        Owner[clients[u]] = u /\ Registered(clients[u])

Fresh ==
    /\ \A c \in Conns : handler[c] \in {"absent", "register"} =>
            stop[c] = "open" /\ Unlisted(c)
    /\ \A l \in Loops : \A c \in Conns : Working(l, c) =>
            Registered(c) /\ stop[c] = "open" /\ Unlisted(c)
    /\ \A l, m \in Loops : \A c \in Conns : Working(l, c) /\ Working(m, c) => l = m

SameOwner ==
    \A l \in Loops : pc[l] \in {"stop", "close"} => Owner[old[l]] = Owner[job[l]]

MapInv == Listed /\ Fresh /\ SameOwner /\ StoppedNotListed

\* Only a loop writes the map or stops a client.
LEMMA MapFrame ==
    ASSUME [Next]_vars
    PROVE  \/ \E l \in Loops : LoopStep(l)
           \/ /\ UNCHANGED <<clients, pc, op, job, old, stop, contested>>
              /\ \/ UNCHANGED handler
                 \/ \E c \in Conns : handler[c] = "absent"
                                     /\ handler' = [handler EXCEPT ![c] = "register"]
                 \/ \E c \in Conns : handler[c] = "start"
                                     /\ handler' = [handler EXCEPT ![c] = "done"]
<1> USE DEF loopVars, connVars, pumpVars, sockVars, callVars
<1>1. CASE UNCHANGED vars  BY <1>1 DEF vars
<1>2. ASSUME NEW l \in Loops, MapFault(l) PROVE UNCHANGED <<clients, pc, op, job, old, stop, contested, handler>>
  BY <1>2 DEF MapFault
<1>3. ASSUME NEW c \in Conns, PumpStep(c)
      PROVE UNCHANGED <<clients, pc, op, job, old, stop, contested, handler>>
  BY <1>3 DEF PumpStep, Take, WriteOk, WriteErr, PingErr, SeeStop, ReadErr
<1>4. ASSUME NEW c \in Conns, SpawnedStart(c) \/ CallUnregister(c) \/ PeerGone(c)
      PROVE UNCHANGED <<clients, pc, op, job, old, stop, contested, handler>>
  BY <1>4 DEF SpawnedStart, CallUnregister, PeerGone
<1>5. ASSUME NEW k \in Callers, CallStep(k)
      PROVE UNCHANGED <<clients, pc, op, job, old, stop, contested, handler>>
  BY <1>5 DEF CallStep, SendLookup, SendCheck, SendEnqueue, GetConnectedUsers, SendTo
<1>6. ASSUME NEW c \in Conns, Handle(c)
      PROVE  /\ UNCHANGED <<clients, pc, op, job, old, stop, contested>>
             /\ handler[c] = "absent" /\ handler' = [handler EXCEPT ![c] = "register"]
  BY <1>6 DEF Handle
<1>7. ASSUME NEW c \in Conns, HandlerStart(c)
      PROVE  /\ UNCHANGED <<clients, pc, op, job, old, stop, contested>>
             /\ handler[c] = "start" /\ handler' = [handler EXCEPT ![c] = "done"]
  BY <1>7 DEF HandlerStart
<1> QED BY <1>1, <1>2, <1>3, <1>4, <1>5, <1>6, <1>7 DEF Next

LEMMA MapInvInit == Init => MapInv
BY HubAssumption DEF HubAssumption, Init, MapInv, Listed, Fresh, SameOwner,
   StoppedNotListed, Working, Unlisted

LEMMA MapInvStep == TypeInv /\ TypeInv' /\ MapInv /\ [Next]_vars => MapInv'
<1> SUFFICES ASSUME TypeInv, TypeInv', MapInv, [Next]_vars PROVE MapInv'
  OBVIOUS
<1> USE HubAssumption DEF HubAssumption
<1>1. /\ clients \in [Users -> Conns \cup {None}]
      /\ pc \in [Loops -> {"select", "lookup", "stop", "close", "write", "writing"}]
      /\ op \in [Loops -> {"register", "unregister"}]
      /\ job \in [Loops -> Conns \cup {None}] /\ old \in [Loops -> Conns \cup {None}]
      /\ handler \in [Conns -> {"absent", "register", "start", "done"}]
      /\ stop \in [Conns -> {"open", "stopping", "stopped"}]
  BY DEF TypeInv, TypeOK
<1>2. \A l \in Loops : /\ pc[l] # "select" => job[l] \in Conns
                       /\ pc[l] \in {"stop", "close"} => old[l] \in Conns
  BY DEF TypeInv, LocalsOK
<1>3. Listed /\ Fresh /\ SameOwner /\ StoppedNotListed  BY DEF MapInv
<1> USE <1>1, <1>2, <1>3 DEF Registered, Working, Unlisted
<1>4. ASSUME NEW l \in Loops, NEW c \in Conns, RunRegister(l, c) PROVE MapInv'
  <2>1. Listed'  BY <1>4 DEF RunRegister, Listed
  <2>2. Fresh'  BY <1>4 DEF RunRegister, Fresh, sockVars
  <2>3. SameOwner'  BY <1>4 DEF RunRegister, SameOwner
  <2>4. StoppedNotListed'  BY <1>4 DEF RunRegister, StoppedNotListed, sockVars
  <2> QED BY <2>1, <2>2, <2>3, <2>4 DEF MapInv
<1>5. ASSUME NEW l \in Loops, NEW c \in Conns, RunUnregister(l, c) PROVE MapInv'
  <2>1. Listed'  BY <1>5 DEF RunUnregister, Listed
  <2>2. Fresh'  BY <1>5 DEF RunUnregister, Fresh, sockVars
  <2>3. SameOwner'  BY <1>5 DEF RunUnregister, SameOwner
  <2>4. StoppedNotListed'  BY <1>5 DEF RunUnregister, StoppedNotListed, sockVars
  <2> QED BY <2>1, <2>2, <2>3, <2>4 DEF MapInv
<1>6. ASSUME NEW l \in Loops, Lookup(l) PROVE MapInv'
  <2> USE DEF connVars, sockVars
  <2>1. Listed'  BY <1>6 DEF Lookup, Listed
  <2>2. Fresh'  BY <1>6 DEF Lookup, Fresh
  <2>3. SameOwner'  BY <1>6 DEF Lookup, SameOwner, Listed
  <2>4. StoppedNotListed'  BY <1>6 DEF Lookup, StoppedNotListed
  <2> QED BY <2>1, <2>2, <2>3, <2>4 DEF MapInv
<1>7. ASSUME NEW l \in Loops, StopBegin(l) PROVE MapInv'
  <2> USE DEF connVars
  <2>1. Listed'  BY <1>7 DEF StopBegin, Listed
  <2>2. Fresh'  BY <1>7 DEF StopBegin, Fresh
  <2>3. SameOwner'  BY <1>7 DEF StopBegin, SameOwner
  <2>4. StoppedNotListed'  BY <1>7 DEF StopBegin, StoppedNotListed
  <2> QED BY <2>1, <2>2, <2>3, <2>4 DEF MapInv
<1>8. ASSUME NEW l \in Loops, StopEnd(l) PROVE MapInv'
  <2> USE DEF connVars
  <2>1. Listed'  BY <1>8 DEF StopEnd, Listed
  <2>2. Fresh'  BY <1>8 DEF StopEnd, Fresh
  <2>3. SameOwner'  BY <1>8 DEF StopEnd, SameOwner
  <2>4. StoppedNotListed'  BY <1>8 DEF StopEnd, StoppedNotListed, Listed, SameOwner
  <2> QED BY <2>1, <2>2, <2>3, <2>4 DEF MapInv
<1>9. ASSUME NEW l \in Loops, BeginWrite(l) PROVE MapInv'
  <2> USE DEF connVars, sockVars
  <2>1. Listed'  BY <1>9 DEF BeginWrite, Listed
  <2>2. Fresh'  BY <1>9 DEF BeginWrite, Fresh
  <2>3. SameOwner'  BY <1>9 DEF BeginWrite, SameOwner
  <2>4. StoppedNotListed'  BY <1>9 DEF BeginWrite, StoppedNotListed
  <2> QED BY <2>1, <2>2, <2>3, <2>4 DEF MapInv
<1>10. ASSUME NEW l \in Loops, EndWrite(l) PROVE MapInv'
  <2> USE DEF sockVars
  <2>1. Listed'  BY <1>10 DEF EndWrite, Listed, Fresh
  <2>2. Fresh'  BY <1>10 DEF EndWrite, Fresh
  <2>3. SameOwner'  BY <1>10 DEF EndWrite, SameOwner
  <2>4. StoppedNotListed'  BY <1>10 DEF EndWrite, StoppedNotListed, Fresh
  <2> QED BY <2>1, <2>2, <2>3, <2>4 DEF MapInv
<1>11. ASSUME UNCHANGED <<clients, pc, op, job, old, stop>>,
              \/ UNCHANGED handler
              \/ \E c \in Conns : handler[c] = "absent"
                                  /\ handler' = [handler EXCEPT ![c] = "register"]
              \/ \E c \in Conns : handler[c] = "start"
                                  /\ handler' = [handler EXCEPT ![c] = "done"]
       PROVE  MapInv'
  <2>1. Listed'  BY <1>11 DEF Listed
  <2>2. Fresh'  BY <1>11 DEF Fresh
  <2>3. SameOwner' /\ StoppedNotListed'  BY <1>11 DEF SameOwner, StoppedNotListed
  <2> QED BY <2>1, <2>2, <2>3 DEF MapInv
<1> QED BY <1>4, <1>5, <1>6, <1>7, <1>8, <1>9, <1>10, <1>11, MapFrame DEF LoopStep

\* However many loops run, SendTo finds a stopped client only while a loop is
\* about to replace or delete its entry.
THEOREM StoppedClientsLeave == Spec => []StoppedNotListed
<1>1. Spec => [](TypeInv /\ MapInv)
  BY TypeInvInit, TypeInvStep, MapInvInit, MapInvStep, PTL DEF Spec
<1>2. MapInv => StoppedNotListed  BY DEF MapInv
<1> QED BY <1>1, <1>2, PTL

----------------------------------------------------------------------------
(* Several loops.  As long as no two of them have served a user at the same  *)
(* time, the loop that serves him works alone on his entry, whatever the     *)
(* others do to the rest of the map: the client it found there is still      *)
(* listed when it is stopped, and it is stopped before its entry is          *)
(* overwritten.                                                              *)

Alone ==
    \A l, m \in Loops :
        l # m /\ pc[l] # "select" /\ pc[m] # "select" /\ Owner[job[l]] = Owner[job[m]]
            => Owner[job[l]] \in contested

LoopInv ==
    \A l \in Loops : pc[l] # "select" /\ Owner[job[l]] \notin contested =>
        /\ pc[l] \in {"stop", "close"} => old[l] = clients[Owner[job[l]]]
        /\ pc[l] = "close" => stop[old[l]] = "stopping"
        /\ pc[l] \in {"stop", "close", "write", "writing"} /\ op[l] = "unregister"
              => old[l] = job[l]
        /\ pc[l] \in {"write", "writing"} =>
              clients[Owner[job[l]]] = None \/ stop[clients[Owner[job[l]]]] = "stopped"

\* A loop in select holds no connection it registers.
Released == \A l \in Loops : pc[l] = "select" /\ op[l] = "register" => job[l] = None

ContestInv == Alone /\ LoopInv /\ Released /\ OrphansWereContested

LEMMA ContestInvInit == Init => ContestInv
BY HubAssumption DEF HubAssumption, Init, ContestInv, Alone, LoopInv, Released,
   OrphansWereContested, Orphan, Registered

\* A user who is contested stays so.
LEMMA ContestedStays ==
    ASSUME [Next]_vars
    PROVE  contested \subseteq contested'
<1>1. ASSUME NEW l \in Loops, LoopStep(l) PROVE contested \subseteq contested'
  BY <1>1 DEF LoopStep, Lookup, StopBegin, StopEnd, BeginWrite, EndWrite, RunRegister,
              RunUnregister, Contend
<1> QED BY <1>1, MapFrame

LEMMA ContestInvStep ==
    TypeInv /\ TypeInv' /\ MapInv /\ ContestInv /\ [Next]_vars => ContestInv'
<1> SUFFICES ASSUME TypeInv, TypeInv', MapInv, ContestInv, [Next]_vars
             PROVE  ContestInv'
  OBVIOUS
<1> USE HubAssumption DEF HubAssumption
<1>1. /\ clients \in [Users -> Conns \cup {None}]
      /\ pc \in [Loops -> {"select", "lookup", "stop", "close", "write", "writing"}]
      /\ op \in [Loops -> {"register", "unregister"}]
      /\ job \in [Loops -> Conns \cup {None}] /\ old \in [Loops -> Conns \cup {None}]
      /\ handler \in [Conns -> {"absent", "register", "start", "done"}]
      /\ stop \in [Conns -> {"open", "stopping", "stopped"}]
  BY DEF TypeInv, TypeOK
<1>2. \A l \in Loops : /\ pc[l] # "select" => job[l] \in Conns
                       /\ pc[l] \in {"stop", "close"} => old[l] \in Conns
  BY DEF TypeInv, LocalsOK
<1>3. Listed /\ Fresh /\ SameOwner  BY DEF MapInv
<1>4. Alone /\ LoopInv /\ Released /\ OrphansWereContested  BY DEF ContestInv
<1> USE <1>1, <1>2, <1>3, <1>4 DEF Registered, Working, Unlisted, InHand
\* A request is received: if another loop serves the user, he is contested now.
<1>5. ASSUME NEW l \in Loops, NEW c \in Conns, RunRegister(l, c) \/ RunUnregister(l, c)
      PROVE  ContestInv'
  <2>1. /\ pc[l] = "select" /\ pc' = [pc EXCEPT ![l] = "lookup"]
        /\ job' = [job EXCEPT ![l] = c]
        /\ UNCHANGED <<clients, old, stop>>
        /\ contested \subseteq contested'
        /\ \A m \in Loops : pc[m] # "select" /\ Owner[job[m]] = Owner[c]
                               => Owner[c] \in contested'
    BY <1>5 DEF RunRegister, RunUnregister, Contend, Serves, sockVars
  <2>2. \A m \in Loops \ {l} : pc'[m] = pc[m] /\ job'[m] = job[m] /\ op'[m] = op[m]
    BY <1>5 DEF RunRegister, RunUnregister
  <2>3. pc'[l] = "lookup" /\ job'[l] = c  BY <2>1
  <2>4. Alone'  BY <2>1, <2>2, <2>3 DEF Alone
  <2>5. LoopInv'  BY <2>1, <2>2, <2>3 DEF LoopInv
  <2>6. Released'  BY <2>2, <2>3 DEF Released
  <2>7. OrphansWereContested'
    <3>1. CASE RunRegister(l, c)
      BY <2>1, <3>1 DEF RunRegister, OrphansWereContested, Orphan, Released
    <3>2. CASE RunUnregister(l, c)
      BY <2>1, <3>2 DEF RunUnregister, OrphansWereContested, Orphan, Released
    <3> QED BY <1>5, <3>1, <3>2
  <2> QED BY <2>4, <2>5, <2>6, <2>7 DEF ContestInv
\* The handlers keep to the entry of their user.
<1>6. ASSUME NEW l \in Loops, Lookup(l) PROVE ContestInv'
  <2> USE DEF connVars, sockVars
  <2>1. Alone'  BY <1>6 DEF Lookup, Alone
  <2>2. LoopInv'  BY <1>6 DEF Lookup, LoopInv, Fresh
  <2>3. Released'  BY <1>6 DEF Lookup, Released, Fresh
  <2>4. OrphansWereContested'  BY <1>6 DEF Lookup, OrphansWereContested, Orphan
  <2> QED BY <2>1, <2>2, <2>3, <2>4 DEF ContestInv
<1>7. ASSUME NEW l \in Loops, StopBegin(l) PROVE ContestInv'
  <2> USE DEF connVars
  <2>1. Alone'  BY <1>7 DEF StopBegin, Alone
  <2>2. LoopInv'  BY <1>7 DEF StopBegin, LoopInv, Alone, SameOwner
  <2>3. Released'  BY <1>7 DEF StopBegin, Released
  <2>4. OrphansWereContested'  BY <1>7 DEF StopBegin, OrphansWereContested, Orphan
  <2> QED BY <2>1, <2>2, <2>3, <2>4 DEF ContestInv
<1>8. ASSUME NEW l \in Loops, StopEnd(l) PROVE ContestInv'
  <2> USE DEF connVars
  <2>1. Alone'  BY <1>8 DEF StopEnd, Alone
  <2>2. LoopInv'  BY <1>8 DEF StopEnd, LoopInv, Alone, SameOwner
  <2>3. Released'  BY <1>8 DEF StopEnd, Released
  <2>4. OrphansWereContested'  BY <1>8 DEF StopEnd, OrphansWereContested, Orphan
  <2> QED BY <2>1, <2>2, <2>3, <2>4 DEF ContestInv
<1>9. ASSUME NEW l \in Loops, BeginWrite(l) PROVE ContestInv'
  <2> USE DEF connVars, sockVars
  <2>1. Alone'  BY <1>9 DEF BeginWrite, Alone
  <2>2. LoopInv'  BY <1>9 DEF BeginWrite, LoopInv
  <2>3. Released'  BY <1>9 DEF BeginWrite, Released
  <2>4. OrphansWereContested'  BY <1>9 DEF BeginWrite, OrphansWereContested, Orphan
  <2> QED BY <2>1, <2>2, <2>3, <2>4 DEF ContestInv
<1>10. ASSUME NEW l \in Loops, EndWrite(l) PROVE ContestInv'
  <2> USE DEF sockVars
  <2>1. Alone'  BY <1>10 DEF EndWrite, Alone
  <2>2. LoopInv'  BY <1>10 DEF EndWrite, LoopInv, Alone
  <2>3. Released'  BY <1>10 DEF EndWrite, Released
  <2>4. OrphansWereContested'
    BY <1>10 DEF EndWrite, OrphansWereContested, Orphan, LoopInv
  <2> QED BY <2>1, <2>2, <2>3, <2>4 DEF ContestInv
<1>11. ASSUME UNCHANGED <<clients, pc, op, job, old, stop, contested>>,
              \/ UNCHANGED handler
              \/ \E c \in Conns : handler[c] = "absent"
                                  /\ handler' = [handler EXCEPT ![c] = "register"]
              \/ \E c \in Conns : handler[c] = "start"
                                  /\ handler' = [handler EXCEPT ![c] = "done"]
       PROVE  ContestInv'
  <2>1. Alone' /\ LoopInv' /\ Released'  BY <1>11 DEF Alone, LoopInv, Released
  <2>2. OrphansWereContested'  BY <1>11 DEF OrphansWereContested, Orphan
  <2> QED BY <2>1, <2>2 DEF ContestInv
<1> QED BY <1>5, <1>6, <1>7, <1>8, <1>9, <1>10, <1>11, MapFrame DEF LoopStep

LEMMA ContestInvariant == Spec => [](TypeInv /\ MapInv /\ ContestInv)
BY TypeInvInit, TypeInvStep, MapInvInit, MapInvStep, ContestInvInit, ContestInvStep, PTL
   DEF Spec

\* However many loops run, a live connection is left out of the map only if two
\* of them once served its user at the same time.
THEOREM OnlyContestedOrphans == Spec => []OrphansWereContested
<1>1. ContestInv => OrphansWereContested  BY DEF ContestInv
<1> QED BY <1>1, ContestInvariant, PTL

----------------------------------------------------------------------------
(* Nothing is written after Stop: Stop closes the socket before it returns,  *)
(* and no step opens a socket again.                                         *)

Closed == \A c \in Conns : stop[c] = "stopped" => ~open[c]

LEMMA ClosedStep == TypeInv /\ Closed /\ [Next]_vars => Closed'
<1> SUFFICES ASSUME TypeInv, Closed, [Next]_vars PROVE Closed'
  OBVIOUS
<1>1. /\ stop \in [Conns -> {"open", "stopping", "stopped"}]
      /\ open \in [Conns -> BOOLEAN]
      /\ \A l \in Loops : pc[l] \in {"stop", "close"} => old[l] \in Conns
  BY DEF TypeInv, TypeOK, LocalsOK
<1>2. ASSUME NEW l \in Loops, LoopStep(l) PROVE Closed'
  <2>1. CASE StopBegin(l)  BY <1>1, <2>1 DEF StopBegin, Closed
  <2>2. CASE StopEnd(l)  BY <1>1, <2>2 DEF StopEnd, Closed
  <2>3. CASE UNCHANGED <<stop, open>>  BY <2>3 DEF Closed
  <2> QED BY <1>2, <2>1, <2>2, <2>3
       DEF LoopStep, Lookup, BeginWrite, EndWrite, RunRegister, RunUnregister, sockVars
<1>3. ASSUME NEW c \in Conns, PumpExit(c), UNCHANGED stop PROVE Closed'
  BY <1>1, <1>3 DEF PumpExit, Closed
<1>4. CASE UNCHANGED <<stop, open>>  BY <1>4 DEF Closed
<1>5. ASSUME NEW c \in Conns, PumpStep(c) PROVE Closed'
  BY <1>3, <1>4, <1>5 DEF PumpStep, Take, WriteOk, WriteErr, PingErr, SeeStop, ReadErr, sockVars
<1>6. ASSUME NEW l \in Loops, MapFault(l) PROVE Closed'
  BY <1>4, <1>6 DEF MapFault, sockVars
<1>7. ASSUME NEW c \in Conns, \/ HandlerStart(c) \/ SpawnedStart(c) \/ Handle(c)
                              \/ CallUnregister(c) \/ PeerGone(c)
      PROVE Closed'
  BY <1>4, <1>7 DEF HandlerStart, SpawnedStart, Handle, CallUnregister, PeerGone, sockVars
<1>8. ASSUME NEW k \in Callers, CallStep(k) PROVE Closed'
  BY <1>4, <1>8 DEF CallStep, SendLookup, SendCheck, SendEnqueue, GetConnectedUsers, SendTo,
                    sockVars
<1>9. CASE UNCHANGED vars  BY <1>4, <1>9 DEF vars, sockVars
<1> QED BY <1>2, <1>5, <1>6, <1>7, <1>8, <1>9 DEF Next

\* Only WriteOk writes to a socket, and only to an open one.
LEMMA WritesNeedOpen ==
    ASSUME TypeInv, [Next]_vars, NEW c \in Conns, ~open[c]
    PROVE  written'[c] = written[c]
<1>1. written \in [Conns -> Seq(Message)]  BY DEF TypeInv, TypeOK
<1>2. CASE UNCHANGED written  BY <1>2
<1>3. ASSUME NEW d \in Conns, WriteOk(d) PROVE written'[c] = written[c]
  BY <1>1, <1>3 DEF WriteOk
<1>4. ASSUME NEW d \in Conns, PumpStep(d) PROVE written'[c] = written[c]
  BY <1>2, <1>3, <1>4 DEF PumpStep, Take, WriteErr, PingErr, SeeStop, ReadErr
<1>5. ASSUME NEW l \in Loops, LoopStep(l) \/ MapFault(l) PROVE written'[c] = written[c]
  BY <1>2, <1>5 DEF LoopStep, Lookup, StopBegin, StopEnd, BeginWrite, EndWrite, RunRegister,
                    RunUnregister, MapFault, pumpVars
<1>6. ASSUME NEW d \in Conns, \/ HandlerStart(d) \/ SpawnedStart(d) \/ Handle(d)
                              \/ CallUnregister(d) \/ PeerGone(d)
      PROVE written'[c] = written[c]
  BY <1>2, <1>6 DEF HandlerStart, SpawnedStart, Start, Handle, CallUnregister, PeerGone, pumpVars
<1>7. ASSUME NEW k \in Callers, CallStep(k) PROVE written'[c] = written[c]
  BY <1>2, <1>7 DEF CallStep, SendLookup, SendCheck, SendEnqueue, GetConnectedUsers, SendTo,
                    pumpVars
<1> QED BY <1>2, <1>4, <1>5, <1>6, <1>7 DEF Next, vars, pumpVars

\* For any number of loops and callers: after Stop has returned, no message
\* reaches the socket, not even one that Send accepted before.
THEOREM SilentAfterStop == Spec => NothingAfterStop
<1>1. Init => Closed  BY DEF Init, Closed
<1>2. TypeInv /\ Closed /\ [Next]_vars
        => [\A c \in Conns : stop[c] = "stopped" => written'[c] = written[c]]_vars
  BY WritesNeedOpen DEF Closed
<1> QED BY <1>1, <1>2, ClosedStep, TypeInvInit, TypeInvStep, PTL DEF Spec, NothingAfterStop

----------------------------------------------------------------------------
(* Who is stopped, whatever the number of loops.                             *)

Leavers ==
    \A l \in Loops : op[l] = "unregister" /\ pc[l] # "select" =>
        /\ leaving[job[l]] = "done"
        /\ pc[l] = "stop" => old[l] = job[l]

LEMMA LeaversStep == TypeInv /\ Leavers /\ [Next]_vars => Leavers'
<1> SUFFICES ASSUME TypeInv, Leavers, [Next]_vars PROVE Leavers'
  OBVIOUS
<1>1. /\ pc \in [Loops -> {"select", "lookup", "stop", "close", "write", "writing"}]
      /\ op \in [Loops -> {"register", "unregister"}]
      /\ job \in [Loops -> Conns \cup {None}] /\ old \in [Loops -> Conns \cup {None}]
      /\ leaving \in [Conns -> {"no", "waiting", "done"}]
      /\ \A l \in Loops : pc[l] # "select" => job[l] \in Conns
  BY DEF TypeInv, TypeOK, LocalsOK
<1>2. CASE UNCHANGED <<pc, op, job, old, leaving>>  BY <1>2 DEF Leavers
<1>3. ASSUME NEW c \in Conns, CallUnregister(c) PROVE Leavers'
  BY <1>1, <1>3 DEF CallUnregister, Leavers, loopVars
<1>4. ASSUME NEW l \in Loops, NEW c \in Conns, RunRegister(l, c) \/ RunUnregister(l, c)
      PROVE Leavers'
  <2>1. CASE RunRegister(l, c)  BY <1>1, <2>1 DEF RunRegister, Leavers
  <2>2. CASE RunUnregister(l, c)  BY <1>1, <2>2 DEF RunUnregister, Leavers
  <2> QED BY <1>4, <2>1, <2>2
<1>5. ASSUME NEW l \in Loops, Lookup(l) PROVE Leavers'
  BY <1>1, <1>5 DEF Lookup, Leavers, connVars
<1>6. ASSUME NEW l \in Loops, StopBegin(l) \/ StopEnd(l) \/ BeginWrite(l) \/ EndWrite(l)
      PROVE Leavers'
  <2>1. CASE StopBegin(l)  BY <1>1, <2>1 DEF StopBegin, Leavers, connVars
  <2>2. CASE StopEnd(l)  BY <1>1, <2>2 DEF StopEnd, Leavers, connVars
  <2>3. CASE BeginWrite(l)  BY <1>1, <2>3 DEF BeginWrite, Leavers, connVars
  <2>4. CASE EndWrite(l)  BY <1>1, <2>4 DEF EndWrite, Leavers
  <2> QED BY <1>6, <2>1, <2>2, <2>3, <2>4
<1>7. ASSUME NEW c \in Conns, \/ PumpStep(c) \/ HandlerStart(c) \/ SpawnedStart(c)
                              \/ Handle(c) \/ PeerGone(c)
      PROVE Leavers'
  BY <1>2, <1>7 DEF PumpStep, Take, WriteOk, WriteErr, PingErr, SeeStop, ReadErr, HandlerStart,
                    SpawnedStart, Handle, PeerGone, connVars, loopVars
<1>8. ASSUME NEW k \in Callers, CallStep(k) PROVE Leavers'
  BY <1>2, <1>8 DEF CallStep, SendLookup, SendCheck, SendEnqueue, GetConnectedUsers, SendTo,
                    connVars, loopVars
<1>9. ASSUME NEW l \in Loops, MapFault(l) PROVE Leavers'
  BY <1>2, <1>9 DEF MapFault, connVars, loopVars
<1> QED BY <1>2, <1>3, <1>4, <1>5, <1>6, <1>7, <1>8, <1>9
     DEF Next, LoopStep, vars, connVars, loopVars

\* stopOnce: one loop at a time is inside Stop for a client.
Closing ==
    \A l \in Loops : pc[l] = "close" =>
        /\ stop[old[l]] = "stopping"
        /\ \A m \in Loops : pc[m] = "close" /\ old[m] = old[l] => m = l

LEMMA ClosingStep == TypeInv /\ Closing /\ [Next]_vars => Closing'
<1> SUFFICES ASSUME TypeInv, Closing, [Next]_vars PROVE Closing'
  OBVIOUS
<1>1. /\ pc \in [Loops -> {"select", "lookup", "stop", "close", "write", "writing"}]
      /\ old \in [Loops -> Conns \cup {None}]
      /\ stop \in [Conns -> {"open", "stopping", "stopped"}]
      /\ \A l \in Loops : pc[l] \in {"stop", "close"} => old[l] \in Conns
  BY DEF TypeInv, TypeOK, LocalsOK
<1>2. ASSUME NEW l \in Loops, StopBegin(l) PROVE Closing'
  BY <1>1, <1>2 DEF StopBegin, Closing
<1>3. ASSUME NEW l \in Loops, StopEnd(l) PROVE Closing'
  BY <1>1, <1>3 DEF StopEnd, Closing
<1>4. ASSUME NEW l \in Loops, \/ Lookup(l) \/ BeginWrite(l) \/ EndWrite(l)
                              \/ \E c \in Conns : RunRegister(l, c) \/ RunUnregister(l, c)
      PROVE Closing'
  <2>1. stop' = stop /\ pc[l] # "close"
    BY <1>4 DEF Lookup, BeginWrite, EndWrite, RunRegister, RunUnregister, sockVars
  <2>2. \A m \in Loops : pc'[m] = "close" => m # l /\ pc[m] = "close" /\ old'[m] = old[m]
    BY <1>1, <1>4 DEF Lookup, BeginWrite, EndWrite, RunRegister, RunUnregister
  <2> QED BY <2>1, <2>2 DEF Closing
<1>5. CASE UNCHANGED <<pc, old, stop>>  BY <1>5 DEF Closing
<1> QED BY <1>2, <1>3, <1>4, <1>5, MapFrame DEF LoopStep

LEMMA StrayStep ==
    ASSUME TypeInv, MapInv, Leavers, Closing, [Next]_vars,
           NEW c \in Conns, stop[c] = "open", stop'[c] # "open"
    PROVE  \/ leaving[c] = "done"
           \/ \E d \in Conns \ {c} : Owner[d] = Owner[c] /\ InHand(d)
<1>1. stop \in [Conns -> {"open", "stopping", "stopped"}]  BY DEF TypeInv, TypeOK
<1>2. PICK l \in Loops : StopBegin(l)
  <2>1. PICK l \in Loops : LoopStep(l)  BY MapFrame
  <2>2. ~StopEnd(l)
    <3> SUFFICES ASSUME StopEnd(l) PROVE FALSE  OBVIOUS
    <3>1. old[l] = c /\ pc[l] = "close"  BY <1>1 DEF StopEnd
    <3> QED BY <3>1 DEF Closing
  <2> QED BY <2>1, <2>2 DEF LoopStep, Lookup, BeginWrite, EndWrite, RunRegister,
                            RunUnregister, sockVars
<1>3. pc[l] = "stop" /\ old[l] = c  BY <1>1, <1>2 DEF StopBegin
<1>4. job[l] \in Conns /\ op[l] \in {"register", "unregister"}
  BY <1>3 DEF TypeInv, TypeOK, LocalsOK
<1>5. CASE op[l] = "unregister"  BY <1>3, <1>5 DEF Leavers
<1>6. CASE op[l] = "register"
  <2>1. job[l] # c /\ Owner[c] = Owner[job[l]]
    BY <1>3, <1>4, <1>6 DEF MapInv, Fresh, Working, Unlisted, SameOwner
  <2> QED BY <1>4, <1>6, <2>1 DEF InHand
<1> QED BY <1>4, <1>5, <1>6

\* For any number of loops: a live client is stopped only when it asked to
\* leave or when another connection of its user is being registered.
THEOREM OnlyLeaversAndReplacedStop == Spec => NoStrayStop
<1>1. Init => Leavers /\ Closing  BY DEF Init, Leavers, Closing
<1>2. TypeInv /\ MapInv /\ Leavers /\ Closing /\ [Next]_vars
        => [\A c \in Conns : stop[c] = "open" /\ stop'[c] # "open" =>
              \/ leaving[c] = "done"
              \/ \E d \in Conns \ {c} : Owner[d] = Owner[c] /\ InHand(d)]_vars
  BY StrayStep
<1> QED BY <1>1, <1>2, LeaversStep, ClosingStep, TypeInvInit, TypeInvStep, MapInvInit,
           MapInvStep, PTL DEF Spec, NoStrayStop

----------------------------------------------------------------------------
(* With any number of loops the hub implements Presence.                     *)

LEMMA RefineInit == Init => P!Init
BY DEF Init, P!Init, current, retired, TakesEffect

\* The abstract connection of a user: a handler that took effect gives it, as
\* the only one that serves him, and otherwise the map.
Effect(l, u) == IF TakesEffect(l, u) THEN IF op[l] = "register" THEN job[l] ELSE None
                                     ELSE clients[u]

LEMMA ServedUser ==
    ASSUME NEW l \in Loops, NEW u \in Users, TakesEffect(l, u)
    PROVE  Serves(l, u)
BY DEF TakesEffect, Serves

LEMMA CurrentServed ==
    ASSUME Alone, NEW u \in Users, u \notin contested, NEW l \in Loops, Serves(l, u)
    PROVE  current[u] = Effect(l, u)
<1>1. \A m \in Loops : TakesEffect(m, u) => m = l
  BY ServedUser DEF Alone, Serves
<1>2. CASE TakesEffect(l, u)
  <2>1. (CHOOSE m \in Loops : TakesEffect(m, u)) = l  BY <1>1, <1>2
  <2> QED BY <1>2, <2>1 DEF current, Effect
<1>3. CASE ~TakesEffect(l, u)  BY <1>1, <1>3 DEF current, Effect
<1> QED BY <1>2, <1>3

LEMMA CurrentServedNext ==
    ASSUME Alone', NEW u \in Users, u \notin contested', NEW l \in Loops, Serves(l, u)'
    PROVE  current'[u] = Effect(l, u)'
<1>1. \A m \in Loops : TakesEffect(m, u)' => m = l
  BY DEF Alone, Serves, TakesEffect
<1>2. CASE TakesEffect(l, u)'
  <2>1. (CHOOSE m \in Loops : TakesEffect(m, u)') = l  BY <1>1, <1>2
  <2> QED BY <1>2, <2>1 DEF current, Effect
<1>3. CASE ~TakesEffect(l, u)'  BY <1>1, <1>3 DEF current, Effect
<1> QED BY <1>2, <1>3

LEMMA CurrentIdle ==
    ASSUME NEW u \in Users, u \notin contested, \A l \in Loops : ~Serves(l, u)
    PROVE  current[u] = clients[u]
BY ServedUser DEF current

LEMMA CurrentIdleNext ==
    ASSUME NEW u \in Users, u \notin contested', \A l \in Loops : ~Serves(l, u)'
    PROVE  current'[u] = clients'[u]
<1>1. \A l \in Loops : ~TakesEffect(l, u)'  BY DEF TakesEffect, Serves
<1> QED BY <1>1 DEF current

\* What a loop does for one user leaves the others' connections alone.
LEMMA OthersKeep ==
    ASSUME Alone, Alone', NEW u \in Users, u \notin contested, u \notin contested',
           clients'[u] = clients[u], NEW l \in Loops, ~Serves(l, u), ~Serves(l, u)',
           \A m \in Loops \ {l} : pc'[m] = pc[m] /\ op'[m] = op[m] /\ job'[m] = job[m]
    PROVE  current'[u] = current[u]
<1>1. \A m \in Loops : Serves(m, u)' <=> Serves(m, u)
  BY DEF Serves
<1>2. CASE \A m \in Loops : ~Serves(m, u)
  BY <1>1, <1>2, CurrentIdle, CurrentIdleNext
<1>3. ASSUME NEW m \in Loops, Serves(m, u) PROVE current'[u] = current[u]
  <2>1. m # l /\ Serves(m, u)'  BY <1>1, <1>3
  <2>2. Effect(m, u)' = Effect(m, u)  BY <2>1 DEF Effect, TakesEffect
  <2>3. current[u] = Effect(m, u)  BY <1>3, CurrentServed
  <2>4. current'[u] = Effect(m, u)'  BY <2>1, CurrentServedNext
  <2> QED BY <2>2, <2>3, <2>4
<1> QED BY <1>2, <1>3

LEMMA RefineStep ==
    ASSUME TypeInv, TypeInv', MapInv, ContestInv, ContestInv', Closing, [Next]_vars
    PROVE  [P!Next]_<<current, retired, contested>>
<1> USE HubAssumption DEF HubAssumption
<1>1. /\ clients \in [Users -> Conns \cup {None}]
      /\ pc \in [Loops -> {"select", "lookup", "stop", "close", "write", "writing"}]
      /\ op \in [Loops -> {"register", "unregister"}]
      /\ job \in [Loops -> Conns \cup {None}] /\ old \in [Loops -> Conns \cup {None}]
      /\ stop \in [Conns -> {"open", "stopping", "stopped"}]
      /\ contested \subseteq Users
  BY DEF TypeInv, TypeOK
<1>2. \A l \in Loops : /\ pc[l] # "select" => job[l] \in Conns
                       /\ pc[l] \in {"stop", "close"} => old[l] \in Conns
  BY DEF TypeInv, LocalsOK
<1>3. Listed /\ Fresh /\ SameOwner /\ StoppedNotListed  BY DEF MapInv
<1>4. /\ current = [u \in Users |-> current[u]]
      /\ current' = [u \in Users |-> current'[u]]
  BY DEF current
<1>5. Alone /\ Alone' /\ LoopInv  BY DEF ContestInv
<1>6. \A u \in contested : current[u] = None  BY <1>1 DEF current
<1>7. \A u \in Users : u \in contested' => current'[u] = None  BY DEF current
<1> USE <1>1, <1>2, <1>5
\* A step of a handler changes what is current for its user only.
<1>8. ASSUME NEW l \in Loops, NEW v, contested' = contested,
             UNCHANGED <<op, job>>, pc[l] # "select",
             \A m \in Loops \ {l} : pc'[m] = pc[m],
             \A u \in Users \ {Owner[job[l]]} : clients'[u] = clients[u],
             Owner[job[l]] \notin contested => current'[Owner[job[l]]] = v,
             Owner[job[l]] \in contested => v = None
      PROVE  current' = [current EXCEPT ![Owner[job[l]]] = v]
  <2>1. ASSUME NEW u \in Users PROVE current'[u] = IF u = Owner[job[l]] THEN v ELSE current[u]
    <3>1. CASE u \in contested  BY <1>6, <1>7, <1>8, <3>1
    <3>2. CASE u = Owner[job[l]]  BY <1>7, <1>8, <3>2
    <3>3. CASE u \notin contested /\ u # Owner[job[l]]
      <4>1. ~Serves(l, u) /\ ~Serves(l, u)'  BY <1>8, <3>3 DEF Serves
      <4> QED BY <1>8, <3>3, <4>1, OthersKeep
    <3> QED BY <3>1, <3>2, <3>3
  <2> QED BY <1>4, <2>1
\* A request is received: nothing, or two loops meet.
<1>9. ASSUME NEW l \in Loops, NEW c \in Conns, RunRegister(l, c) \/ RunUnregister(l, c)
      PROVE  UNCHANGED <<current, retired, contested>> \/ P!Contest(Owner[c])
  <2>1. /\ pc[l] = "select" /\ pc' = [pc EXCEPT ![l] = "lookup"]
        /\ job' = [job EXCEPT ![l] = c]
        /\ UNCHANGED <<clients, stop>>
        /\ \A m \in Loops \ {l} : op'[m] = op[m]
        /\ contested' = contested \cup {u \in {Owner[c]} : \E m \in Loops : Serves(m, u)}
    BY <1>9 DEF RunRegister, RunUnregister, Contend, sockVars
  <2>2. retired' = retired  BY <2>1 DEF retired
  <2>3. \A u \in Users : /\ TakesEffect(l, u)' = FALSE /\ TakesEffect(l, u) = FALSE
                         /\ \A m \in Loops \ {l} : /\ Serves(m, u)' = Serves(m, u)
                                                   /\ Effect(m, u)' = Effect(m, u)
    BY <2>1 DEF TakesEffect, Serves, Effect
  <2>4. ASSUME NEW u \in Users, u \notin contested' PROVE current'[u] = current[u]
    <3>1. u \notin contested  BY <2>1, <2>4
    <3>2. CASE u # Owner[c]
      <4>1. ~Serves(l, u) /\ ~Serves(l, u)'  BY <2>1, <3>2 DEF Serves
      <4>2. \A m \in Loops \ {l} : pc'[m] = pc[m] /\ op'[m] = op[m] /\ job'[m] = job[m]
        BY <2>1
      <4> QED BY <2>1, <2>4, <3>1, <4>1, <4>2, OthersKeep
    <3>3. CASE u = Owner[c]
      <4>1. \A m \in Loops : ~Serves(m, u)  BY <2>1, <2>4, <3>3
      <4>2. current[u] = clients[u]  BY <3>1, <4>1, CurrentIdle
      <4>3. Serves(l, u)'  BY <2>1, <3>3 DEF Serves
      <4>4. current'[u] = Effect(l, u)'  BY <2>4, <4>3, CurrentServedNext
      <4>5. Effect(l, u)' = clients'[u]  BY <2>3 DEF Effect
      <4> QED BY <2>1, <4>2, <4>4, <4>5
    <3> QED BY <3>2, <3>3
  <2>5. CASE contested' = contested
    <3>1. \A u \in Users : current'[u] = current[u]  BY <1>6, <1>7, <2>4, <2>5
    <3>2. current' = current  BY <1>4, <3>1
    <3> QED BY <2>2, <2>5, <3>2
  <2>6. CASE contested' # contested
    <3>1. contested' = contested \cup {Owner[c]}  BY <2>1, <2>6
    <3>2. \A u \in Users : current'[u] = IF u = Owner[c] THEN None ELSE current[u]
      BY <1>6, <1>7, <2>4, <3>1
    <3>3. current' = [current EXCEPT ![Owner[c]] = None]  BY <1>4, <3>2
    <3> QED BY <2>2, <3>1, <3>3 DEF P!Contest
  <2> QED BY <2>5, <2>6
\* Steps of a handler that do not show.
<1>10. ASSUME NEW l \in Loops, pc[l] # "select", current[Owner[job[l]]] = current'[Owner[job[l]]],
              contested' = contested, UNCHANGED <<op, job>>, retired' = retired,
              \A m \in Loops \ {l} : pc'[m] = pc[m],
              \A u \in Users \ {Owner[job[l]]} : clients'[u] = clients[u]
       PROVE  UNCHANGED <<current, retired, contested>>
  <2>1. Owner[job[l]] \in contested => current[Owner[job[l]]] = None  BY <1>6
  <2>2. current' = [current EXCEPT ![Owner[job[l]]] = current[Owner[job[l]]]]
    BY <1>8, <1>10, <2>1
  <2>3. current' = current  BY <1>4, <2>2
  <2> QED BY <1>10, <2>3
<1>11. ASSUME NEW l \in Loops, BeginWrite(l) PROVE UNCHANGED <<current, retired, contested>>
  <2> DEFINE u == Owner[job[l]]
  <2>1. /\ pc[l] = "write" /\ pc' = [pc EXCEPT ![l] = "writing"]
        /\ UNCHANGED <<clients, op, job, stop, contested>>
    BY <1>11 DEF BeginWrite, sockVars
  <2>2. u \in Users /\ Serves(l, u) /\ Serves(l, u)'  BY <2>1 DEF Serves
  <2>3. Effect(l, u)' = Effect(l, u)  BY <2>1 DEF Effect, TakesEffect
  <2>4. current'[u] = current[u]
    BY <1>6, <1>7, <2>1, <2>2, <2>3, CurrentServed, CurrentServedNext
  <2>5. retired' = retired  BY <2>1 DEF retired
  <2> QED BY <1>10, <2>1, <2>4, <2>5
\* The map write: the loop is back in select, and the map says what it said.
<1>12. ASSUME NEW l \in Loops, EndWrite(l) PROVE UNCHANGED <<current, retired, contested>>
  <2> DEFINE u == Owner[job[l]]
  <2>1. /\ pc[l] = "writing" /\ pc' = [pc EXCEPT ![l] = "select"]
        /\ clients' = [clients EXCEPT ![u] = IF op[l] = "register" THEN job[l] ELSE None]
        /\ job' = [job EXCEPT ![l] = None]
        /\ UNCHANGED <<op, stop, contested>>
    BY <1>12 DEF EndWrite, sockVars
  <2>2. u \in Users /\ Serves(l, u) /\ TakesEffect(l, u)
    BY <2>1 DEF Serves, TakesEffect
  <2>3. retired' = retired  BY <2>1 DEF retired
  <2>4. \A v \in Users : ~Serves(l, v)'  BY <2>1 DEF Serves
  <2>5. \A m \in Loops \ {l} : pc'[m] = pc[m] /\ op'[m] = op[m] /\ job'[m] = job[m]
    BY <2>1
  <2>6. ASSUME NEW v \in Users PROVE current'[v] = current[v]
    <3>1. CASE v \in contested  BY <1>6, <1>7, <2>1, <3>1
    <3>2. CASE v \notin contested /\ v # u
      <4>1. ~Serves(l, v) /\ clients'[v] = clients[v]  BY <2>1, <3>2 DEF Serves
      <4> QED BY <2>1, <2>4, <2>5, <3>2, <4>1, OthersKeep
    <3>3. CASE v \notin contested /\ v = u
      <4>0. pc[l] # "select" /\ Owner[job[l]] = v  BY <2>1, <3>3
      <4>1. \A m \in Loops \ {l} : ~Serves(m, v)  BY <3>3, <4>0 DEF Alone, Serves
      <4>2. \A m \in Loops : ~Serves(m, v)'  BY <2>4, <2>5, <4>1 DEF Serves
      <4>3. current'[v] = clients'[v]  BY <2>1, <3>3, <4>2, CurrentIdleNext
      <4>4. current[v] = Effect(l, v)  BY <2>2, <3>3, CurrentServed
      <4> QED BY <2>1, <2>2, <3>3, <4>3, <4>4 DEF Effect
    <3> QED BY <3>1, <3>2, <3>3
  <2>7. current' = current  BY <1>4, <2>6
  <2> QED BY <2>1, <2>3, <2>7
<1>13. ASSUME NEW l \in Loops, StopEnd(l) PROVE UNCHANGED <<current, retired, contested>>
  <2> DEFINE u == Owner[job[l]]
  <2>1. /\ pc[l] = "close" /\ pc' = [pc EXCEPT ![l] = "write"]
        /\ stop' = [stop EXCEPT ![old[l]] = "stopped"]
        /\ UNCHANGED <<clients, op, job, contested>>
    BY <1>13 DEF StopEnd
  <2>2. u \in Users /\ Serves(l, u) /\ Serves(l, u)'  BY <2>1 DEF Serves
  <2>3. Effect(l, u)' = Effect(l, u)  BY <2>1 DEF Effect, TakesEffect
  <2>4. current'[u] = current[u]
    BY <1>6, <1>7, <2>1, <2>2, <2>3, CurrentServed, CurrentServedNext
  <2>5. stop[old[l]] = "stopping"  BY <2>1 DEF Closing
  <2>6. retired' = retired  BY <2>1, <2>5 DEF retired
  <2> QED BY <1>10, <2>1, <2>4, <2>6
\* Lookup finds no client: the new connection takes effect.
<1>14. ASSUME NEW l \in Loops, Lookup(l)
       PROVE  UNCHANGED <<current, retired, contested>> \/ P!Next
  <2> DEFINE c == job[l]
             u == Owner[job[l]]
  <2>1. /\ c \in Conns /\ u \in Users /\ pc[l] = "lookup"
        /\ UNCHANGED <<clients, op, job, stop, contested>>
        /\ \A m \in Loops \ {l} : pc'[m] = pc[m]
    BY <1>14 DEF Lookup, sockVars
  <2>2. Serves(l, u) /\ ~TakesEffect(l, u)  BY <2>1 DEF Serves, TakesEffect
  <2>3. u \notin contested => current[u] = clients[u]
    BY <2>1, <2>2, CurrentServed DEF Effect
  <2>4. retired' = retired  BY <2>1 DEF retired
  <2>5. pc'[l] \in {"stop", "write", "select"}  BY <1>14 DEF Lookup
  <2>6. CASE pc'[l] # "write" \/ u \in contested
    <3>1. current'[u] = current[u]
      <4>1. CASE u \in contested  BY <1>6, <1>7, <2>1, <4>1
      <4>2. CASE u \notin contested /\ pc'[l] = "stop"
        <5>1. Serves(l, u)' /\ ~TakesEffect(l, u)'  BY <2>1, <4>2 DEF Serves, TakesEffect
        <5>2. current'[u] = clients'[u]  BY <2>1, <4>2, <5>1, CurrentServedNext DEF Effect
        <5> QED BY <2>1, <2>3, <4>2, <5>2
      <4>3. CASE u \notin contested /\ pc'[l] = "select"
        <5>1. \A m \in Loops \ {l} : ~Serves(m, u)  BY <2>2, <4>3 DEF Alone, Serves
        <5>2. \A m \in Loops : ~Serves(m, u)'  BY <2>1, <4>3, <5>1 DEF Serves
        <5>3. current'[u] = clients'[u]  BY <2>1, <4>3, <5>2, CurrentIdleNext
        <5> QED BY <2>1, <2>3, <4>3, <5>3
      <4> QED BY <2>5, <2>6, <4>1, <4>2, <4>3
    <3> QED BY <1>10, <2>1, <2>4, <3>1
  <2>7. CASE pc'[l] = "write" /\ u \notin contested
    <3>1. op[l] = "register" /\ clients[u] \in {None, c}
      BY <1>14, <2>7 DEF Lookup
    <3>2. stop[c] = "open" /\ clients[u] = None
      BY <2>1, <3>1, <1>3 DEF Fresh, Working, Unlisted
    <3>3. Serves(l, u)' /\ TakesEffect(l, u)'  BY <2>1, <2>7 DEF Serves, TakesEffect
    <3>4. current'[u] = c
      BY <2>1, <2>7, <3>1, <3>3, CurrentServedNext DEF Effect
    <3>5. current' = [current EXCEPT ![u] = c]  BY <1>8, <2>1, <2>7, <3>4
    <3>6. c \notin retired  BY <2>1, <3>2 DEF retired
    <3>7. current[u] = None /\ c # None  BY <2>1, <2>3, <2>7, <3>2
    <3>8. P!Connect(c)  BY <2>1, <2>4, <2>7, <3>5, <3>6, <3>7 DEF P!Connect
    <3> QED BY <2>1, <3>8 DEF P!Next
  <2> QED BY <2>6, <2>7
\* Stop begins: the connection being registered replaces the listed one, or
\* the listed one leaves.  For a contested user, it is just retired.
<1>15. ASSUME NEW l \in Loops, StopBegin(l)
       PROVE  UNCHANGED <<current, retired, contested>> \/ P!Next
  <2> DEFINE c == job[l]
             u == Owner[job[l]]
  <2>1. /\ c \in Conns /\ u \in Users /\ old[l] \in Conns /\ pc[l] = "stop"
        /\ UNCHANGED <<clients, op, job, contested>>
        /\ \A m \in Loops \ {l} : pc'[m] = pc[m]
        /\ Owner[old[l]] = u
    BY <1>15, <1>3 DEF StopBegin, SameOwner
  <2>2. Serves(l, u) /\ ~TakesEffect(l, u)  BY <2>1 DEF Serves, TakesEffect
  <2>3. CASE u \in contested
    <3>1. current'[u] = current[u]  BY <1>6, <1>7, <2>1, <2>3
    <3>2. current' = [current EXCEPT ![u] = current[u]]
      BY <1>6, <1>8, <2>1, <2>3, <3>1
    <3>3. current' = current  BY <1>4, <3>2
    <3>4. CASE stop[old[l]] = "open"
      <4>1. stop' = [stop EXCEPT ![old[l]] = "stopping"]  BY <1>15, <3>4 DEF StopBegin
      <4>2. retired' = retired \cup {old[l]}  BY <2>1, <4>1 DEF retired
      <4>3. P!Retire(old[l])  BY <2>1, <2>3, <3>3, <4>2 DEF P!Retire
      <4> QED BY <2>1, <4>3 DEF P!Next
    <3>5. CASE stop[old[l]] # "open"
      <4>1. stop' = stop  BY <1>15, <3>5 DEF StopBegin
      <4> QED BY <2>1, <3>3, <4>1 DEF retired
    <3> QED BY <3>4, <3>5
  <2>4. CASE u \notin contested
    <3>1. old[l] = clients[u] /\ (op[l] = "unregister" => old[l] = c)
      BY <2>1, <2>4 DEF LoopInv
    <3>2. stop[old[l]] = "open"
      <4>1. stop[old[l]] # "stopping"  BY <1>15 DEF StopBegin
      <4>2. stop[old[l]] # "stopped"
        <5> SUFFICES ASSUME stop[old[l]] = "stopped" PROVE FALSE  OBVIOUS
        <5>1. clients[u] # None /\ stop[clients[u]] = "stopped"  BY <2>1, <3>1
        <5>2. PICK m \in Loops : pc[m] \in {"write", "writing"} /\ Owner[job[m]] = u
          BY <2>1, <5>1, <1>3 DEF StoppedNotListed
        <5>3. m # l  BY <2>1, <5>2
        <5> QED BY <2>1, <2>4, <5>2, <5>3 DEF Alone
      <4> QED BY <2>1, <4>1, <4>2
    <3>3. /\ stop' = [stop EXCEPT ![old[l]] = "stopping"]
          /\ pc' = [pc EXCEPT ![l] = "close"]
      BY <1>15, <3>2 DEF StopBegin
    <3>4. retired' = retired \cup {old[l]}  BY <2>1, <3>3 DEF retired
    <3>5. current[u] = old[l]
      BY <2>1, <2>2, <2>4, <3>1, CurrentServed DEF Effect
    <3>6. Serves(l, u)' /\ TakesEffect(l, u)'  BY <2>1, <3>3 DEF Serves, TakesEffect
    <3>7. current'[u] = IF op[l] = "register" THEN c ELSE None
      BY <2>1, <2>4, <3>6, CurrentServedNext DEF Effect
    <3>8. CASE op[l] = "register"
      <4>1. stop[c] = "open" /\ clients[u] # c
        BY <2>1, <3>8, <1>3 DEF Fresh, Working, Unlisted
      <4>2. current' = [current EXCEPT ![u] = c]  BY <1>8, <2>1, <2>4, <3>7, <3>8
      <4>3. c \notin retired  BY <2>1, <4>1 DEF retired
      <4>4. P!Connect(c)
        BY <2>1, <2>4, <3>1, <3>4, <3>5, <4>1, <4>2, <4>3 DEF P!Connect
      <4> QED BY <2>1, <4>4 DEF P!Next
    <3>9. CASE op[l] = "unregister"
      <4>1. current' = [current EXCEPT ![u] = None]  BY <1>8, <2>1, <2>4, <3>7, <3>9
      <4>2. old[l] = c  BY <3>1, <3>9
      <4>3. P!Disconnect(c)  BY <2>1, <3>4, <3>5, <4>1, <4>2 DEF P!Disconnect
      <4> QED BY <2>1, <4>3 DEF P!Next
    <3> QED BY <2>1, <3>8, <3>9
  <2> QED BY <2>3, <2>4
\* Steps of everybody else.
<1>16. ASSUME UNCHANGED <<clients, pc, op, job, old, stop, contested>>
       PROVE  UNCHANGED <<current, retired, contested>>
  BY <1>16 DEF current, retired, TakesEffect
<1>17. ASSUME NEW l \in Loops, LoopStep(l)
       PROVE  UNCHANGED <<current, retired, contested>> \/ P!Next
  <2>1. ASSUME NEW c \in Conns, RunRegister(l, c) \/ RunUnregister(l, c)
        PROVE  UNCHANGED <<current, retired, contested>> \/ P!Next
    BY <1>9, <2>1 DEF P!Next
  <2> QED BY <1>11, <1>12, <1>13, <1>14, <1>15, <1>17, <2>1 DEF LoopStep
<1> QED BY <1>16, <1>17, MapFrame

LEMMA ClosingInvariant == Spec => []Closing
<1>1. Init => Closing  BY DEF Init, Closing
<1> QED BY <1>1, ClosingStep, TypeInvInit, TypeInvStep, PTL DEF Spec

\* However many loops run, the hub implements its abstract specification: a user
\* has one current connection, the newest, and what it replaces is retired with
\* it, until two loops serve that user at once.
THEOREM HubImplementsPresence == Spec => ImplementsPresence
<1>1. Init => P!Init  BY RefineInit
<1>2. TypeInv /\ TypeInv' /\ MapInv /\ ContestInv /\ ContestInv' /\ Closing /\ [Next]_vars
         => [P!Next]_<<current, retired, contested>>
  BY RefineStep
<1> QED BY <1>1, <1>2, ContestInvariant, ClosingInvariant, PTL
        DEF Spec, ImplementsPresence, P!Spec, P!presenceVars

\* What Presence implies: its invariant, and that nobody comes back.
PresenceInv ==
    /\ current \in [Users -> Conns \cup {None}]
    /\ retired \subseteq Conns
    /\ \A u \in contested : u \in Users => current[u] = None
    /\ P!CurrentIsAlive

LEMMA PresenceInit == P!Init => PresenceInv
BY DEF P!Init, PresenceInv, P!CurrentIsAlive

LEMMA PresenceStep ==
    ASSUME PresenceInv, [P!Next]_<<current, retired, contested>>
    PROVE  /\ PresenceInv'
           /\ \A c \in retired : c \in retired' /\ \A u \in Users : current'[u] # c
<1> USE HubAssumption DEF HubAssumption, PresenceInv
<1>0. retired' \subseteq Conns  BY DEF retired
<1>1. ASSUME NEW c \in Conns, P!Connect(c)
      PROVE  /\ PresenceInv'
             /\ \A d \in retired : d \in retired' /\ \A u \in Users : current'[u] # d
  <2>1. /\ current' \in [Users -> Conns \cup {None}]
        /\ \A u \in Users : current'[u] = IF u = Owner[c] THEN c ELSE current[u]
        /\ c \notin retired /\ current[Owner[c]] # c /\ Owner[c] \notin contested
        /\ retired' = retired \cup ({current[Owner[c]]} \ {None})
        /\ contested' = contested
    BY <1>1 DEF P!Connect
  <2>2. P!CurrentIsAlive'
    BY <2>1 DEF P!CurrentIsAlive
  <2>3. \A d \in retired : d \in retired' /\ \A u \in Users : current'[u] # d
    BY <2>1 DEF P!CurrentIsAlive
  <2>4. \A u \in contested' : u \in Users => current'[u] = None  BY <2>1
  <2> QED BY <1>0, <2>1, <2>2, <2>3, <2>4
<1>2. ASSUME NEW c \in Conns, P!Disconnect(c)
      PROVE  /\ PresenceInv'
             /\ \A d \in retired : d \in retired' /\ \A u \in Users : current'[u] # d
  <2>1. /\ current' \in [Users -> Conns \cup {None}]
        /\ \A u \in Users : current'[u] = IF u = Owner[c] THEN None ELSE current[u]
        /\ current[Owner[c]] = c
        /\ retired' = retired \cup {c}
        /\ contested' = contested
    BY <1>2 DEF P!Disconnect
  <2>2. P!CurrentIsAlive'
    BY <2>1 DEF P!CurrentIsAlive
  <2>3. \A d \in retired : d \in retired' /\ \A u \in Users : current'[u] # d
    BY <2>1 DEF P!CurrentIsAlive
  <2>4. \A u \in contested' : u \in Users => current'[u] = None  BY <2>1
  <2> QED BY <1>0, <2>1, <2>2, <2>3, <2>4
<1>3. ASSUME NEW v \in Users, P!Contest(v)
      PROVE  /\ PresenceInv'
             /\ \A d \in retired : d \in retired' /\ \A u \in Users : current'[u] # d
  <2>1. /\ current' \in [Users -> Conns \cup {None}]
        /\ \A u \in Users : current'[u] = IF u = v THEN None ELSE current[u]
        /\ retired' = retired /\ contested' = contested \cup {v}
    BY <1>3 DEF P!Contest
  <2>2. P!CurrentIsAlive' /\ \A d \in retired : \A u \in Users : current'[u] # d
    BY <2>1 DEF P!CurrentIsAlive
  <2>3. \A u \in contested' : u \in Users => current'[u] = None  BY <2>1
  <2> QED BY <1>0, <2>1, <2>2, <2>3
<1>4. ASSUME NEW c \in Conns, P!Retire(c)
      PROVE  /\ PresenceInv'
             /\ \A d \in retired : d \in retired' /\ \A u \in Users : current'[u] # d
  <2>1. /\ current' = current /\ contested' = contested
        /\ retired' = retired \cup {c} /\ Owner[c] \in contested
    BY <1>4 DEF P!Retire
  <2>2. \A u \in Users : current[u] # c
    BY <2>1 DEF P!CurrentIsAlive
  <2>3. P!CurrentIsAlive' /\ \A d \in retired : \A u \in Users : current'[u] # d
    BY <2>1, <2>2 DEF P!CurrentIsAlive
  <2> QED BY <1>0, <2>1, <2>3
<1>5. CASE UNCHANGED <<current, retired, contested>>
  BY <1>0, <1>5 DEF P!CurrentIsAlive
<1> QED BY <1>1, <1>2, <1>3, <1>4, <1>5 DEF P!Next

LEMMA PresenceInvariant ==
    Spec => []PresenceInv /\ [][P!Next]_<<current, retired, contested>>
<1>1. Spec => P!Init /\ [][P!Next]_<<current, retired, contested>>
  <2>1. ImplementsPresence => P!Init /\ [][P!Next]_<<current, retired, contested>>
    BY DEF ImplementsPresence, P!Spec, P!presenceVars
  <2> QED BY <2>1, HubImplementsPresence, PTL
<1> QED BY <1>1, PresenceInit, PresenceStep, PTL

\* So the connection the hub has for a user, whom no two loops met over, is one
\* he opened and that nobody began to stop,
THEOREM CurrentStaysAlive == Spec => []P!CurrentIsAlive
<1>1. PresenceInv => P!CurrentIsAlive  BY DEF PresenceInv
<1> QED BY <1>1, PresenceInvariant, PTL

\* and a connection that was stopped never becomes a user's again: neither a
\* late register handler nor a late unregister brings it back.
THEOREM StoppedForGood == Spec => P!RetiredForGood
<1>1. PresenceInv /\ [P!Next]_<<current, retired, contested>> =>
          [\A c \in retired : c \in retired' /\ \A u \in Users : current'[u] # c
          ]_<<current, retired, contested>>
  BY PresenceStep
<1>2. [][\A c \in retired : c \in retired' /\ \A u \in Users : current'[u] # c
      ]_<<current, retired, contested>> => P!RetiredForGood
  BY DEF P!RetiredForGood, P!presenceVars
<1> QED BY <1>1, <1>2, PresenceInvariant, PTL

----------------------------------------------------------------------------
(* Delivery.  The messages of a caller are numbered in call order, and those *)
(* a connection has written, holds and buffers are in that order, one        *)
(* behind the other; a call in progress has a number nobody has seen yet.    *)

Before(m, n) == m.by = n.by => m.n < n.n

Sorted(s) == \A i, j \in 1..Len(s) : i < j => Before(s[i], s[j])

AllBefore(s, m) == \A i \in 1..Len(s) : Before(s[i], m)

Calling(k) == kpc[k] \in {"lookup", "check", "enqueue"}

Sound(c, m) ==
    /\ m.to = Owner[c]
    /\ m.n <= seq[m.by]
    /\ Calling(m.by) => m.n < seq[m.by]

Addressed ==
    /\ \A k \in Callers : kpc[k] \in {"check", "enqueue"} => Owner[kconn[k]] = kto[k]
    /\ \A c \in Conns : /\ \A m \in held[c] : Sound(c, m)
                        /\ \A i \in 1..Len(written[c]) : Sound(c, written[c][i])
                        /\ \A i \in 1..Len(send[c]) : Sound(c, send[c][i])

Ordered ==
    \A c \in Conns :
        /\ Sorted(written[c]) /\ Sorted(send[c])
        /\ \A m \in held[c] : /\ AllBefore(written[c], m)
                              /\ \A i \in 1..Len(send[c]) : Before(m, send[c][i])
        /\ \A i \in 1..Len(send[c]) : AllBefore(written[c], send[c][i])

LEMMA SortedAppend ==
    ASSUME NEW s \in Seq(Message), NEW m \in Message, Sorted(s), AllBefore(s, m)
    PROVE  Sorted(Append(s, m))
BY DEF Sorted, AllBefore

LEMMA SortedTail ==
    ASSUME NEW s \in Seq(Message), s # <<>>, Sorted(s)
    PROVE  /\ Sorted(Tail(s))
           /\ \A i \in 1..Len(Tail(s)) : Before(Head(s), Tail(s)[i])
BY DEF Sorted

LEMMA DeliveryInit == Init => Addressed /\ Ordered
BY DEF Init, Addressed, Ordered, Sorted, AllBefore

LEMMA DeliveryStep ==
    TypeInv /\ TypeInv' /\ Listed /\ Addressed /\ Ordered /\ [Next]_vars
        => Addressed' /\ Ordered'
<1> SUFFICES ASSUME TypeInv, TypeInv', Listed, Addressed, Ordered, [Next]_vars
             PROVE  Addressed' /\ Ordered'
  OBVIOUS
<1> USE HubAssumption DEF HubAssumption
<1>1. /\ held \in [Conns -> SUBSET Message]
      /\ send \in [Conns -> Seq(Message)] /\ written \in [Conns -> Seq(Message)]
      /\ kpc \in [Callers -> {"idle", "lookup", "check", "enqueue", "listing"}]
      /\ kto \in [Callers -> Users \cup {None}]
      /\ kconn \in [Callers -> Conns \cup {None}]
      /\ seq \in [Callers -> 0..MaxSends]
      /\ clients \in [Users -> Conns \cup {None}]
      /\ MaxSends \in Nat
  BY DEF TypeInv, TypeOK
<1>2. \A k \in Callers : /\ Calling(k) => kto[k] \in Users /\ seq[k] \in 1..MaxSends
                         /\ kpc[k] \in {"check", "enqueue"} => kconn[k] \in Conns
  BY DEF TypeInv, LocalsOK, Calling
\* Steps that touch neither a queue nor a caller.
<1>3. ASSUME UNCHANGED <<held, send, written, callVars>> PROVE Addressed' /\ Ordered'
  <2>1. Addressed'  BY <1>3 DEF Addressed, Sound, Calling, callVars
  <2>2. Ordered'  BY <1>3 DEF Ordered
  <2> QED BY <2>1, <2>2
<1>4. ASSUME NEW l \in Loops, LoopStep(l) \/ MapFault(l) PROVE Addressed' /\ Ordered'
  BY <1>3, <1>4 DEF LoopStep, Lookup, StopBegin, StopEnd, BeginWrite, EndWrite, RunRegister,
                    RunUnregister, MapFault, pumpVars
<1>5. ASSUME NEW c \in Conns, \/ HandlerStart(c) \/ SpawnedStart(c) \/ Handle(c)
                              \/ CallUnregister(c) \/ PeerGone(c)
                              \/ PingErr(c) \/ SeeStop(c) \/ ReadErr(c)
      PROVE Addressed' /\ Ordered'
  BY <1>3, <1>5 DEF HandlerStart, SpawnedStart, Start, Handle, CallUnregister, PeerGone,
                    PingErr, SeeStop, ReadErr, pumpVars
<1>6. ASSUME NEW c \in Conns, Take(c) PROVE Addressed' /\ Ordered'
  <2>1. \A m : m \notin held[c]  BY <1>6, WaitingHoldsNothing DEF Take, TypeInv
  <2>2. send[c] # <<>> /\ send[c] \in Seq(Message)  BY <1>1, <1>6 DEF Take
  <2> DEFINE h == Head(send[c])
  <2>3. /\ h = send[c][1] /\ 1 \in 1..Len(send[c])
        /\ Len(Tail(send[c])) = Len(send[c]) - 1
        /\ \A i \in 1..Len(Tail(send[c])) : /\ i + 1 \in 1..Len(send[c])
                                            /\ Tail(send[c])[i] = send[c][i + 1]
    BY <2>2
  <2>4. /\ held' = [held EXCEPT ![c] = @ \cup {h}]
        /\ send' = [send EXCEPT ![c] = Tail(@)]
        /\ UNCHANGED <<written, kpc, kto, kconn, seq>>
    BY <1>6 DEF Take, callVars
  <2>5. \A m \in held'[c] : m = h  BY <1>1, <2>1, <2>4
  <2>6. send'[c] = Tail(send[c])  BY <1>1, <2>4
  <2>7. \A d \in Conns \ {c} : held'[d] = held[d] /\ send'[d] = send[d]
    BY <1>1, <2>4
  <2> HIDE DEF h
  <2>8. Addressed'
    <3>1. Sound(c, h)  BY <2>3 DEF Addressed
    <3>2. \A i \in 1..Len(send'[c]) : Sound(c, send'[c][i])
      BY <2>3, <2>6 DEF Addressed
    <3> QED BY <2>4, <2>5, <2>7, <3>1, <3>2 DEF Addressed, Sound, Calling
  <2>9. Ordered'
    <3>1. /\ Sorted(send'[c])
          /\ \A i \in 1..Len(send'[c]) : Before(h, send'[c][i])
      BY <2>2, <2>6, SortedTail DEF Ordered, h
    <3>2. AllBefore(written[c], h)  BY <2>3 DEF Ordered
    <3>3. \A i \in 1..Len(send'[c]) : AllBefore(written[c], send'[c][i])
      BY <2>3, <2>6 DEF Ordered
    <3> QED BY <2>4, <2>5, <2>7, <3>1, <3>2, <3>3 DEF Ordered
  <2> QED BY <2>8, <2>9
<1>7. ASSUME NEW c \in Conns, WriteOk(c) PROVE Addressed' /\ Ordered'
  <2>1. PICK m \in held[c] : /\ held' = [held EXCEPT ![c] = @ \ {m}]
                             /\ written' = [written EXCEPT ![c] = Append(@, m)]
    BY <1>7 DEF WriteOk
  <2>2. UNCHANGED <<send, kpc, kto, kconn, seq>>  BY <1>7 DEF WriteOk, callVars
  <2>3. m \in Message /\ written[c] \in Seq(Message)  BY <1>1
  <2>4. /\ Len(Append(written[c], m)) = Len(written[c]) + 1
        /\ \A i \in 1..Len(written[c]) : Append(written[c], m)[i] = written[c][i]
        /\ Append(written[c], m)[Len(written[c]) + 1] = m
    BY <2>3
  <2>5. /\ written'[c] = Append(written[c], m)
        /\ \A n : n \notin held'[c]
        /\ \A d \in Conns \ {c} : held'[d] = held[d] /\ written'[d] = written[d]
    BY <1>1, <2>1 DEF TypeInv, OnePump
  <2>6. \A i \in 1..Len(written'[c]) : i \in 1..Len(written[c]) \/ i = Len(written[c]) + 1
    BY <2>3, <2>4, <2>5
  <2>7. Addressed'
    <3>1. \A i \in 1..Len(written'[c]) : Sound(c, written'[c][i])
      BY <2>1, <2>4, <2>5, <2>6 DEF Addressed
    <3>2. \A d, x : Sound(d, x) => Sound(d, x)'  BY <2>2 DEF Sound, Calling
    <3> HIDE DEF Sound
    <3>3. \A i \in 1..Len(written'[c]) : Sound(c, written[c][i])'  BY <3>1, <3>2
    <3>4. \A d \in Conns : \A i \in 1..Len(written'[d]) : Sound(d, written[d][i])'
      BY <2>5, <3>2, <3>3 DEF Addressed
    <3>5. \A d \in Conns : /\ \A i \in 1..Len(send[d]) : Sound(d, send[d][i])'
                           /\ \A x \in held'[d] : Sound(d, x)'
      BY <2>2, <2>5, <3>2 DEF Addressed
    <3> QED BY <2>2, <3>4, <3>5 DEF Addressed
  <2>8. Ordered'
    <3>1. Sorted(written'[c])  BY <2>3, <2>5, SortedAppend DEF Ordered
    <3>2. \A i \in 1..Len(send[c]) : AllBefore(written'[c], send[c][i])
      BY <2>1, <2>4, <2>5, <2>6 DEF Ordered, AllBefore
    <3> QED BY <2>2, <2>5, <3>1, <3>2 DEF Ordered
  <2> QED BY <2>7, <2>8
<1>8. ASSUME NEW c \in Conns, WriteErr(c) PROVE Addressed' /\ Ordered'
  <2>1. \A d \in Conns : held'[d] \subseteq held[d]  BY <1>1, <1>8 DEF WriteErr
  <2>2. UNCHANGED <<send, written, kpc, kto, kconn, seq>>  BY <1>8 DEF WriteErr, callVars
  <2>3. Addressed'  BY <2>1, <2>2 DEF Addressed, Sound, Calling
  <2>4. Ordered'  BY <2>1, <2>2 DEF Ordered
  <2> QED BY <2>3, <2>4
<1>9. ASSUME NEW k \in Callers, NEW u \in Users, SendTo(k, u) PROVE Addressed' /\ Ordered'
  <2>1. /\ UNCHANGED <<held, send, written, kconn>>
        /\ kpc[k] = "idle" /\ kpc' = [kpc EXCEPT ![k] = "lookup"]
        /\ kto' = [kto EXCEPT ![k] = u] /\ seq' = [seq EXCEPT ![k] = @ + 1]
    BY <1>9 DEF SendTo, pumpVars
  <2>2. ASSUME NEW c \in Conns, NEW m \in Message, Sound(c, m) PROVE Sound(c, m)'
    BY <1>1, <2>1, <2>2 DEF Sound, Calling, Message
  <2>3. Addressed'  BY <1>1, <2>1, <2>2 DEF Addressed
  <2>4. Ordered'  BY <2>1 DEF Ordered
  <2> QED BY <2>3, <2>4
<1>10. ASSUME NEW k \in Callers, kpc[k] # "enqueue", UNCHANGED <<held, send, written, kto, seq>>,
              \/ SendLookup(k) \/ SendCheck(k) \/ GetConnectedUsers(k)
       PROVE Addressed' /\ Ordered'
  <2>1. \A j \in Callers : Calling(j)' => Calling(j)
    BY <1>1, <1>10 DEF SendLookup, SendCheck, GetConnectedUsers, Calling
  <2>2. ASSUME NEW c \in Conns, NEW m \in Message, Sound(c, m) PROVE Sound(c, m)'
    BY <1>10, <2>1, <2>2 DEF Sound, Message
  <2>3. \A j \in Callers : kpc'[j] \in {"check", "enqueue"} => Owner[kconn'[j]] = kto'[j]
    <3>1. CASE SendLookup(k)
      BY <1>1, <1>2, <3>1 DEF SendLookup, Addressed, Listed, Calling
    <3>2. CASE SendCheck(k)  BY <1>1, <3>2 DEF SendCheck, Addressed
    <3>3. CASE GetConnectedUsers(k)  BY <1>1, <3>3 DEF GetConnectedUsers, Addressed
    <3> QED BY <1>10, <3>1, <3>2, <3>3
  <2>4. Addressed'  BY <1>1, <1>10, <2>2, <2>3 DEF Addressed
  <2>5. Ordered'  BY <1>10 DEF Ordered
  <2> QED BY <2>4, <2>5
<1>11. ASSUME NEW k \in Callers, SendEnqueue(k) PROVE Addressed' /\ Ordered'
  <2>a. kpc[k] = "enqueue" /\ kconn[k] \in Conns /\ kto[k] \in Users /\ seq[k] \in 1..MaxSends
    BY <1>2, <1>11 DEF SendEnqueue, Calling
  <2>b. PICK c \in Conns : c = kconn[k]  BY <2>a
  <2>c. PICK m \in Message : m = [by |-> k, n |-> seq[k], to |-> kto[k]]
    BY <2>a DEF Message
  <2>1. /\ kpc' = [kpc EXCEPT ![k] = "idle"]
        /\ UNCHANGED <<held, written, kto, kconn, seq>>
        /\ send' = [send EXCEPT ![c] = IF Len(@) < SendCap THEN Append(@, m) ELSE @]
    BY <1>11, <2>b, <2>c DEF SendEnqueue
  <2>2. /\ m.to = Owner[c] /\ m.n = seq[k] /\ m.by = k
        /\ send[c] \in Seq(Message)
    BY <1>1, <2>a, <2>b, <2>c DEF Addressed
  <2>3. ASSUME NEW d \in Conns, NEW x \in Message, Sound(d, x)
        PROVE  Sound(d, x)' /\ Before(x, m)
    BY <1>1, <2>a, <2>1, <2>2, <2>3 DEF Sound, Calling, Message, Before
  <2>4. Sound(c, m)'
    BY <1>1, <2>1, <2>2 DEF Sound, Calling
  <2>5. CASE send' = send
    <3>1. Addressed'  BY <1>1, <2>1, <2>3, <2>5 DEF Addressed
    <3>2. Ordered'  BY <2>1, <2>5 DEF Ordered
    <3> QED BY <3>1, <3>2
  <2>6. CASE send' = [send EXCEPT ![c] = Append(@, m)]
    <3>1. /\ Len(Append(send[c], m)) = Len(send[c]) + 1
          /\ \A i \in 1..Len(send[c]) : Append(send[c], m)[i] = send[c][i]
          /\ Append(send[c], m)[Len(send[c]) + 1] = m
      BY <2>2
    <3>2. /\ send'[c] = Append(send[c], m)
          /\ \A d \in Conns \ {c} : send'[d] = send[d]
      BY <1>1, <2>6, <2>2
    <3>3. \A i \in 1..Len(send'[c]) : i \in 1..Len(send[c]) \/ i = Len(send[c]) + 1
      BY <2>2, <3>1, <3>2
    <3>4. \A d \in Conns : \A i \in 1..Len(send[d]) : send[d][i] \in Message
      BY <1>1
    <3>5. \A d \in Conns : \A i \in 1..Len(written[d]) : written[d][i] \in Message
      BY <1>1
    <3>6. Addressed'
      <4>1. ASSUME NEW i \in 1..Len(send'[c]) PROVE Sound(c, send[c][i])'
        <5>1. CASE i \in 1..Len(send[c])
          <6>1. Sound(c, send[c][i]) /\ send'[c][i] = send[c][i] /\ send[c][i] \in Message
            BY <2>2, <3>1, <3>2, <3>4, <5>1 DEF Addressed
          <6> QED BY <2>2, <2>3, <6>1 DEF Sound, Calling
        <5>2. CASE i = Len(send[c]) + 1
          <6>1. send'[c][i] = m  BY <3>1, <3>2, <5>2
          <6> QED BY <2>4, <6>1 DEF Sound, Calling
        <5> QED BY <3>3, <5>1, <5>2
      <4>2. ASSUME NEW d \in Conns, NEW i \in 1..Len(send'[d]) PROVE Sound(d, send[d][i])'
        <5>1. CASE d # c
          <6>1. send'[d] = send[d]  BY <3>2, <5>1
          <6>2. Sound(d, send[d][i]) /\ send[d][i] \in Message
            BY <3>4, <6>1 DEF Addressed
          <6> QED BY <2>3, <6>1, <6>2 DEF Sound, Calling
        <5> QED BY <4>1, <5>1
      <4>3. ASSUME NEW d \in Conns
            PROVE  /\ \A x \in held'[d] : Sound(d, x)'
                   /\ \A i \in 1..Len(written'[d]) : Sound(d, written[d][i])'
        <5>1. \A x \in held[d] : x \in Message /\ Sound(d, x)  BY <1>1 DEF Addressed
        <5>2. \A i \in 1..Len(written[d]) : Sound(d, written[d][i])  BY DEF Addressed
        <5>3. \A x \in Message : Sound(d, x) => Sound(d, x)'  BY <2>3
        <5> QED BY <2>1, <3>5, <5>1, <5>2, <5>3 DEF Sound, Calling
      <4>4. \A j \in Callers : kpc'[j] \in {"check", "enqueue"} => Owner[kconn'[j]] = kto'[j]
        BY <1>1, <2>1 DEF Addressed
      <4> QED BY <2>1, <4>2, <4>3, <4>4 DEF Addressed
    <3>7. Ordered'
      <4>1. AllBefore(send[c], m)  BY <2>2, <2>3, <3>4 DEF AllBefore, Addressed
      <4>2. Sorted(send'[c])  BY <2>2, <3>2, <4>1, SortedAppend DEF Ordered
      <4>3. \A x \in held[c] : \A i \in 1..Len(send'[c]) : Before(x, send'[c][i])
        BY <1>1, <2>2, <2>3, <3>1, <3>2, <3>3 DEF Ordered, Addressed
      <4>4. AllBefore(written[c], m)  BY <2>2, <2>3, <3>5 DEF AllBefore, Addressed
      <4>5. \A i \in 1..Len(send'[c]) : AllBefore(written[c], send'[c][i])
        BY <2>2, <3>1, <3>2, <3>3, <4>4 DEF Ordered
      <4> QED BY <2>1, <2>2, <3>2, <4>2, <4>3, <4>5 DEF Ordered
    <3> QED BY <3>6, <3>7
  <2> QED BY <1>1, <2>1, <2>5, <2>6
<1>12. ASSUME NEW k \in Callers, CallStep(k) PROVE Addressed' /\ Ordered'
  <2>1. CASE SendLookup(k) \/ SendCheck(k) \/ GetConnectedUsers(k)
    BY <1>10, <2>1 DEF SendLookup, SendCheck, GetConnectedUsers, pumpVars
  <2> QED BY <1>9, <1>11, <1>12, <2>1 DEF CallStep
<1> QED BY <1>3, <1>4, <1>5, <1>6, <1>7, <1>8, <1>12 DEF Next, PumpStep, vars, pumpVars

\* However many loops and callers run, and however connections come and go:
\* a socket carries only its user's messages, those of a caller in call order.
THEOREM OrderedDelivery == Spec => []Delivery
<1>1. Spec => [](TypeInv /\ MapInv /\ Addressed /\ Ordered)
  BY TypeInvInit, TypeInvStep, MapInvInit, MapInvStep, DeliveryInit, DeliveryStep, PTL
     DEF Spec, MapInv
<1>2. Addressed /\ Ordered => Delivery
  BY DEF Addressed, Ordered, Sorted, Before, Sound, Delivery
<1> QED BY <1>1, <1>2, PTL

----------------------------------------------------------------------------
(* Order across connections, whatever the number of loops.  A connection     *)
(* that is listed was listed after every other one of its user, so what the  *)
(* others got or may still get is older than what it may still get; and a    *)
(* call that found another one has sent nothing to this one yet.             *)

\* Message m was accepted by Client.Send and is neither written nor lost.
Pending(c, m) == m \in held[c] \/ \E i \in 1..Len(send[c]) : send[c][i] = m

\* SendTo of caller k has found connection c in the map.
Sending(k, c) == kpc[k] \in {"check", "enqueue"} /\ kconn[k] = c

Untouched(c) ==
    /\ \A m \in Message : ~Pending(c, m)
    /\ \A k \in Callers : ~Sending(k, c)

\* Nothing reaches a connection before handleRegister has listed it.
FreshUntouched ==
    /\ \A c \in Conns : handler[c] \in {"absent", "register"} => Untouched(c)
    /\ \A l \in Loops : \A c \in Conns : Working(l, c) => Untouched(c)

Ahead(c, d) ==
    \A m \in Message : Pending(c, m) =>
        /\ \A x \in Message : Pending(d, x) => Before(x, m)
        /\ \A i \in 1..Len(written[d]) : Before(written[d][i], m)
        /\ \A k \in Callers : Sending(k, d) => m.by # k

ListedAhead ==
    \A c, d \in Conns :
        c # d /\ Owner[d] = Owner[c] /\ clients[Owner[c]] = c => Ahead(c, d)

\* Most steps only move messages on, or out.
Settles ==
    /\ \A c \in Conns : \A m \in Message : Pending(c, m)' => Pending(c, m)
    /\ \A c \in Conns : \A i \in 1..Len(written'[c]) :
           \/ \E j \in 1..Len(written[c]) : written'[c][i] = written[c][j]
           \/ Pending(c, written'[c][i])
    /\ \A c \in Conns : \A k \in Callers : Sending(k, c)' => Sending(k, c)

QueueTypes ==
    /\ held \in [Conns -> SUBSET Message]
    /\ send \in [Conns -> Seq(Message)] /\ written \in [Conns -> Seq(Message)]
    /\ kpc \in [Callers -> {"idle", "lookup", "check", "enqueue", "listing"}]
    /\ kconn \in [Callers -> Conns \cup {None}]

\* The steps that touch a queue or a call in progress leave the map alone.
LEMMA QueueFrame ==
    ASSUME [Next]_vars
    PROVE  \/ UNCHANGED <<held, send, written, kpc, kconn>>
           \/ /\ UNCHANGED <<clients, pc, op, job, handler>>
              /\ \/ \E c \in Conns : Take(c) \/ WriteOk(c) \/ WriteErr(c)
                 \/ \E k \in Callers : \/ SendLookup(k) \/ SendCheck(k) \/ SendEnqueue(k)
                                       \/ GetConnectedUsers(k)
                                       \/ \E u \in Users : SendTo(k, u)
<1> USE DEF loopVars, connVars, pumpVars, sockVars, callVars
<1>1. ASSUME NEW l \in Loops, LoopStep(l) \/ MapFault(l)
      PROVE  UNCHANGED <<held, send, written, kpc, kconn>>
  BY <1>1 DEF LoopStep, Lookup, StopBegin, StopEnd, BeginWrite, EndWrite, RunRegister,
              RunUnregister, MapFault
<1>2. ASSUME NEW c \in Conns, \/ HandlerStart(c) \/ SpawnedStart(c) \/ Handle(c)
                              \/ CallUnregister(c) \/ PeerGone(c)
                              \/ PingErr(c) \/ SeeStop(c) \/ ReadErr(c)
      PROVE  UNCHANGED <<held, send, written, kpc, kconn>>
  BY <1>2 DEF HandlerStart, SpawnedStart, Start, Handle, CallUnregister, PeerGone,
              PingErr, SeeStop, ReadErr
<1>3. ASSUME NEW c \in Conns, Take(c) \/ WriteOk(c) \/ WriteErr(c)
      PROVE  UNCHANGED <<clients, pc, op, job, handler>>
  BY <1>3 DEF Take, WriteOk, WriteErr
<1>4. ASSUME NEW k \in Callers, CallStep(k)
      PROVE  UNCHANGED <<clients, pc, op, job, handler>>
  BY <1>4 DEF CallStep, SendLookup, SendCheck, SendEnqueue, GetConnectedUsers, SendTo
<1>5. CASE UNCHANGED vars  BY <1>5 DEF vars
<1> QED BY <1>1, <1>2, <1>3, <1>4, <1>5 DEF Next, PumpStep, CallStep

LEMMA QuietSettles ==
    ASSUME UNCHANGED <<held, send, written, kpc, kconn>>
    PROVE  Settles
BY DEF Settles, Pending, Sending

LEMMA PumpSettles ==
    ASSUME QueueTypes, NEW c \in Conns, Take(c) \/ WriteOk(c) \/ WriteErr(c)
    PROVE  Settles
<1>1. \A d \in Conns : \A k \in Callers : Sending(k, d)' => Sending(k, d)
  BY DEF Take, WriteOk, WriteErr, callVars, Sending
<1>2. CASE Take(c)
  <2>1. send[c] \in Seq(Message) /\ send[c] # <<>>  BY <1>2 DEF Take, QueueTypes
  <2>2. /\ Head(send[c]) = send[c][1] /\ 1 \in 1..Len(send[c])
        /\ \A i \in 1..Len(Tail(send[c])) : /\ i + 1 \in 1..Len(send[c])
                                            /\ Tail(send[c])[i] = send[c][i + 1]
    BY <2>1
  <2>3. /\ held' = [held EXCEPT ![c] = @ \cup {Head(send[c])}]
        /\ send' = [send EXCEPT ![c] = Tail(@)] /\ written' = written
    BY <1>2 DEF Take
  <2>4. /\ held'[c] = held[c] \cup {Head(send[c])} /\ send'[c] = Tail(send[c])
        /\ \A d \in Conns \ {c} : held'[d] = held[d] /\ send'[d] = send[d]
    BY <2>3 DEF QueueTypes
  <2>5. \A m \in Message : Pending(c, m)' => Pending(c, m)
    BY <2>2, <2>4 DEF Pending
  <2>6. \A d \in Conns : \A m \in Message : Pending(d, m)' => Pending(d, m)
    BY <2>4, <2>5 DEF Pending
  <2> QED BY <1>1, <2>3, <2>6 DEF Settles
<1>3. CASE WriteOk(c)
  <2>1. PICK m \in held[c] : /\ held' = [held EXCEPT ![c] = @ \ {m}]
                             /\ written' = [written EXCEPT ![c] = Append(@, m)]
    BY <1>3 DEF WriteOk
  <2>2. m \in Message /\ written[c] \in Seq(Message) /\ send' = send
    BY <1>3 DEF WriteOk, QueueTypes
  <2>3. /\ written'[c] = Append(written[c], m)
        /\ \A d \in Conns \ {c} : written'[d] = written[d]
        /\ \A d \in Conns : held'[d] \subseteq held[d]
    BY <2>1 DEF QueueTypes
  <2>4. ASSUME NEW i \in 1..Len(written'[c])
        PROVE  (\E j \in 1..Len(written[c]) : written'[c][i] = written[c][j])
               \/ written'[c][i] = m
    BY <2>2, <2>3
  <2>5. \A d \in Conns : \A x \in Message : Pending(d, x)' => Pending(d, x)
    BY <2>2, <2>3 DEF Pending
  <2>6. \A d \in Conns : \A i \in 1..Len(written'[d]) :
            \/ \E j \in 1..Len(written[d]) : written'[d][i] = written[d][j]
            \/ Pending(d, written'[d][i])
    BY <2>1, <2>3, <2>4 DEF Pending
  <2> QED BY <1>1, <2>5, <2>6 DEF Settles
<1>4. CASE WriteErr(c)
  <2>1. \A d \in Conns : held'[d] \subseteq held[d]  BY <1>4 DEF WriteErr, QueueTypes
  <2>2. UNCHANGED <<send, written>>  BY <1>4 DEF WriteErr
  <2> QED BY <1>1, <2>1, <2>2 DEF Settles, Pending
<1> QED BY <1>2, <1>3, <1>4

LEMMA CallSettles ==
    ASSUME QueueTypes, NEW k \in Callers,
           SendCheck(k) \/ GetConnectedUsers(k) \/ \E u \in Users : SendTo(k, u)
    PROVE  Settles
<1>1. UNCHANGED <<held, send, written, kconn>>
  BY DEF SendCheck, GetConnectedUsers, SendTo, pumpVars
<1>2. \A j \in Callers : kpc'[j] \in {"check", "enqueue"} => kpc[j] \in {"check", "enqueue"}
  BY DEF SendCheck, GetConnectedUsers, SendTo, QueueTypes
<1> QED BY <1>1, <1>2 DEF Settles, Pending, Sending

LEMMA SettledAhead ==
    ASSUME Settles, NEW c \in Conns, NEW d \in Conns, Ahead(c, d), QueueTypes, QueueTypes'
    PROVE  Ahead(c, d)'
<1>1. \A i \in 1..Len(written'[d]) : written'[d][i] \in Message  BY DEF QueueTypes
<1>2. \A m \in Message : Pending(c, m)' => Pending(c, m)  BY DEF Settles
<1>3. \A m \in Message : Pending(d, m)' => Pending(d, m)  BY DEF Settles
<1>4. \A k \in Callers : Sending(k, d)' => Sending(k, d)  BY DEF Settles
<1>5. \A i \in 1..Len(written'[d]) :
          \/ \E j \in 1..Len(written[d]) : written'[d][i] = written[d][j]
          \/ Pending(d, written'[d][i])
  BY DEF Settles
<1> SUFFICES ASSUME NEW m \in Message, Pending(c, m)'
             PROVE  /\ \A x \in Message : Pending(d, x)' => Before(x, m)
                    /\ \A i \in 1..Len(written'[d]) : Before(written'[d][i], m)
                    /\ \A k \in Callers : Sending(k, d)' => m.by # k
  BY DEF Ahead, Before
<1> QED BY <1>1, <1>2, <1>3, <1>4, <1>5 DEF Ahead

\* A connection comes into the map only by handleRegister.
LEMMA ListedByRegister ==
    ASSUME TypeInv, [Next]_vars, NEW c \in Conns, clients'[Owner[c]] = c
    PROVE  clients[Owner[c]] = c \/ \E l \in Loops : Working(l, c)
<1> USE HubAssumption DEF HubAssumption
<1>1. CASE UNCHANGED clients  BY <1>1
<1>2. ASSUME NEW l \in Loops, EndWrite(l)
      PROVE  clients[Owner[c]] = c \/ \E m \in Loops : Working(m, c)
  <2>1. job[l] \in Conns /\ clients \in [Users -> Conns \cup {None}]
    BY <1>2 DEF EndWrite, TypeInv, TypeOK, LocalsOK
  <2>2. op[l] \in {"register", "unregister"}  BY DEF TypeInv, TypeOK
  <2> QED BY <1>2, <2>1, <2>2 DEF EndWrite, Working
<1>3. ASSUME NEW l \in Loops, LoopStep(l)
      PROVE  clients[Owner[c]] = c \/ \E m \in Loops : Working(m, c)
  BY <1>1, <1>2, <1>3 DEF LoopStep, Lookup, StopBegin, StopEnd, BeginWrite, RunRegister,
                          RunUnregister
<1> QED BY <1>1, <1>3, MapFrame

\* Such a connection is worked on, or waits to be.
LEMMA WorkIsRegistered ==
    ASSUME TypeInv, [Next]_vars, NEW l \in Loops, NEW c \in Conns, Working(l, c)'
    PROVE  Working(l, c) \/ handler[c] = "register"
<1>1. /\ pc \in [Loops -> {"select", "lookup", "stop", "close", "write", "writing"}]
      /\ op \in [Loops -> {"register", "unregister"}]
      /\ job \in [Loops -> Conns \cup {None}]
  BY DEF TypeInv, TypeOK
<1>2. CASE UNCHANGED <<pc, op, job>>  BY <1>2 DEF Working
<1>3. ASSUME NEW m \in Loops, LoopStep(m) PROVE Working(l, c) \/ handler[c] = "register"
  <2>1. CASE Lookup(m) \/ StopBegin(m) \/ StopEnd(m) \/ BeginWrite(m)
    BY <1>1, <2>1 DEF Lookup, StopBegin, StopEnd, BeginWrite, Working
  <2>2. CASE EndWrite(m)  BY <1>1, <2>2 DEF EndWrite, Working
  <2>3. ASSUME NEW d \in Conns, RunRegister(m, d) \/ RunUnregister(m, d)
        PROVE  Working(l, c) \/ handler[c] = "register"
    BY <1>1, <2>3 DEF RunRegister, RunUnregister, Working
  <2> QED BY <1>3, <2>1, <2>2, <2>3 DEF LoopStep
<1> QED BY <1>2, <1>3, MapFrame

LEMMA FreshHandler ==
    ASSUME TypeInv, [Next]_vars, NEW c \in Conns, handler'[c] \in {"absent", "register"}
    PROVE  handler[c] \in {"absent", "register"}
<1>1. handler \in [Conns -> {"absent", "register", "start", "done"}]
  BY DEF TypeInv, TypeOK
<1>2. ASSUME NEW l \in Loops, LoopStep(l) PROVE handler[c] \in {"absent", "register"}
  BY <1>1, <1>2 DEF LoopStep, Lookup, StopBegin, StopEnd, BeginWrite, EndWrite, RunRegister,
                    RunUnregister, connVars
<1> QED BY <1>1, <1>2, MapFrame

\* Nobody sends to a connection that is not listed, unless he found it before.
LEMMA SendsToListed ==
    ASSUME QueueTypes, QueueTypes', Listed, LocalsOK, [Next]_vars,
           NEW c \in Conns, Untouched(c), clients[Owner[c]] # c
    PROVE  Untouched(c)'
<1> USE HubAssumption DEF HubAssumption
<1>1. ASSUME Settles PROVE Untouched(c)'
  BY <1>1 DEF Settles, Untouched
<1>2. ASSUME NEW k \in Callers, SendLookup(k) PROVE Untouched(c)'
  <2>1. UNCHANGED <<held, send>> /\ kto[k] \in Users
    BY <1>2 DEF SendLookup, pumpVars, LocalsOK
  <2>2. kpc'[k] = "check" => kconn'[k] # c
    BY <1>2, <2>1 DEF SendLookup, QueueTypes, Listed
  <2>3. \A j \in Callers \ {k} : kpc'[j] = kpc[j] /\ kconn'[j] = kconn[j]
    BY <1>2 DEF SendLookup, QueueTypes
  <2>4. kpc'[k] \in {"idle", "check"}  BY <1>2 DEF SendLookup, QueueTypes
  <2>5. \A j \in Callers : ~Sending(j, c)'
    BY <2>2, <2>3, <2>4 DEF Untouched, Sending
  <2> QED BY <2>1, <2>5 DEF Untouched, Pending
<1>3. ASSUME NEW k \in Callers, SendEnqueue(k) PROVE Untouched(c)'
  <2>1. kconn[k] # c  BY <1>3 DEF SendEnqueue, Untouched, Sending
  <2>2. UNCHANGED <<held, kconn>> /\ send'[c] = send[c]
    BY <1>3, <2>1 DEF SendEnqueue, QueueTypes
  <2>3. \A j \in Callers : Sending(j, c)' => Sending(j, c)
    BY <1>3, <2>2 DEF SendEnqueue, QueueTypes, Sending
  <2> QED BY <2>2, <2>3 DEF Untouched, Pending
<1> QED BY <1>1, <1>2, <1>3, QueueFrame, QuietSettles, PumpSettles, CallSettles

LEMMA FreshStep ==
    TypeInv /\ TypeInv' /\ MapInv /\ FreshUntouched /\ [Next]_vars => FreshUntouched'
<1> SUFFICES ASSUME TypeInv, TypeInv', MapInv, FreshUntouched, [Next]_vars
             PROVE  FreshUntouched'
  OBVIOUS
<1>1. QueueTypes /\ QueueTypes' /\ LocalsOK  BY DEF TypeInv, TypeOK, QueueTypes
<1>2. Listed /\ Fresh  BY DEF MapInv
<1>3. ASSUME NEW c \in Conns, Unlisted(c), Untouched(c) PROVE Untouched(c)'
  <2>1. clients[Owner[c]] # c  BY <1>3, HubAssumption DEF Unlisted, HubAssumption
  <2> QED BY <1>1, <1>2, <1>3, <2>1, SendsToListed
<1>4. ASSUME NEW c \in Conns, handler'[c] \in {"absent", "register"} PROVE Untouched(c)'
  <2>1. handler[c] \in {"absent", "register"}  BY <1>4, FreshHandler
  <2> QED BY <1>2, <1>3, <2>1 DEF Fresh, FreshUntouched
<1>5. ASSUME NEW l \in Loops, NEW c \in Conns, Working(l, c)' PROVE Untouched(c)'
  <2>1. Working(l, c) \/ handler[c] = "register"  BY <1>5, WorkIsRegistered
  <2> QED BY <1>2, <1>3, <2>1 DEF Fresh, FreshUntouched
<1> QED BY <1>4, <1>5 DEF FreshUntouched

\* What comes last was called last.
LEMMA AheadStep ==
    TypeInv /\ TypeInv' /\ MapInv /\ Addressed /\ FreshUntouched /\ ListedAhead /\ [Next]_vars
        => ListedAhead'
<1> SUFFICES ASSUME TypeInv, TypeInv', MapInv, Addressed, FreshUntouched, ListedAhead,
                    [Next]_vars
             PROVE  ListedAhead'
  OBVIOUS
<1> USE HubAssumption DEF HubAssumption
<1>1. QueueTypes /\ QueueTypes' /\ LocalsOK /\ Listed
  BY DEF TypeInv, TypeOK, QueueTypes, MapInv
<1>2. ASSUME NEW c \in Conns, NEW d \in Conns, c # d, Owner[d] = Owner[c],
             clients'[Owner[c]] = c, Settles
      PROVE  Ahead(c, d)'
  <2>1. CASE clients[Owner[c]] = c
    BY <1>1, <1>2, <2>1, SettledAhead DEF ListedAhead
  <2>2. CASE clients[Owner[c]] # c
    <3>1. Untouched(c)  BY <1>2, <2>2, ListedByRegister DEF FreshUntouched
    <3>2. \A m \in Message : ~Pending(c, m)'  BY <1>2, <3>1 DEF Untouched, Settles
    <3> QED BY <3>2 DEF Ahead
  <2> QED BY <2>1, <2>2
<1>3. ASSUME NEW k \in Callers, SendLookup(k), NEW c \in Conns, NEW d \in Conns, c # d,
             Owner[d] = Owner[c], clients'[Owner[c]] = c
      PROVE  Ahead(c, d)'
  <2>1. UNCHANGED <<held, send, written, clients>> /\ kto[k] \in Users
    BY <1>1, <1>3 DEF SendLookup, pumpVars, LocalsOK
  <2>2. Ahead(c, d)  BY <1>3, <2>1 DEF ListedAhead
  <2>3. kpc'[k] = "check" => kconn'[k] # d
    BY <1>1, <1>3, <2>1 DEF SendLookup, QueueTypes, Listed
  <2>4. \A j \in Callers \ {k} : kpc'[j] = kpc[j] /\ kconn'[j] = kconn[j]
    BY <1>1, <1>3 DEF SendLookup, QueueTypes
  <2>5. kpc'[k] \in {"idle", "check"}  BY <1>1, <1>3 DEF SendLookup, QueueTypes
  <2>6. \A j \in Callers : Sending(j, d)' => Sending(j, d)
    BY <2>3, <2>4, <2>5 DEF Sending
  <2> QED BY <2>1, <2>2, <2>6 DEF Ahead, Pending, Before
<1>4. ASSUME NEW k \in Callers, SendEnqueue(k), NEW c \in Conns, NEW d \in Conns, c # d,
             Owner[d] = Owner[c], clients'[Owner[c]] = c
      PROVE  Ahead(c, d)'
  <2> DEFINE n == [by |-> k, n |-> seq[k], to |-> kto[k]]
  <2>1. /\ kpc[k] = "enqueue" /\ kpc' = [kpc EXCEPT ![k] = "idle"]
        /\ UNCHANGED <<held, written, clients, kconn>>
        /\ send' = [send EXCEPT ![kconn[k]] = IF Len(@) < SendCap THEN Append(@, n) ELSE @]
    BY <1>4 DEF SendEnqueue
  <2>2. /\ kconn[k] \in Conns /\ kto[k] \in Users /\ seq[k] \in 1..MaxSends
        /\ n \in Message /\ n.by = k /\ n.n = seq[k]
    BY <1>1, <2>1 DEF LocalsOK, Message
  <2> HIDE DEF n
  <2>3. Ahead(c, d)  BY <1>4, <2>1 DEF ListedAhead
  <2>4. ASSUME NEW e \in Conns, NEW m \in Message, Pending(e, m)'
        PROVE  Pending(e, m) \/ (m = n /\ e = kconn[k])
    <3>1. send[e] \in Seq(Message)  BY <1>1 DEF QueueTypes
    <3>2. send'[e] = send[e] \/ (e = kconn[k] /\ send'[e] = Append(send[e], n))
      BY <1>1, <2>1, <2>2 DEF QueueTypes
    <3>3. \A i \in 1..Len(Append(send[e], n)) :
              \/ Append(send[e], n)[i] = n
              \/ i \in 1..Len(send[e]) /\ Append(send[e], n)[i] = send[e][i]
      BY <2>2, <3>1
    <3> QED BY <2>1, <2>4, <3>2, <3>3 DEF Pending
  <2>5. \A j \in Callers : \A e \in Conns : Sending(j, e)' => Sending(j, e)
    BY <1>1, <2>1 DEF Sending, QueueTypes
  <2>6. Calling(k)  BY <2>1 DEF Calling
  <2>7. ASSUME NEW e \in Conns, NEW x \in Message, Sound(e, x) PROVE Before(x, n)
    BY <2>2, <2>6, <2>7 DEF Sound, Before
  <2>8. ASSUME NEW m \in Message, Pending(c, m)'
        PROVE  /\ \A x \in Message : Pending(d, x)' => Before(x, m)
               /\ \A i \in 1..Len(written'[d]) : Before(written'[d][i], m)
               /\ \A j \in Callers : Sending(j, d)' => m.by # j
    <3>1. CASE Pending(c, m)
      <4>1. Sending(k, kconn[k])  BY <2>1 DEF Sending
      <4>2. kconn[k] = d => m.by # n.by  BY <2>2, <2>3, <3>1, <4>1 DEF Ahead
      <4> QED BY <2>1, <2>3, <2>4, <2>5, <3>1, <4>2 DEF Ahead, Before
    <3>2. CASE m = n /\ c = kconn[k]
      <4>1. \A x \in Message : Pending(d, x) => Sound(d, x)  BY DEF Addressed, Pending
      <4>2. \A i \in 1..Len(written[d]) : written[d][i] \in Message /\ Sound(d, written[d][i])
        BY <1>1 DEF Addressed, QueueTypes
      <4>3. \A j \in Callers : Sending(j, d)' => j # k
        BY <1>4, <2>5, <3>2 DEF Sending
      <4> QED BY <1>4, <2>1, <2>2, <2>4, <2>7, <3>2, <4>1, <4>2, <4>3
    <3> QED BY <2>4, <2>8, <3>1, <3>2
  <2> QED BY <2>8 DEF Ahead, Before
<1>5. ASSUME NEW c \in Conns, NEW d \in Conns, c # d, Owner[d] = Owner[c],
             clients'[Owner[c]] = c
      PROVE  Ahead(c, d)'
  BY <1>1, <1>2, <1>3, <1>4, <1>5, QueueFrame, QuietSettles, PumpSettles, CallSettles
<1> QED BY <1>5 DEF ListedAhead

\* What a connection is sent, it held, and its socket was open.
LEMMA Writes ==
    ASSUME TypeInv, [Next]_vars, NEW c \in Conns, Len(written'[c]) > Len(written[c])
    PROVE  /\ open[c]
           /\ \E m \in held[c] : /\ m \in Message /\ Pending(c, m)
                                 /\ written'[c][Len(written'[c])] = m
<1>1. QueueTypes  BY DEF TypeInv, TypeOK, QueueTypes
<1>2. written[c] \in Seq(Message) /\ Len(written[c]) \in Nat  BY <1>1 DEF QueueTypes
<1>3. ASSUME NEW d \in Conns, WriteOk(d)
      PROVE  open[c] /\ \E m \in held[c] : written'[c] = Append(written[c], m)
  <2>1. PICK m \in held[d] : written' = [written EXCEPT ![d] = Append(@, m)]
    BY <1>3 DEF WriteOk
  <2>2. c = d  BY <1>1, <1>2, <2>1 DEF QueueTypes
  <2>3. written'[c] = Append(written[c], m)  BY <1>1, <2>1, <2>2 DEF QueueTypes
  <2>4. open[c]  BY <1>3, <2>2 DEF WriteOk
  <2> QED BY <2>2, <2>3, <2>4
<1>4. written' # written  BY <1>2
<1>5. ASSUME NEW d \in Conns, Take(d) \/ WriteErr(d) PROVE FALSE
  BY <1>4, <1>5 DEF Take, WriteErr
<1>6. ASSUME NEW k \in Callers, \/ SendLookup(k) \/ SendCheck(k) \/ SendEnqueue(k)
                                \/ GetConnectedUsers(k) \/ \E u \in Users : SendTo(k, u)
      PROVE  FALSE
  BY <1>4, <1>6 DEF SendLookup, SendCheck, SendEnqueue, GetConnectedUsers, SendTo, pumpVars
<1>7. open[c] /\ \E m \in held[c] : written'[c] = Append(written[c], m)
  BY <1>3, <1>4, <1>5, <1>6, QueueFrame
<1>8. PICK m \in held[c] : written'[c] = Append(written[c], m)  BY <1>7
<1>9. m \in Message  BY <1>1 DEF QueueTypes
<1>10. written'[c][Len(written'[c])] = m  BY <1>2, <1>8, <1>9
<1> QED BY <1>7, <1>9, <1>10 DEF Pending

\* What a connection holds is newer than what it was sent, and than what those
\* were sent that it is ahead of.
LEMMA NewestWritten ==
    ASSUME TypeInv, Ordered, [Next]_vars, NEW c \in Conns, NEW d \in Conns,
           c # d /\ (\E m \in Message : Pending(c, m)) /\ open[c] => Ahead(c, d)
    PROVE  NewerThanOn(c, d)
<1> SUFFICES ASSUME Len(written'[c]) > Len(written[c])
             PROVE  LET m == written'[c][Len(written'[c])] IN
                    \A i \in 1..Len(written[d]) :
                        written[d][i].by = m.by => written[d][i].n < m.n
  BY DEF NewerThanOn
<1>1. PICK m \in held[c] : /\ m \in Message /\ Pending(c, m)
                           /\ written'[c][Len(written'[c])] = m
  BY Writes
<1>2. \A i \in 1..Len(written[d]) : Before(written[d][i], m)
  <2>1. CASE c = d  BY <1>1, <2>1 DEF Ordered, AllBefore
  <2>2. CASE c # d  BY <1>1, <2>2, Writes DEF Ahead
  <2> QED BY <2>1, <2>2
<1> QED BY <1>1, <1>2 DEF Before

OrderInv == TypeInv /\ MapInv /\ Addressed /\ Ordered /\ FreshUntouched /\ ListedAhead

LEMMA OrderInvariant == Spec => []OrderInv
<1>1. Init => FreshUntouched /\ ListedAhead
  <2>1. ASSUME Init, NEW c \in Conns PROVE Untouched(c)
    <3>1. held[c] = {} /\ Len(send[c]) = 0 /\ \A k \in Callers : kpc[k] = "idle"
      BY <2>1 DEF Init
    <3> QED BY <3>1 DEF Untouched, Pending, Sending
  <2> QED BY <2>1 DEF FreshUntouched, ListedAhead, Ahead, Untouched
<1>2. MapInv => Listed  BY DEF MapInv
<1> QED BY <1>1, <1>2, TypeInvInit, TypeInvStep, MapInvInit, MapInvStep, DeliveryInit,
           DeliveryStep, FreshStep, AheadStep, PTL DEF Spec, OrderInv

\* However many loops and callers run: what the listed connection is sent is
\* newer than what any connection of its user was sent before.
THEOREM CurrentConnectionsAreNewest == Spec => NewestOnCurrent
<1>1. OrderInv /\ [Next]_vars =>
          [\A c, d \in Conns :
              clients[Owner[c]] = c /\ Owner[d] = Owner[c] => NewerThanOn(c, d)]_vars
  <2> SUFFICES ASSUME OrderInv, [Next]_vars, NEW c \in Conns, NEW d \in Conns,
                      clients[Owner[c]] = c, Owner[d] = Owner[c]
               PROVE  NewerThanOn(c, d)
    OBVIOUS
  <2>1. c # d => Ahead(c, d)  BY DEF OrderInv, ListedAhead
  <2> QED BY <2>1, NewestWritten DEF OrderInv
<1> QED BY <1>1, OrderInvariant, PTL DEF Spec, NewestOnCurrent

----------------------------------------------------------------------------
(* Order across the connections of a user whom no two loops served at once:  *)
(* what is not listed is closed, or nothing was sent to it.                  *)

OffMapClosed ==
    \A c \in Conns : Owner[c] \notin contested =>
        clients[Owner[c]] = c \/ ~open[c] \/ Untouched(c)

\* No step opens a socket.
LEMMA StaysClosed ==
    ASSUME TypeInv, [Next]_vars, NEW c \in Conns, ~open[c]
    PROVE  ~open'[c]
<1>1. open \in [Conns -> BOOLEAN] /\ \A l \in Loops : pc[l] = "close" => old[l] \in Conns
  BY DEF TypeInv, TypeOK, LocalsOK
<1>2. CASE UNCHANGED open  BY <1>2
<1>3. ASSUME NEW l \in Loops, LoopStep(l) \/ MapFault(l) PROVE ~open'[c]
  BY <1>1, <1>2, <1>3 DEF LoopStep, Lookup, StopBegin, StopEnd, BeginWrite, EndWrite,
                          RunRegister, RunUnregister, MapFault, sockVars
<1>4. ASSUME NEW d \in Conns, PumpStep(d) PROVE ~open'[c]
  BY <1>1, <1>2, <1>4 DEF PumpStep, Take, WriteOk, WriteErr, PingErr, SeeStop, ReadErr,
                          PumpExit, sockVars
<1>5. ASSUME NEW d \in Conns, \/ HandlerStart(d) \/ SpawnedStart(d) \/ Handle(d)
                              \/ CallUnregister(d) \/ PeerGone(d)
      PROVE  ~open'[c]
  BY <1>2, <1>5 DEF HandlerStart, SpawnedStart, Handle, CallUnregister, PeerGone, sockVars
<1>6. ASSUME NEW k \in Callers, CallStep(k) PROVE ~open'[c]
  BY <1>2, <1>6 DEF CallStep, SendLookup, SendCheck, SendEnqueue, GetConnectedUsers, SendTo,
                    sockVars
<1> QED BY <1>2, <1>3, <1>4, <1>5, <1>6 DEF Next, vars, sockVars

LEMMA OffMapStep ==
    TypeInv /\ TypeInv' /\ MapInv /\ ContestInv /\ Closed /\ OffMapClosed /\ [Next]_vars
        => OffMapClosed'
<1> SUFFICES ASSUME TypeInv, TypeInv', MapInv, ContestInv, Closed, OffMapClosed, [Next]_vars,
                    NEW c \in Conns, Owner[c] \notin contested', open'[c],
                    clients'[Owner[c]] # c
             PROVE  Untouched(c)'
  BY DEF OffMapClosed
<1> USE HubAssumption DEF HubAssumption
<1>1. QueueTypes /\ QueueTypes' /\ LocalsOK /\ Listed
  BY DEF TypeInv, TypeOK, QueueTypes, MapInv
<1>2. open[c] /\ Owner[c] \notin contested  BY StaysClosed, ContestedStays
<1>3. clients[Owner[c]] # c
  <2>1. ASSUME clients[Owner[c]] = c PROVE stop[c] = "stopped"
    <3>1. PICK l \in Loops : EndWrite(l)
      BY <2>1, MapFrame DEF LoopStep, Lookup, StopBegin, StopEnd, BeginWrite, RunRegister,
                            RunUnregister
    <3>2. Owner[c] = Owner[job[l]]
      BY <2>1, <3>1 DEF EndWrite, TypeInv, TypeOK, LocalsOK
    <3> QED BY <1>2, <2>1, <3>1, <3>2 DEF EndWrite, LoopInv, ContestInv
  <2> QED BY <1>2, <2>1 DEF Closed
<1> QED BY <1>1, <1>2, <1>3, SendsToListed DEF OffMapClosed

\* A user whom no two loops served at the same time gets the messages of a
\* caller in the order of the calls, whatever connections they come by: the
\* relay of a sender's frames to him is a queue that may lose some.
THEOREM UncontestedInOrder == Spec => InOrder
<1>1. Init => Closed /\ OffMapClosed
  <2>1. ASSUME Init, NEW c \in Conns PROVE Untouched(c)
    <3>1. held[c] = {} /\ Len(send[c]) = 0 /\ \A k \in Callers : kpc[k] = "idle"
      BY <2>1 DEF Init
    <3> QED BY <3>1 DEF Untouched, Pending, Sending
  <2> QED BY <2>1 DEF Init, Closed, OffMapClosed
<1>2. OrderInv /\ OffMapClosed /\ [Next]_vars =>
          [\A c, d \in Conns :
              Owner[d] = Owner[c] /\ Owner[c] \notin contested => NewerThanOn(c, d)]_vars
  <2> SUFFICES ASSUME OrderInv, OffMapClosed, [Next]_vars, NEW c \in Conns, NEW d \in Conns,
                      Owner[d] = Owner[c], Owner[c] \notin contested
               PROVE  NewerThanOn(c, d)
    OBVIOUS
  <2>1. c # d /\ (\E m \in Message : Pending(c, m)) /\ open[c] => Ahead(c, d)
    BY DEF OrderInv, ListedAhead, OffMapClosed, Untouched
  <2> QED BY <2>1, NewestWritten DEF OrderInv
<1> QED BY <1>1, <1>2, ContestInvariant, ClosedStep, OffMapStep, OrderInvariant, PTL
        DEF Spec, InOrder
=============================================================================
