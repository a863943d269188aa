-------------------------- MODULE WsSessionProofs --------------------------
(***************************************************************************)
(* The safety properties of WsSession, for any number of logins.           *)
(*                                                                         *)
(* A run that is still awaiting and not unmounted is the one rendered now  *)
(* (Awaiting); so a socket is only ever opened for the rendered user, by a *)
(* run that had none, and every render of another user closes the socket   *)
(* in wsRef first.                                                         *)
(***************************************************************************)
EXTENDS WsSession, TLAPS

\* Pairs and runs are used once, in order.
Numbered ==
    /\ user <= last
    /\ \A r \in Runs : step[r] # "none" => r <= last
    /\ user # No /\ step[user] # "none" => ran = user

\* A run that may still open a socket belongs to the rendered user.
Awaiting == \A r \in Runs : step[r] = "init" /\ ~unmounted[r] => r = ran

Sockets == OneLiveSocket /\ LiveIsCurrent /\ StoreIsLive /\ OnlineIsReal

WsInv == TypeOK /\ Numbered /\ Awaiting /\ Sockets /\ Listened

\* The invariant holds before the first login.
LEMMA WsInvInit == Init => WsInv
<1> SUFFICES ASSUME Init PROVE WsInv
    OBVIOUS
<1> USE WsAssumption DEF WsAssumption, Init, Runs, No
<1>1. TypeOK
      <2>1. step \in [Runs -> {"none", "init", "done"}] /\ unmounted \in [Runs -> BOOLEAN]
            OBVIOUS
      <2>2. socket \in [Runs -> {"none", "connecting", "open", "closing", "closed"}]
            OBVIOUS
      <2>3. /\ user \in Runs \cup {No} /\ last \in 0..MaxRuns /\ ran \in Runs \cup {No}
            /\ wsRef \in Runs \cup {No} /\ store \in Runs \cup {No}
            /\ listening \in Runs \cup {No}
            OBVIOUS
      <2>4. online \in BOOLEAN /\ dirty \in BOOLEAN
            OBVIOUS
      <2>5. \A r \in Runs : socket[r] = "none"
            OBVIOUS
      <2> QED BY <2>1, <2>2, <2>3, <2>4, <2>5 DEF TypeOK
<1>2. Numbered /\ Awaiting
      BY DEF Numbered, Awaiting
<1>3. Sockets /\ Listened
      BY DEF Sockets, OneLiveSocket, LiveIsCurrent, StoreIsLive, OnlineIsReal, Listened, Live
<1> QED BY <1>1, <1>2, <1>3 DEF WsInv

\* Every step of the browser keeps the types.
LEMMA TypeOKStep == TypeOK /\ Numbered /\ [Next]_vars => TypeOK'
<1> SUFFICES ASSUME TypeOK, Numbered, [Next]_vars PROVE TypeOK'
    OBVIOUS
<1> USE WsAssumption DEF WsAssumption, TypeOK, Runs, No
<1>1. CASE SetUser
      BY <1>1 DEF SetUser
<1>2. CASE ClearUser
      BY <1>2 DEF ClearUser
<1>3. CASE Render
      BY <1>3 DEF Render, Listen
<1>4. CASE RenderNewUser
      <2>1. \A r \in 1..MaxRuns : step'[r] \in {"none", "init", "done"}
            BY <1>4 DEF RenderNewUser
      <2>2. \A r \in 1..MaxRuns : socket'[r] # "none" => step'[r] = "done"
            BY <1>4 DEF RenderNewUser, Cleanup, Live, Numbered
      <2>3. /\ ran' \in Runs \cup {No} /\ user' \in Runs \cup {No} /\ last' \in 0..MaxRuns
            /\ step' \in [Runs -> {"none", "init", "done"}]
            /\ unmounted' \in [Runs -> BOOLEAN]
            BY <1>4, <2>1 DEF RenderNewUser
      <2>4. /\ wsRef' \in Runs \cup {No} /\ store' \in Runs \cup {No}
            /\ online' \in BOOLEAN /\ dirty' \in BOOLEAN
            /\ socket' \in [Runs -> {"none", "connecting", "open", "closing", "closed"}]
            BY <1>4 DEF RenderNewUser, Cleanup, Live
      <2>5. listening' \in Runs \cup {No}
            BY <1>4 DEF RenderNewUser, Listen
      <2> QED BY <2>2, <2>3, <2>4, <2>5
<1>5. ASSUME NEW r \in Runs, InitOk(r) PROVE TypeOK'
      BY <1>5 DEF InitOk
<1>6. ASSUME NEW r \in Runs, InitFail(r) PROVE TypeOK'
      BY <1>6 DEF InitFail, Cleanup, Live
<1>7. ASSUME NEW r \in Runs, OnOpen(r) PROVE TypeOK'
      BY <1>7 DEF OnOpen
<1>8. ASSUME NEW r \in Runs, OnClose(r) PROVE TypeOK'
      BY <1>8 DEF OnClose, Live
<1>9. CASE Touch
      BY <1>9 DEF Touch
<1>10. CASE UNCHANGED vars
      BY <1>10 DEF vars
<1> QED BY <1>1, <1>2, <1>3, <1>4, <1>5, <1>6, <1>7, <1>8, <1>9, <1>10 DEF Next

\* Every step keeps the numbering and the owners of the awaiting runs.
LEMMA RunsStep == WsInv /\ [Next]_vars => Numbered' /\ Awaiting'
<1> SUFFICES ASSUME WsInv, [Next]_vars PROVE Numbered' /\ Awaiting'
    OBVIOUS
<1> USE WsAssumption DEF WsAssumption, WsInv, TypeOK, Numbered, Awaiting, Runs, No
<1>1. CASE SetUser
      BY <1>1 DEF SetUser
<1>2. CASE ClearUser
      BY <1>2 DEF ClearUser
<1>3. CASE Render
      BY <1>3 DEF Render
<1>4. CASE RenderNewUser
      BY <1>4 DEF RenderNewUser
<1>5. ASSUME NEW r \in Runs, InitOk(r) PROVE Numbered' /\ Awaiting'
      BY <1>5 DEF InitOk
<1>6. ASSUME NEW r \in Runs, InitFail(r) PROVE Numbered' /\ Awaiting'
      BY <1>6 DEF InitFail
<1>7. ASSUME NEW r \in Runs, OnOpen(r) PROVE Numbered' /\ Awaiting'
      BY <1>7 DEF OnOpen
<1>8. ASSUME NEW r \in Runs, OnClose(r) PROVE Numbered' /\ Awaiting'
      BY <1>8 DEF OnClose
<1>9. CASE Touch
      BY <1>9 DEF Touch
<1>10. CASE UNCHANGED vars
      BY <1>10 DEF vars
<1> QED BY <1>1, <1>2, <1>3, <1>4, <1>5, <1>6, <1>7, <1>8, <1>9, <1>10 DEF Next

\* cleanup() leaves no live socket, nothing in the store and nobody online.
LEMMA CleanupCloses == WsInv /\ Cleanup => Sockets'
BY DEF WsInv, TypeOK, Sockets, OneLiveSocket, LiveIsCurrent, StoreIsLive,
   OnlineIsReal, Cleanup, Live, Runs, No

\* Every step keeps what the stores say of the sockets true.
LEMMA SocketsStep == WsInv /\ [Next]_vars => Sockets'
<1> SUFFICES ASSUME WsInv, [Next]_vars PROVE Sockets'
    OBVIOUS
<1> USE WsAssumption DEF WsAssumption, WsInv, TypeOK, Sockets, OneLiveSocket,
        LiveIsCurrent, StoreIsLive, OnlineIsReal, Live, Runs, No
<1>1. CASE SetUser
      BY <1>1 DEF SetUser
<1>2. CASE ClearUser
      BY <1>2 DEF ClearUser
<1>3. CASE Render
      BY <1>3 DEF Render
<1>4. CASE RenderNewUser
      <2>1. CASE ran # No \/ user = No
            BY <1>4, <2>1, CleanupCloses DEF RenderNewUser
      <2>2. CASE ~(ran # No \/ user = No)
            BY <1>4, <2>2 DEF RenderNewUser
      <2> QED BY <2>1, <2>2
<1>5. ASSUME NEW r \in Runs, InitOk(r) PROVE Sockets'
      <2>1. CASE unmounted[r]
            BY <1>5, <2>1 DEF InitOk
      <2>2. CASE ~unmounted[r]
            <3>1. r = ran /\ socket[r] = "none"
                  BY <1>5, <2>2 DEF InitOk, Awaiting
            <3> QED BY <1>5, <2>2, <3>1 DEF InitOk
      <2> QED BY <2>1, <2>2
<1>6. ASSUME NEW r \in Runs, InitFail(r) PROVE Sockets'
      BY <1>6, CleanupCloses DEF InitFail
<1>7. ASSUME NEW r \in Runs, OnOpen(r) PROVE Sockets'
      BY <1>7 DEF OnOpen
<1>8. ASSUME NEW r \in Runs, OnClose(r) PROVE Sockets'
      BY <1>8 DEF OnClose
<1>9. CASE Touch
      BY <1>9 DEF Touch
<1>10. CASE UNCHANGED vars
      BY <1>10 DEF vars
<1> QED BY <1>1, <1>2, <1>3, <1>4, <1>5, <1>6, <1>7, <1>8, <1>9, <1>10 DEF Next

\* After every step that leaves nothing to render, the listener is in place.
LEMMA ListenedStep == TypeOK /\ Listened /\ [Next]_vars => Listened'
<1> SUFFICES ASSUME TypeOK, Listened, [Next]_vars PROVE Listened'
    OBVIOUS
<1> USE DEF TypeOK, Listened
<1>1. CASE SetUser
      BY <1>1 DEF SetUser
<1>2. CASE ClearUser
      BY <1>2 DEF ClearUser
<1>3. CASE Render
      BY <1>3 DEF Render, Listen
<1>4. CASE RenderNewUser
      BY <1>4 DEF RenderNewUser, Listen, Cleanup
<1>5. ASSUME NEW r \in Runs, InitOk(r) PROVE Listened'
      BY <1>5 DEF InitOk
<1>6. ASSUME NEW r \in Runs, InitFail(r) PROVE Listened'
      BY <1>6 DEF InitFail, Cleanup
<1>7. ASSUME NEW r \in Runs, OnOpen(r) PROVE Listened'
      BY <1>7 DEF OnOpen
<1>8. ASSUME NEW r \in Runs, OnClose(r) PROVE Listened'
      BY <1>8 DEF OnClose
<1>9. CASE Touch
      BY <1>9 DEF Touch
<1>10. CASE UNCHANGED vars
      BY <1>10 DEF vars
<1> QED BY <1>1, <1>2, <1>3, <1>4, <1>5, <1>6, <1>7, <1>8, <1>9, <1>10 DEF Next

\* The strengthened invariant holds for ever.
THEOREM WsInvariant == Spec => []WsInv
<1>1. WsInv /\ [Next]_vars => WsInv'
      BY TypeOKStep, RunsStep, SocketsStep, ListenedStep DEF WsInv
<1> QED BY <1>1, WsInvInit, PTL DEF Spec

----------------------------------------------------------------------------
(* The order of the sockets.  The pair in the user store is the last one,  *)
(* and the rendered run, if any, is the last that started awaiting.        *)

Latest ==
    /\ user \in {No, last}
    /\ ran # No => \A r \in Runs : step[r] # "none" => r <= ran

LEMMA LatestStep == WsInv /\ Latest /\ [Next]_vars => Latest'
<1> SUFFICES ASSUME WsInv, Latest, [Next]_vars PROVE Latest'
    OBVIOUS
<1> USE WsAssumption DEF WsAssumption, WsInv, TypeOK, Latest, Runs, No
<1>1. CASE SetUser
      BY <1>1 DEF SetUser
<1>2. CASE ClearUser
      BY <1>2 DEF ClearUser
<1>3. CASE Render
      BY <1>3 DEF Render
<1>4. CASE RenderNewUser
      BY <1>4 DEF RenderNewUser, Numbered
<1>5. ASSUME NEW r \in Runs, InitOk(r) PROVE Latest'
      BY <1>5 DEF InitOk
<1>6. ASSUME NEW r \in Runs, InitFail(r) PROVE Latest'
      BY <1>6 DEF InitFail
<1>7. ASSUME NEW r \in Runs, OnOpen(r) PROVE Latest'
      BY <1>7 DEF OnOpen
<1>8. ASSUME NEW r \in Runs, OnClose(r) PROVE Latest'
      BY <1>8 DEF OnClose
<1>9. CASE Touch
      BY <1>9 DEF Touch
<1>10. CASE UNCHANGED vars
      BY <1>10 DEF vars
<1> QED BY <1>1, <1>2, <1>3, <1>4, <1>5, <1>6, <1>7, <1>8, <1>9, <1>10 DEF Next

\* Only InitOk of a run that was not unmounted opens a socket, and that run is
\* the rendered one.
LEMMA OpenedByRendered ==
    ASSUME WsInv, [Next]_vars, NEW r \in Runs, socket[r] = "none", socket'[r] # "none"
    PROVE  r = ran /\ step[r] = "init"
<1> USE DEF WsInv, TypeOK
<1>1. CASE SetUser \/ Touch \/ ClearUser \/ Render \/ UNCHANGED vars
      BY <1>1 DEF SetUser, Touch, ClearUser, Render, vars
<1>2. CASE RenderNewUser
      BY <1>2 DEF RenderNewUser, Cleanup, Live
<1>3. ASSUME NEW q \in Runs, InitOk(q) PROVE r = ran /\ step[r] = "init"
      BY <1>3 DEF InitOk, Awaiting
<1>4. ASSUME NEW q \in Runs, InitFail(q) \/ OnOpen(q) \/ OnClose(q) PROVE FALSE
      BY <1>4 DEF InitFail, Cleanup, Live, OnOpen, OnClose
<1> QED BY <1>1, <1>2, <1>3, <1>4 DEF Next

\* Sockets are opened in the order of the logins, however late the answers to
\* the init calls come.
THEOREM SocketsInOrder == Spec => OpenedInOrder
<1>1. Init => Latest
      BY DEF Init, Latest
<1>2. WsInv /\ Latest /\ [Next]_vars =>
          [\A r, q \in Runs :
              socket[r] = "none" /\ socket'[r] # "none" /\ socket[q] # "none" => q < r]_vars
  <2> SUFFICES ASSUME WsInv, Latest, [Next]_vars, NEW r \in Runs, NEW q \in Runs,
                      socket[r] = "none", socket'[r] # "none", socket[q] # "none"
               PROVE  q < r
      OBVIOUS
  <2>1. r = ran /\ r # No /\ q # r
      BY OpenedByRendered DEF Runs, No
  <2>2. step[q] = "done"
      BY DEF WsInv, TypeOK
  <2>3. q <= r
      BY <2>1, <2>2 DEF Latest
  <2> QED BY <2>1, <2>3 DEF Runs
<1> QED BY <1>1, <1>2, LatestStep, WsInvariant, PTL DEF Spec, OpenedInOrder

----------------------------------------------------------------------------
(* The properties.                                                         *)

\* Whatever the interleaving of renders, answers and socket events, the
\* browser's variables stay within their types, and no run has a socket
\* before its init call was answered.
THEOREM WsTypeCorrect == Spec => []TypeOK
<1>1. WsInv => TypeOK
      BY DEF WsInv
<1> QED BY <1>1, WsInvariant, PTL

\* At most one socket is connecting or open, and wsRef can still close it.
THEOREM AtMostOneSocket == Spec => []OneLiveSocket
<1>1. WsInv => OneLiveSocket
      BY DEF WsInv, Sockets
<1> QED BY <1>1, WsInvariant, PTL

\* A live socket was opened for the user that is rendered now.
THEOREM NoSocketOutlivesItsUser == Spec => []LiveIsCurrent
<1>1. WsInv => LiveIsCurrent
      BY DEF WsInv, Sockets
<1> QED BY <1>1, WsInvariant, PTL

\* The stored socket, which calls are made with, is never a dead one.
THEOREM TheStoreIsLive == Spec => []StoreIsLive
<1>1. WsInv => StoreIsLive
      BY DEF WsInv, Sockets
<1> QED BY <1>1, WsInvariant, PTL

\* Nobody is shown online without an open socket.
THEOREM TheIndicatorIsReal == Spec => []OnlineIsReal
<1>1. WsInv => OnlineIsReal
      BY DEF WsInv, Sockets
<1> QED BY <1>1, WsInvariant, PTL

\* A rendered, stored, open socket has the message listener.
THEOREM StoredSocketIsListened == Spec => []Listened
<1>1. WsInv => Listened
      BY DEF WsInv
<1> QED BY <1>1, WsInvariant, PTL
=============================================================================
