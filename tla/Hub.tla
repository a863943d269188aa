-------------------------------- MODULE Hub --------------------------------
(***************************************************************************)
(* The WebSocket hub of the backend (communication/websocket/hub.go and    *)
(* client.go) with the goroutines that use it: the HTTP handler that       *)
(* upgrades and registers a connection, the loops that run Hub.Run, the    *)
(* two pumps of each connection, and the callers of the Gateway (SendTo,   *)
(* GetConnectedUsers).                                                     *)
(*                                                                         *)
(* The register/unregister handlers of Hub.Run write the client map        *)
(* WITHOUT taking Hub.mu; only the readers lock it.  A map access that     *)
(* overlaps a write is a data race: the Go runtime may stop the process    *)
(* ("fatal error: concurrent map ..."), or the accesses take effect one    *)
(* after the other.                                                        *)
(*                                                                         *)
(* main.go and router.go each start a loop on the one hub.  Hub.Unregister *)
(* is exported and handled by Hub.Run, but nothing in the program calls    *)
(* it: Unregistering = {} is the program as it is, and a larger set says   *)
(* what the handler does for a caller that does not exist yet.             *)
(***************************************************************************)
EXTENDS Naturals, Sequences, FiniteSets

CONSTANTS
    Users,          \* user ids
    Conns,          \* WebSocket connections, each one Client value
    Owner,          \* [Conns -> Users], the user whose session opened it
    Loops,          \* goroutines running Hub.Run
    Callers,        \* goroutines that call the Gateway
    Unregistering,  \* connections somebody calls Hub.Unregister for
    SendCap,        \* capacity of Client.send
    MaxSends,       \* bound: SendTo calls of one caller
    None

ASSUME HubAssumption ==
    /\ Owner \in [Conns -> Users]
    /\ Unregistering \subseteq Conns
    /\ SendCap \in Nat \ {0}
    /\ MaxSends \in Nat
    /\ None \notin Conns

VARIABLES
    clients,    \* Hub.clients: the connection listed for a user, or None
    pc, op, job, old,   \* per loop: place in the code, request, its
                        \* connection, the client it found in the map
    handler,    \* per connection: the HTTP handler WSHandler.Handle
    leaving,    \* per connection: the call of Hub.Unregister
    spawned,    \* per connection: "go c.Start()" is still to run
    started,    \* startOnce has fired
    writers,    \* number of write pumps running (startOnce: one at most)
    held,       \* messages taken from Client.send and not yet written
    reading,    \* the read pump is running
    stop,       \* "open", "stopping" (inside Stop) or "stopped"
    open,       \* the server has not closed the socket
    gone,       \* the remote end has gone away
    send,       \* the buffered channel Client.send
    written,    \* what was written to the socket, in order
    kpc, kto, kconn, seq,   \* per caller: place, addressee, client found,
                            \* calls made so far
    crashed,    \* the runtime stopped the process
    contested   \* history: users two loops have served at the same time

loopVars == <<pc, op, job, old>>
pumpVars == <<started, writers, held, reading, send, written>>
sockVars == <<stop, open, gone>>
callVars == <<kpc, kto, kconn, seq>>
connVars == <<handler, leaving, spawned>>
vars == <<clients, loopVars, connVars, pumpVars, sockVars, callVars, crashed, contested>>

Message == [by : Callers, n : 1..MaxSends, to : Users]

TypeOK ==
    /\ clients \in [Users -> Conns \cup {None}]
    /\ pc \in [Loops -> {"select", "lookup", "stop", "close", "write", "writing"}]
    /\ op \in [Loops -> {"register", "unregister"}]
    /\ job \in [Loops -> Conns \cup {None}]
    /\ old \in [Loops -> Conns \cup {None}]
    /\ handler \in [Conns -> {"absent", "register", "start", "done"}]
    /\ leaving \in [Conns -> {"no", "waiting", "done"}]
    /\ spawned \in [Conns -> BOOLEAN]
    /\ started \in [Conns -> BOOLEAN]
    /\ writers \in [Conns -> {0, 1}]
    /\ held \in [Conns -> SUBSET Message]
    /\ reading \in [Conns -> BOOLEAN]
    /\ stop \in [Conns -> {"open", "stopping", "stopped"}]
    /\ open \in [Conns -> BOOLEAN]
    /\ gone \in [Conns -> BOOLEAN]
    /\ send \in [Conns -> Seq(Message)]
    /\ \A c \in Conns : Len(send[c]) <= SendCap
    /\ written \in [Conns -> Seq(Message)]
    /\ kpc \in [Callers -> {"idle", "lookup", "check", "enqueue", "listing"}]
    /\ kto \in [Callers -> Users \cup {None}]
    /\ kconn \in [Callers -> Conns \cup {None}]
    /\ seq \in [Callers -> 0..MaxSends]
    /\ crashed \in BOOLEAN
    /\ contested \subseteq Users

Init ==
    /\ clients = [u \in Users |-> None]
    /\ pc = [l \in Loops |-> "select"]
    /\ op = [l \in Loops |-> "register"]
    /\ job = [l \in Loops |-> None]
    /\ old = [l \in Loops |-> None]
    /\ handler = [c \in Conns |-> "absent"]
    /\ leaving = [c \in Conns |-> "no"]
    /\ spawned = [c \in Conns |-> FALSE]
    /\ started = [c \in Conns |-> FALSE]
    /\ writers = [c \in Conns |-> 0]
    /\ held = [c \in Conns |-> {}]
    /\ reading = [c \in Conns |-> FALSE]
    /\ stop = [c \in Conns |-> "open"]
    /\ open = [c \in Conns |-> TRUE]
    /\ gone = [c \in Conns |-> FALSE]
    /\ send = [c \in Conns |-> <<>>]
    /\ written = [c \in Conns |-> <<>>]
    /\ kpc = [k \in Callers |-> "idle"]
    /\ kto = [k \in Callers |-> None]
    /\ kconn = [k \in Callers |-> None]
    /\ seq = [k \in Callers |-> 0]
    /\ crashed = FALSE
    /\ contested = {}

----------------------------------------------------------------------------
(* The HTTP handler, and Client.Start.                                     *)

\* Fault: Start without startOnce.
StartTwice(c) ==
    /\ started' = [started EXCEPT ![c] = TRUE]
    /\ writers' = [writers EXCEPT ![c] = @ + 1]
    /\ reading' = [reading EXCEPT ![c] = TRUE]
    /\ UNCHANGED <<held, send, written>>

\* Client.Start: startOnce guards the creation of the two pumps.
Start(c) ==
    /\ started' = [started EXCEPT ![c] = TRUE]
    /\ writers' = [writers EXCEPT ![c] = IF started[c] THEN @ ELSE @ + 1]
    /\ reading' = [reading EXCEPT ![c] = @ \/ ~started[c]]
    /\ UNCHANGED <<held, send, written>>

\* WSHandler.Handle up to the send on the register channel.
Handle(c) ==
    /\ handler[c] = "absent"
    /\ handler' = [handler EXCEPT ![c] = "register"]
    /\ UNCHANGED <<clients, loopVars, leaving, spawned, pumpVars, sockVars,
                   callVars, crashed, contested>>

\* The Start call of WSHandler.Handle, once Register has returned.
HandlerStart(c) ==
    /\ handler[c] = "start"
    /\ handler' = [handler EXCEPT ![c] = "done"]
    /\ Start(c)
    /\ UNCHANGED <<clients, loopVars, leaving, spawned, sockVars, callVars, crashed, contested>>

\* The goroutine spawned by handleRegister.
SpawnedStart(c) ==
    /\ spawned[c]
    /\ spawned' = [spawned EXCEPT ![c] = FALSE]
    /\ Start(c)
    /\ UNCHANGED <<clients, loopVars, handler, leaving, sockVars, callVars, crashed, contested>>

\* Hub.Unregister, called after the read pump has ended by a caller that the
\* program does not have; it may also never call.
CallUnregister(c) ==
    /\ c \in Unregistering
    /\ started[c] /\ ~reading[c] /\ leaving[c] = "no"
    /\ leaving' = [leaving EXCEPT ![c] = "waiting"]
    /\ UNCHANGED <<clients, loopVars, handler, spawned, pumpVars, sockVars,
                   callVars, crashed, contested>>

----------------------------------------------------------------------------
(* Hub.Run, handleRegister, handleUnregister and Client.Stop.              *)

\* A loop is between receiving a request for the user and ending its handler.
Serves(l, u) == pc[l] # "select" /\ Owner[job[l]] = u

\* History: another loop serves the owner of c at the moment c is received.
Contend(c) ==
    contested' = contested \cup {u \in {Owner[c]} : \E l \in Loops : Serves(l, u)}

RunRegister(l, c) ==
    /\ pc[l] = "select" /\ handler[c] = "register"
    /\ pc' = [pc EXCEPT ![l] = "lookup"]
    /\ op' = [op EXCEPT ![l] = "register"]
    /\ job' = [job EXCEPT ![l] = c]
    /\ handler' = [handler EXCEPT ![c] = "start"]
    /\ Contend(c)
    /\ UNCHANGED <<clients, old, leaving, spawned, pumpVars, sockVars, callVars, crashed>>

RunUnregister(l, c) ==
    /\ pc[l] = "select" /\ leaving[c] = "waiting"
    /\ pc' = [pc EXCEPT ![l] = "lookup"]
    /\ op' = [op EXCEPT ![l] = "unregister"]
    /\ job' = [job EXCEPT ![l] = c]
    /\ leaving' = [leaving EXCEPT ![c] = "done"]
    /\ Contend(c)
    /\ UNCHANGED <<clients, old, handler, spawned, pumpVars, sockVars, callVars, crashed>>

\* Fault: handleUnregister without the check that the listed client is the
\* one that leaves.
LookupAnyLeaver(l) ==
    LET cur == clients[Owner[job[l]]]
    IN  /\ pc[l] = "lookup"
        /\ old' = [old EXCEPT ![l] = cur]
        /\ pc' = [pc EXCEPT ![l] =
                    IF cur # None THEN "stop"
                    ELSE IF op[l] = "register" THEN "write" ELSE "select"]
        /\ UNCHANGED <<clients, op, job, connVars, pumpVars, sockVars, callVars, crashed, contested>>

\* Fault: handleRegister overwrites the entry without stopping the old client.
LookupNoStop(l) ==
    LET cur == clients[Owner[job[l]]]
    IN  /\ pc[l] = "lookup"
        /\ old' = [old EXCEPT ![l] = cur]
        /\ pc' = [pc EXCEPT ![l] =
                    CASE op[l] = "register" -> "write"
                      [] op[l] = "unregister" /\ cur = job[l] -> "stop"
                      [] OTHER -> "select"]
        /\ UNCHANGED <<clients, op, job, connVars, pumpVars, sockVars, callVars, crashed, contested>>

\* Read the map and decide which client, if any, must be stopped: the one a
\* new connection replaces, or the connection that leaves if it is listed.
Lookup(l) ==
    LET cur == clients[Owner[job[l]]]
    IN  /\ pc[l] = "lookup"
        /\ old' = [old EXCEPT ![l] = cur]
        /\ pc' = [pc EXCEPT ![l] =
                    CASE op[l] = "register" /\ cur \notin {None, job[l]} -> "stop"
                      [] op[l] = "register" /\ cur \in {None, job[l]} -> "write"
                      [] op[l] = "unregister" /\ cur = job[l] -> "stop"
                      [] OTHER -> "select"]
        /\ UNCHANGED <<clients, op, job, connVars, pumpVars, sockVars, callVars, crashed, contested>>

\* Client.Stop, first half: stopOnce lets one caller in (a second one waits
\* for it), the flag is set and the stop channel is closed.
StopBegin(l) ==
    /\ pc[l] = "stop" /\ stop[old[l]] # "stopping"
    /\ IF stop[old[l]] = "open"
       THEN /\ stop' = [stop EXCEPT ![old[l]] = "stopping"]
            /\ pc' = [pc EXCEPT ![l] = "close"]
       ELSE /\ pc' = [pc EXCEPT ![l] = "write"]
            /\ UNCHANGED stop
    /\ UNCHANGED <<clients, op, job, old, connVars, pumpVars, open, gone, callVars, crashed, contested>>

\* Fault: Stop leaves the socket open.
StopEndOpen(l) ==
    /\ pc[l] = "close"
    /\ stop' = [stop EXCEPT ![old[l]] = "stopped"]
    /\ pc' = [pc EXCEPT ![l] = "write"]
    /\ UNCHANGED <<clients, op, job, old, connVars, pumpVars, open, gone, callVars, crashed, contested>>

\* Client.Stop, second half: the socket is closed and Stop returns.
StopEnd(l) ==
    /\ pc[l] = "close"
    /\ stop' = [stop EXCEPT ![old[l]] = "stopped"]
    /\ open' = [open EXCEPT ![old[l]] = FALSE]
    /\ pc' = [pc EXCEPT ![l] = "write"]
    /\ UNCHANGED <<clients, op, job, old, connVars, pumpVars, gone, callVars, crashed, contested>>

BeginWrite(l) ==
    /\ pc[l] = "write"
    /\ pc' = [pc EXCEPT ![l] = "writing"]
    /\ UNCHANGED <<clients, op, job, old, connVars, pumpVars, sockVars, callVars, crashed, contested>>

\* Fault: handleRegister lists the connection only if the user has none.
EndWriteIfAbsent(l) ==
    /\ pc[l] = "writing"
    /\ clients' = [clients EXCEPT ![Owner[job[l]]] =
                     IF op[l] = "register" THEN IF @ = None THEN job[l] ELSE @ ELSE None]
    /\ spawned' = [spawned EXCEPT ![job[l]] = @ \/ op[l] = "register"]
    /\ pc' = [pc EXCEPT ![l] = "select"]
    /\ job' = [job EXCEPT ![l] = None]
    /\ old' = [old EXCEPT ![l] = None]
    /\ UNCHANGED <<op, handler, leaving, pumpVars, sockVars, callVars, crashed, contested>>

\* The map write takes effect; handleRegister then spawns c.Start().
EndWrite(l) ==
    /\ pc[l] = "writing"
    /\ clients' = [clients EXCEPT ![Owner[job[l]]] =
                     IF op[l] = "register" THEN job[l] ELSE None]
    /\ spawned' = [spawned EXCEPT ![job[l]] = @ \/ op[l] = "register"]
    /\ pc' = [pc EXCEPT ![l] = "select"]
    /\ job' = [job EXCEPT ![l] = None]
    /\ old' = [old EXCEPT ![l] = None]
    /\ UNCHANGED <<op, handler, leaving, pumpVars, sockVars, callVars, crashed, contested>>

----------------------------------------------------------------------------
(* The pumps of a connection.                                              *)

\* A write pump that is waiting in its select statement.
Waiting(c) == Cardinality(held[c]) < writers[c]

\* Fault: the write pump closes the socket and stays in its loop.
PumpStays(c) ==
    /\ open' = [open EXCEPT ![c] = FALSE]
    /\ UNCHANGED writers

\* A write pump returns: its deferred call closes the socket.
PumpExit(c) ==
    /\ writers' = [writers EXCEPT ![c] = @ - 1]
    /\ open' = [open EXCEPT ![c] = FALSE]

Take(c) ==
    /\ Waiting(c) /\ send[c] # <<>>
    /\ held' = [held EXCEPT ![c] = @ \cup {Head(send[c])}]
    /\ send' = [send EXCEPT ![c] = Tail(@)]
    /\ UNCHANGED <<clients, loopVars, connVars, started, writers, reading, written,
                   sockVars, callVars, crashed, contested>>

\* WriteJSON succeeds: the socket is open here (the peer may be gone already).
WriteOk(c) ==
    /\ open[c]
    /\ \E m \in held[c] :
          /\ held' = [held EXCEPT ![c] = @ \ {m}]
          /\ written' = [written EXCEPT ![c] = Append(@, m)]
    /\ UNCHANGED <<clients, loopVars, connVars, started, writers, reading, send,
                   sockVars, callVars, crashed, contested>>

\* WriteJSON fails: the message is lost and the write pump returns.
WriteErr(c) ==
    /\ ~open[c] \/ gone[c]
    /\ \E m \in held[c] : held' = [held EXCEPT ![c] = @ \ {m}]
    /\ PumpExit(c)
    /\ UNCHANGED <<clients, loopVars, connVars, started, reading, send, written,
                   stop, gone, callVars, crashed, contested>>

\* The periodic ping fails.
PingErr(c) ==
    /\ Waiting(c) /\ (~open[c] \/ gone[c])
    /\ PumpExit(c)
    /\ UNCHANGED <<clients, loopVars, connVars, started, held, reading, send, written,
                   stop, gone, callVars, crashed, contested>>

\* The write pump receives from the closed stop channel.
SeeStop(c) ==
    /\ Waiting(c) /\ stop[c] # "open"
    /\ PumpExit(c)
    /\ UNCHANGED <<clients, loopVars, connVars, started, held, reading, send, written,
                   stop, gone, callVars, crashed, contested>>

\* ReadMessage fails (socket closed, or nothing within readWait): the read
\* pump returns and does nothing else.
ReadErr(c) ==
    /\ reading[c] /\ (~open[c] \/ gone[c])
    /\ reading' = [reading EXCEPT ![c] = FALSE]
    /\ UNCHANGED <<clients, loopVars, connVars, started, writers, held, send, written,
                   sockVars, callVars, crashed, contested>>

\* The browser closes the connection or disappears.
PeerGone(c) ==
    /\ handler[c] # "absent" /\ open[c] /\ ~gone[c]
    /\ gone' = [gone EXCEPT ![c] = TRUE]
    /\ UNCHANGED <<clients, loopVars, connVars, pumpVars, stop, open, callVars, crashed, contested>>

----------------------------------------------------------------------------
(* The Gateway: SendTo (read the map, release the lock, Client.Send) and   *)
(* GetConnectedUsers.                                                      *)

SendTo(k, u) ==
    /\ kpc[k] = "idle" /\ seq[k] < MaxSends
    /\ kpc' = [kpc EXCEPT ![k] = "lookup"]
    /\ kto' = [kto EXCEPT ![k] = u]
    /\ seq' = [seq EXCEPT ![k] = @ + 1]
    /\ UNCHANGED <<clients, loopVars, connVars, pumpVars, sockVars, kconn, crashed, contested>>

\* "user is not connected", or the client to send to.
SendLookup(k) ==
    /\ kpc[k] = "lookup"
    /\ kconn' = [kconn EXCEPT ![k] = clients[kto[k]]]
    /\ kpc' = [kpc EXCEPT ![k] = IF clients[kto[k]] = None THEN "idle" ELSE "check"]
    /\ UNCHANGED <<clients, loopVars, connVars, pumpVars, sockVars, kto, seq, crashed, contested>>

\* Client.Send reads the stopped flag without synchronisation: while Stop is
\* running it may read either value.
SendCheck(k) ==
    /\ kpc[k] = "check"
    /\ \E next \in {"idle", "enqueue"} :
          /\ stop[kconn[k]] = "open" => next = "enqueue"
          /\ stop[kconn[k]] = "stopped" => next = "idle"
          /\ kpc' = [kpc EXCEPT ![k] = next]
    /\ UNCHANGED <<clients, loopVars, connVars, pumpVars, sockVars, kto, kconn, seq, crashed, contested>>

\* The message enters the buffer, or "send buffer full".
SendEnqueue(k) ==
    LET c == kconn[k]
        m == [by |-> k, n |-> seq[k], to |-> kto[k]]
    IN  /\ kpc[k] = "enqueue"
        /\ kpc' = [kpc EXCEPT ![k] = "idle"]
        /\ send' = [send EXCEPT ![c] = IF Len(@) < SendCap THEN Append(@, m) ELSE @]
        /\ UNCHANGED <<clients, loopVars, connVars, started, writers, held, reading,
                       written, sockVars, kto, kconn, seq, crashed, contested>>

GetConnectedUsers(k) ==
    /\ kpc[k] \in {"idle", "listing"}
    /\ kpc' = [kpc EXCEPT ![k] = IF @ = "idle" THEN "listing" ELSE "idle"]
    /\ UNCHANGED <<clients, loopVars, connVars, pumpVars, sockVars, kto, kconn, seq, crashed, contested>>

\* A map access of a loop or of a caller overlaps the write of a loop.
Racing(l) ==
    \/ \E m \in Loops \ {l} : pc[m] \in {"lookup", "writing"}
    \/ \E k \in Callers : kpc[k] \in {"lookup", "listing"}

MapFault(l) ==
    /\ pc[l] = "writing" /\ Racing(l)
    /\ crashed' = TRUE
    /\ UNCHANGED <<clients, loopVars, connVars, pumpVars, sockVars, callVars, contested>>

----------------------------------------------------------------------------
LoopStep(l) ==
    \/ Lookup(l) \/ StopBegin(l) \/ StopEnd(l) \/ BeginWrite(l) \/ EndWrite(l)
    \/ \E c \in Conns : RunRegister(l, c) \/ RunUnregister(l, c)

PumpStep(c) ==
    \/ Take(c) \/ WriteOk(c) \/ WriteErr(c) \/ PingErr(c) \/ SeeStop(c) \/ ReadErr(c)

CallStep(k) ==
    \/ SendLookup(k) \/ SendCheck(k) \/ SendEnqueue(k) \/ GetConnectedUsers(k)
    \/ \E u \in Users : SendTo(k, u)

Next ==
    /\ ~crashed
    /\ \/ \E l \in Loops : LoopStep(l) \/ MapFault(l)
       \/ \E c \in Conns : \/ PumpStep(c) \/ HandlerStart(c) \/ SpawnedStart(c)
                           \/ Handle(c) \/ CallUnregister(c) \/ PeerGone(c)
       \/ \E k \in Callers : CallStep(k)

Spec == Init /\ [][Next]_vars

\* The Go scheduler runs every goroutine that can run; timers fire (the ping
\* ticker, the read and write deadlines).  New connections, departures and
\* Gateway calls are up to the environment.
Fairness ==
    /\ \A l \in Loops : WF_vars(~crashed /\ LoopStep(l))
    /\ \A c \in Conns : /\ WF_vars(~crashed /\ (HandlerStart(c) \/ SpawnedStart(c)))
                        /\ WF_vars(~crashed /\ (WriteErr(c) \/ PingErr(c) \/ SeeStop(c)))
                        /\ WF_vars(~crashed /\ ReadErr(c))

FairSpec == Spec /\ Fairness

----------------------------------------------------------------------------
(* Properties.                                                             *)

\* A loop has received the connection and holds it.
Registered(c) == handler[c] \in {"start", "done"}

\* handleRegister is running for c.
InHand(c) == \E l \in Loops : job[l] = c /\ op[l] = "register"

\* A registered connection that nobody stopped, that SendTo does not find for
\* its user and that handleRegister is done with: it is live, unreachable and
\* will never be closed.
Orphan(c) ==
    Registered(c) /\ stop[c] = "open" /\ clients[Owner[c]] # c /\ ~InHand(c)

\* No connection is left behind like that (hub.go:39-57).
NoOrphan == \A c \in Conns : ~Orphan(c)

\* Whatever the number of loops, only a user whom two of them served at the
\* same time is left with one: everybody else's replaced connection is stopped
\* before its entry is overwritten, while other loops change the map around it
\* (hub.go:39-57).
OrphansWereContested == \A c \in Conns : Orphan(c) => Owner[c] \in contested

\* A stopped client is still listed only while a loop is about to overwrite
\* or delete its entry: SendTo cannot keep reaching a dead client
\* (hub.go:42-45, 53-55).
StoppedNotListed ==
    \A u \in Users : clients[u] # None /\ stop[clients[u]] = "stopped" =>
        \E l \in Loops : pc[l] \in {"write", "writing"} /\ Owner[job[l]] = u

\* What is written to a socket is addressed to the user who owns it, and the
\* messages of one caller keep their order and come once, whatever
\* reconnections and double starts happen (hub.go:80-89, client.go:43-60, 76-86).
Delivery ==
    \A c \in Conns : \A i, j \in 1..Len(written[c]) :
        /\ written[c][i].to = Owner[c]
        /\ i < j /\ written[c][i].by = written[c][j].by
              => written[c][i].n < written[c][j].n

\* Connection c is sent something that is newer than all that connection d
\* was sent by the same caller.
NewerThanOn(c, d) ==
    Len(written'[c]) > Len(written[c]) =>
        LET m == written'[c][Len(written'[c])] IN
        \A i \in 1..Len(written[d]) :
            written[d][i].by = m.by => written[d][i].n < m.n

\* A reconnection does not reorder what a user is sent: what is written to the
\* listed connection is newer than what any connection of the user got before,
\* though the replaced one may still have messages in its buffer.  Only such a
\* connection can be sent something older (hub.go:81-88, client.go:43-60).
NewestOnCurrent ==
    [][\A c, d \in Conns :
        clients[Owner[c]] = c /\ Owner[d] = Owner[c] => NewerThanOn(c, d)]_vars

\* A user whom no two loops served at the same time is not even sent that: the
\* connection is closed before it leaves the map, so he gets a caller's
\* messages in order, whatever the socket.
InOrder ==
    [][\A c, d \in Conns :
        Owner[d] = Owner[c] /\ Owner[c] \notin contested => NewerThanOn(c, d)]_vars

\* Once Stop has returned, nothing more reaches the socket, even what Send
\* had accepted before (client.go:62-68, 92).
NothingAfterStop ==
    [][\A c \in Conns : stop[c] = "stopped" => written'[c] = written[c]]_vars

\* A live client is stopped only because it unregistered or because another
\* connection of its user is being registered: the late Unregister of a
\* connection that was replaced spares its successor (hub.go:42-43, 53-54).
NoStrayStop ==
    [][\A c \in Conns : stop[c] = "open" /\ stop'[c] # "open" =>
          \/ leaving[c] = "done"
          \/ \E d \in Conns \ {c} : Owner[d] = Owner[c] /\ InHand(d)]_vars

\* Of two registered connections of a user one ends up stopped: a
\* reconnection closes the connection it replaces, unless two loops met over
\* the user (hub.go:42-44).
ReconnectCloses ==
    \A c, d \in Conns :
        (c # d /\ Owner[c] = Owner[d] /\ Registered(c) /\ Registered(d))
            ~> (\/ crashed \/ Owner[c] \in contested
                \/ stop[c] = "stopped" \/ stop[d] = "stopped")

\* A stopped connection winds down for good, also when Stop comes before
\* the pumps are started: no goroutine and no socket is leaked.
WindsDown ==
    \A c \in Conns : (stop[c] # "open") ~>
        [](crashed \/ (writers[c] = 0 /\ ~reading[c] /\ ~open[c]))

\* The connection of a browser that went away leaves the list of connected
\* users (gateway.go:20, client.go:100).
GoneUnlisted ==
    \A c \in Conns : (Registered(c) /\ gone[c]) ~>
        (crashed \/ \A u \in Users : clients[u] # c)

\* Refinement: with any number of loops the hub implements Presence.  A
\* connection takes effect when its handler starts to stop the client it
\* replaces, or when it finds none; it leaves when its handler starts to stop
\* it.  Nothing is promised to a user any more once two loops met over him.
TakesEffect(l, u) == pc[l] \in {"close", "write", "writing"} /\ Owner[job[l]] = u

current ==
    [u \in Users |->
        CASE u \in contested -> None
          [] u \notin contested /\ (\E l \in Loops : TakesEffect(l, u)) ->
                LET l == CHOOSE l \in Loops : TakesEffect(l, u)
                IN  IF op[l] = "register" THEN job[l] ELSE None
          [] OTHER -> clients[u]]

retired == {c \in Conns : stop[c] # "open"}

P == INSTANCE Presence

ImplementsPresence == P!Spec
=============================================================================
