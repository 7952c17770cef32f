----------------------------- MODULE ClientProofs -----------------------------
(***************************************************************************)
(* Proofs about Client, for any number of connects and workers.            *)
(*                                                                         *)
(* The heart is MapInv.  A socket belongs to the handle that its listener  *)
(* was created with, and to no other: whatever the maps and the registry   *)
(* still have, or have again, under a handle is a socket of that handle.   *)
(* So the semaphore that disconnect sets, which may be that of an older    *)
(* socket, and the socket that a listener deletes, which is the one the    *)
(* registry has, are not in the map under another handle, and under their  *)
(* own only until disconnect takes them out (GoneInv).                     *)
(*                                                                         *)
(* LifeInv adds in which state the sockets of the maps and semaphores are, *)
(* OpenInv that one that is not open any more is behind socketsMutex as    *)
(* long as it is in the map, and PingInv that the ping timer runs for a    *)
(* handle that has its session, and not during disconnect.                 *)
(*                                                                         *)
(* What every action does to each part of the state is said once (Steps);  *)
(* the step lemma of an invariant then looks at the few actions that write *)
(* its variables.                                                          *)
(***************************************************************************)
EXTENDS Client, TLAPS

(* connect gives out one handle for every connection that it registers.     *)
CountInv ==
  /\ lastHandle <= cur
  /\ upc = "ready" => lastHandle < cur
  /\ upc \in {"connect", "arm", "enter", "wait"} => lastHandle > 0

(* The listener of a connection that was made is known to the registry.     *)
StartInv ==
  \A k \in Conns :
    /\ k <= cur => lpc[k] # "none" /\ registry[lhandle[k]] # 0
    /\ k > cur => lpc[k] \in {"none", "aborted"}

(* A worker in connackHandler has a request. *)
BusyInv == \A w \in Workers : hpc[w] \in {"check", "write", "signal"} => executing[w] \in Requests

TypeInv == TypeOK /\ CountInv /\ StartInv /\ BusyInv

(* Socket k was made for handle h. *)
Of(k, h) == k <= cur /\ lhandle[k] = h

OwnInv ==
  \A h \in Handles :
    /\ sockets[h] # 0 => Of(sockets[h], h) /\ sock[sockets[h]] # "new" /\ semaphores[h] # 0
    /\ semaphores[h] # 0 => Of(semaphores[h], h)
    /\ registry[h] # 0 => Of(registry[h], h)

FreshInv == \A k \in Conns : k > cur => sock[k] = "new" /\ sem[k] = 0

(* What is deleted, or may be, is in the map no more, or disconnect is     *)
(* about to take it out.                                                   *)
GoneInv ==
  \A k \in Conns :
    sem[k] = 1 \/ sock[k] = "deleted" =>
      sockets[lhandle[k]] # k \/ upc = "aborted" \/ (upc = "remove" /\ arg = lhandle[k])

MapInv ==
  /\ OwnInv /\ FreshInv /\ GoneInv
  /\ ListenersAreMapped
  /\ upc = "ready" => sockets[lastHandle] # 0

(* Who deletes the socket of a listener that still runs has its handle.     *)
SharedInv ==
  \A k \in Conns :
    lpc[k] \in {"poll", "init"} /\ sock[k] = "deleted" =>
      \E j \in Conns \ {k} : Of(j, lhandle[k])

IndInv == TypeInv /\ MapInv /\ SharedInv /\ RequestsResolve
-----------------------------------------------------------------------------
(* What the steps do to the parts of the state. *)

(* Where the application thread can be, and where within connect the handle *)
(* is its own.                                                              *)
Points == {"idle", "ready", "connect", "arm", "enter", "wait",
           "stop", "disconnect", "shut", "close", "remove", "aborted"}
Waiting == {"connect", "arm", "enter", "wait"}

(* The workers of a process that has ended.                                 *)
AllAborted == [w \in Workers |-> "aborted"]

(* The maps.                                                                *)
MapStep ==
  \/ \E k \in Conns : NewConnection(k)
  \/ ListenerReady \/ Remove \/ Shutdown
  \/ \E h \in Handles : ShutdownThrows(h)
  \/ UNCHANGED mapVars

(* Sockets and semaphores.                                                  *)
Shuts ==
  /\ UNCHANGED sem
  /\ sock' \in [Conns -> {"new", "open", "shut", "closed", "deleted"}]
  /\ \A k \in Conns : \/ sock'[k] = sock[k]
                      \/ sock'[k] = "shut" /\ \E h \in Handles : sockets[h] = k

SockStep ==
  \/ \E k \in Conns : NewConnection(k) \/ CleanUp(k)
  \/ CloseAndSet \/ Shuts

(* Listeners: one of them goes on, or some are told to stop, or all abort.  *)
Turn(k) ==
  \E to \in {"poll", "init", "semwait", "gone", "thrown"} :
    /\ lpc[k] \in {"poll", "init", "semwait"}
    /\ to \in {"poll", "init"} => lpc[k] \in {"poll", "init"}
    /\ lpc' = [lpc EXCEPT ![k] = to]
    /\ ready' \in {ready, [ready EXCEPT ![k] = TRUE]}
    /\ UNCHANGED <<listen, lhandle>>

Stops ==
  /\ listen' \in [Conns -> BOOLEAN]
  /\ UNCHANGED <<ready, lhandle>>
  /\ lpc' = lpc \/ (lpc' = [k \in Conns |-> "aborted"] /\ upc' = "aborted")

ListenStep == (\E k \in Conns : NewConnection(k) \/ Turn(k)) \/ Stops

(* The application thread.                                                  *)
Moves ==
  /\ UNCHANGED <<cur, lastHandle>>
  /\ upc' \in Points /\ arg' \in Handles
  /\ upc' = "ready" => upc = "ready"
  /\ upc' \in Waiting => upc \in Waiting
  /\ upc = "remove" => upc' \in {"remove", "aborted"} /\ arg' = arg
  /\ upc = "aborted" => upc' = "aborted"

UserStep == (\E k \in Conns : NewConnection(k)) \/ ListenerReady \/ Remove \/ Moves

(* The workers.                                                             *)
WorkStep ==
  \/ \E k \in Conns : Receive(k)
  \/ \E w \in Workers : WorkerStep(w)
  \/ UNCHANGED <<pending, executing, handled>> /\ hpc' \in {hpc, AllAborted}

(* Locks, conn, signals and the ping timer.                                 *)
RestStep ==
  /\ lock' \in {lock, "none", "user", "timer"} /\ leaked' \in {leaked, TRUE}
  /\ brokerConn' \in {brokerConn, 0, cur}
  /\ timer' \in {timer, "none", "on", "calling", "aborted"}
  /\ acked' \in {acked, 0} \/ \E w \in Workers : SignalConn(w)
  /\ pingHandle' = pingHandle \/ (upc = "wait" /\ pingHandle' = NewHandle)

(* The broker and what it sends.                                            *)
LinkStep ==
  \/ \E k \in Conns : NewConnection(k) \/ Receive(k) \/ ReceiveThrows(k) \/ ParseThrows(k)
  \/ \E k \in Conns : Accept(k) \/ Serve(k) \/ HangUp(k)
  \/ ConnectSent
  \/ UNCHANGED brokerVars

Steps ==
  MapStep /\ SockStep /\ ListenStep /\ UserStep /\ WorkStep /\ RestStep /\ LinkStep

(* Steps of connect after the connection was made.                          *)
LEMMA ConnectSteps == ASSUME TypeOK, ConnectStep PROVE Steps
<1> USE DEF TypeOK, mapVars, lockVars, listenerVars, userVars, workerVars, timerVars,
            brokerVars, Points, Waiting, AllAborted, Steps, MapStep, SockStep, Shuts,
            ListenStep, Stops, UserStep, Moves, WorkStep, RestStep, LinkStep, Unlocked,
            Leaked, UserGoes
<1>1. CASE ReadyTimeout
  BY <1>1 DEF ReadyTimeout
<1>2. CASE ListenerReady
  BY <1>2 DEF ListenerReady
<1>3. CASE ConnectSent
  BY <1>3 DEF ConnectSent
<1>4. CASE ConnectNotSent
  BY <1>4 DEF ConnectNotSent
<1>5. CASE ArmConn
  BY <1>5 DEF ArmConn
<1>6. CASE EnterWait
  BY <1>6 DEF EnterWait
<1>7. CASE Connected
  BY <1>7 DEF Connected
<1>8. CASE ConnectedTwice
  BY <1>8 DEF ConnectedTwice, Abort
<1>9. CASE ConnectTimeout
  BY <1>9 DEF ConnectTimeout
<1> QED
  BY <1>1, <1>2, <1>3, <1>4, <1>5, <1>6, <1>7, <1>8, <1>9 DEF ConnectStep

(* Steps of disconnect.                                                     *)
LEMMA DisconnectSteps == ASSUME TypeOK, DisconnectStep PROVE Steps
<1> USE DEF TypeOK, mapVars, lockVars, listenerVars, userVars, workerVars, timerVars,
            brokerVars, Points, Waiting, AllAborted, Steps, MapStep, SockStep, Shuts,
            ListenStep, Stops, UserStep, Moves, WorkStep, RestStep, LinkStep, Unlocked,
            Leaked, UserGoes
<1>1. CASE TimerStopped
  BY <1>1 DEF TimerStopped
<1>2. CASE UnknownHandle
  BY <1>2 DEF UnknownHandle
<1>3. CASE DisconnectSent
  BY <1>3 DEF DisconnectSent
<1>4. CASE ShutThrows
  BY <1>4 DEF ShutThrows
<1>5. CASE Shut
  BY <1>5 DEF Shut
<1>6. CASE CloseAndSet
  BY <1>6 DEF CloseAndSet
<1>7. CASE Remove
  BY <1>7 DEF Remove
<1> QED
  BY <1>1, <1>2, <1>3, <1>4, <1>5, <1>6, <1>7 DEF DisconnectStep

(* Calls that begin, and those of one step.                                 *)
LEMMA CallSteps ==
  ASSUME TypeOK,
         \/ Shutdown
         \/ \E k \in Conns : NewConnection(k)
         \/ \E h \in Handles : SendFails(h) \/ Disconnect(h) \/ ShutdownThrows(h)
  PROVE  Steps
<1> USE DEF TypeOK, mapVars, lockVars, listenerVars, userVars, workerVars, timerVars,
            brokerVars, Points, Waiting, AllAborted, Steps, MapStep, SockStep, Shuts,
            ListenStep, Stops, UserStep, Moves, WorkStep, RestStep, LinkStep, Unlocked,
            Leaked, UserGoes
<1>1. CASE \E h \in Handles : SendFails(h)
  BY <1>1 DEF SendFails
<1>2. CASE \E h \in Handles : Disconnect(h)
  BY <1>2 DEF Disconnect
<1>3. CASE Shutdown
  BY <1>3 DEF Shutdown, StopListeners, Mapped
<1>4. CASE \E h \in Handles : ShutdownThrows(h)
  <2>1. MapStep
    BY <1>4
  <2>2. Shuts
    <3>1. PICK h \in Handles : ShutdownThrows(h)
      BY <1>4
    <3>2. PICK S : S = (Mapped \intersect 0 .. h) \ {h}
      OBVIOUS
    <3>3. S \subseteq Handles
      BY <3>2 DEF Mapped
    <3> QED
      BY <3>1, <3>2, <3>3 DEF ShutdownThrows
  <2>3. ListenStep /\ UserStep /\ WorkStep /\ RestStep /\ LinkStep
    BY <1>4 DEF ShutdownThrows, StopListeners
  <2> QED
    BY <2>1, <2>2, <2>3
<1>5. CASE \E k \in Conns : NewConnection(k)
  BY <1>5 DEF NewConnection
<1> QED
  BY <1>1, <1>2, <1>3, <1>4, <1>5

(* Steps of a listener.                                                     *)
LEMMA ListenerSteps == ASSUME TypeOK, NEW k \in Conns, ListenerStep(k) PROVE Steps
<1> USE DEF TypeOK, mapVars, lockVars, listenerVars, userVars, workerVars, timerVars,
            brokerVars, Points, Waiting, AllAborted, Steps, MapStep, SockStep, Shuts,
            ListenStep, Stops, UserStep, Moves, WorkStep, RestStep, LinkStep, Unlocked,
            Leaked, ListenerGoes, Turn
<1>1. CASE Receive(k)
  BY <1>1 DEF Receive
<1>2. CASE PollTimeout(k)
  BY <1>2 DEF PollTimeout
<1>3. CASE TurnEnds(k)
  BY <1>3 DEF TurnEnds
<1>4. CASE SeeClosed(k)
  BY <1>4 DEF SeeClosed
<1>5. CASE SeeStop(k)
  BY <1>5 DEF SeeStop
<1>6. CASE PollThrows(k)
  BY <1>6 DEF PollThrows
<1>7. CASE CleanUp(k)
  BY <1>7 DEF CleanUp
<1>8. CASE WaitOnNull(k)
  BY <1>8 DEF WaitOnNull, Abort
<1>9. CASE ReceiveThrows(k) \/ ParseThrows(k)
  <2>1. LinkStep
    BY <1>9
  <2>2. MapStep /\ SockStep /\ ListenStep /\ UserStep /\ WorkStep /\ RestStep
    BY <1>9 DEF ReceiveThrows, ParseThrows
  <2> QED
    BY <2>1, <2>2
<1> QED
  BY <1>1, <1>2, <1>3, <1>4, <1>5, <1>6, <1>7, <1>8, <1>9 DEF ListenerStep

(* Steps of a worker.                                                       *)
LEMMA WorkerSteps == ASSUME TypeOK, NEW w \in Workers, WorkerStep(w) PROVE Steps
<1> USE DEF TypeOK, mapVars, lockVars, listenerVars, userVars, workerVars, timerVars,
            brokerVars, Points, Waiting, AllAborted, Steps, MapStep, SockStep, Shuts,
            ListenStep, Stops, UserStep, Moves, WorkStep, RestStep, LinkStep, Unlocked,
            Leaked, WorkerGoes
<1>1. CASE \E r \in pending : Deliver(w, r)
  BY <1>1 DEF Deliver
<1>2. CASE \E r \in pending : HandleConnack(w, r)
  BY <1>2 DEF HandleConnack
<1>3. CASE CheckConn(w)
  BY <1>3 DEF CheckConn
<1>4. CASE WriteConn(w)
  BY <1>4 DEF WriteConn
<1>5. CASE WriteToNull(w)
  BY <1>5 DEF WriteToNull, Abort
<1>6. CASE SignalConn(w)
  BY <1>6 DEF SignalConn
<1> QED
  BY <1>1, <1>2, <1>3, <1>4, <1>5, <1>6 DEF WorkerStep

(* Steps of the ping timer and the broker.                                  *)
LEMMA OtherSteps ==
  ASSUME TypeOK,
         \/ TimerFires \/ PingEnds \/ PingFails
         \/ \E k \in Conns : Accept(k) \/ Serve(k) \/ HangUp(k)
  PROVE  Steps
<1> USE DEF TypeOK, mapVars, lockVars, listenerVars, userVars, workerVars, timerVars,
            brokerVars, Points, Waiting, AllAborted, Steps, MapStep, SockStep, Shuts,
            ListenStep, Stops, UserStep, Moves, WorkStep, RestStep, LinkStep, Unlocked,
            Leaked, BrokerGoes
<1>1. CASE TimerFires
  BY <1>1 DEF TimerFires
<1>2. CASE PingEnds
  BY <1>2 DEF PingEnds
<1>3. CASE PingFails
  BY <1>3 DEF PingFails
<1>4. CASE \E k \in Conns : Accept(k)
  <2>1. LinkStep
    BY <1>4
  <2>2. MapStep /\ SockStep /\ ListenStep /\ UserStep /\ WorkStep /\ RestStep
    BY <1>4 DEF Accept
  <2> QED
    BY <2>1, <2>2
<1>5. CASE \E k \in Conns : Serve(k)
  <2>1. LinkStep
    BY <1>5
  <2>2. MapStep /\ SockStep /\ ListenStep /\ UserStep /\ WorkStep /\ RestStep
    BY <1>5 DEF Serve
  <2> QED
    BY <2>1, <2>2
<1>6. CASE \E k \in Conns : HangUp(k)
  <2>1. LinkStep
    BY <1>6
  <2>2. MapStep /\ SockStep /\ ListenStep /\ UserStep /\ WorkStep /\ RestStep
    BY <1>6 DEF HangUp
  <2> QED
    BY <2>1, <2>2
<1> QED
  BY <1>1, <1>2, <1>3, <1>4, <1>5, <1>6

(* Every step is one of those above.                                        *)
LEMMA NextSteps == ASSUME TypeOK, [Next]_vars PROVE Steps
<1>1. CASE UNCHANGED vars
  BY <1>1 DEF vars, TypeOK, mapVars, lockVars, listenerVars, userVars, workerVars, timerVars,
              brokerVars, Points, Waiting, Steps, MapStep, SockStep, Shuts, ListenStep, Stops,
              UserStep, Moves, WorkStep, RestStep, LinkStep
<1>2. CASE Next
  <2>1. CASE ConnectStep \/ DisconnectStep
    BY <2>1, ConnectSteps, DisconnectSteps
  <2>2. CASE Shutdown \/ (\E k \in Conns : NewConnection(k))
             \/ (\E h \in Handles : SendFails(h) \/ Disconnect(h) \/ ShutdownThrows(h))
    BY <2>2, CallSteps
  <2>3. CASE TimerFires \/ PingEnds \/ PingFails
             \/ \E k \in Conns : Accept(k) \/ Serve(k) \/ HangUp(k)
    BY <2>3, OtherSteps
  <2>4. ASSUME NEW k \in Conns, ListenerStep(k) PROVE Steps
    BY <2>4, ListenerSteps
  <2>5. ASSUME NEW w \in Workers, WorkerStep(w) PROVE Steps
    BY <2>5, WorkerSteps
  <2> QED
    BY <1>2, <2>1, <2>2, <2>3, <2>4, <2>5 DEF Next
<1> QED
  BY <1>1, <1>2

-----------------------------------------------------------------------------
(* Type correctness. *)

MapTypes ==
  /\ sockets \in [Handles -> Conns \union {0}]
  /\ semaphores \in [Handles -> Conns \union {0}]
  /\ registry \in [Handles -> Conns \union {0}]
  /\ listeners \in [Handles -> Conns \union {0}]

SockTypes ==
  /\ sock \in [Conns -> {"new", "open", "shut", "closed", "deleted"}]
  /\ sem \in [Conns -> {0, 1}]

ListenTypes ==
  /\ lpc \in [Conns -> {"none", "poll", "init", "semwait", "gone", "thrown", "aborted"}]
  /\ listen \in [Conns -> BOOLEAN]
  /\ ready \in [Conns -> BOOLEAN]
  /\ lhandle \in [Conns -> Handles]

UserTypes ==
  /\ upc \in Points /\ cur \in 0 .. MaxConnects /\ arg \in Handles
  /\ lastHandle \in 0 .. MaxConnects

WorkTypes ==
  /\ pending \subseteq Requests
  /\ executing \in [Workers -> Requests \union {NoRequest}]
  /\ hpc \in [Workers -> {"idle", "check", "write", "signal", "aborted"}]
  /\ handled \subseteq Conns

RestTypes ==
  /\ lock \in {"none", "user", "timer"}
  /\ leaked \in BOOLEAN
  /\ brokerConn \in Conns \union {0}
  /\ acked \in 0 .. MaxConnects
  /\ timer \in {"none", "on", "calling", "aborted"}
  /\ pingHandle \in Handles

LinkTypes ==
  /\ remote \in [Conns -> {"none", "open", "greeted", "accepted", "served", "closed"}]
  /\ inbox \in [Conns -> Seq({"CONNACK", "PUBLISH"})]

(* The parts are all there is.                                              *)
LEMMA TypeParts ==
  TypeOK <=> /\ MapTypes /\ SockTypes /\ ListenTypes /\ UserTypes
             /\ WorkTypes /\ RestTypes /\ LinkTypes
BY Zenon DEF TypeOK, MapTypes, SockTypes, ListenTypes, UserTypes, WorkTypes, RestTypes,
             LinkTypes, Points

(* Handles and connections are small numbers.                               *)
LEMMA Numbers ==
  /\ MaxConnects \in Nat \ {0}
  /\ Conns = 1 .. MaxConnects /\ Handles = 0 .. MaxConnects - 1
BY ClientAssumption DEF Conns, Handles

(* A new connection gets a handle.                                          *)
LEMMA HandleOfNew ==
  ASSUME UserTypes, CountInv
  PROVE  /\ \A k \in Conns : NewConnection(k) => lastHandle \in Handles /\ k = cur + 1
         /\ upc = "ready" => lastHandle \in Handles /\ cur \in Conns
         /\ upc \in Waiting => NewHandle \in Handles /\ NewHandle = lastHandle - 1
BY Numbers DEF UserTypes, CountInv, NewConnection, Waiting, NewHandle

(* Handles are not counted past the connects.                               *)
LEMMA UserType == ASSUME UserTypes, CountInv, UserStep, MapStep PROVE UserTypes' /\ CountInv'
<1>1. ASSUME NEW k \in Conns, NewConnection(k) PROVE UserTypes' /\ CountInv'
  BY <1>1, Numbers DEF NewConnection, UserGoes, UserTypes, CountInv, Points
<1>2. CASE ListenerReady
  BY <1>2, Numbers DEF ListenerReady, UserGoes, UserTypes, CountInv, Points
<1>3. CASE Remove
  BY <1>3 DEF Remove, UserGoes, UserTypes, CountInv, Points
<1>4. CASE Moves
  BY <1>4 DEF Moves, UserTypes, CountInv, Points, Waiting
<1> QED
  BY <1>1, <1>2, <1>3, <1>4 DEF UserStep

(* The maps and the registry hold connections.                              *)
LEMMA MapType == ASSUME UserTypes, CountInv, MapTypes, MapStep PROVE MapTypes'
<1>1. ASSUME NEW k \in Conns, NewConnection(k) PROVE MapTypes'
  BY <1>1, HandleOfNew DEF NewConnection, Insert, MapTypes
<1>2. CASE ListenerReady
  BY <1>2, HandleOfNew DEF ListenerReady, UserGoes, Insert, MapTypes
<1>3. CASE Remove
  BY <1>3 DEF Remove, MapTypes
<1>4. CASE Shutdown
  BY <1>4 DEF Shutdown, StopListeners, MapTypes
<1>5. ASSUME NEW h \in Handles, ShutdownThrows(h) PROVE MapTypes'
  <2>1. PICK S : S = Mapped \intersect 0 .. h
    OBVIOUS
  <2> QED
    BY <1>5, <2>1 DEF ShutdownThrows, StopListeners, MapTypes
<1>6. CASE UNCHANGED mapVars
  BY <1>6 DEF mapVars, MapTypes
<1> QED
  BY <1>1, <1>2, <1>3, <1>4, <1>5, <1>6 DEF MapStep

(* Sockets and semaphores.                                                  *)
LEMMA SockType == ASSUME SockTypes, SockStep PROVE SockTypes'
<1>1. ASSUME NEW k \in Conns, NewConnection(k) PROVE SockTypes'
  BY <1>1 DEF NewConnection, SockTypes
<1>2. ASSUME NEW k \in Conns, CleanUp(k) PROVE SockTypes'
  BY <1>2 DEF CleanUp, SockTypes
<1>3. CASE CloseAndSet
  BY <1>3 DEF CloseAndSet, SockTypes
<1>4. CASE Shuts
  BY <1>4 DEF Shuts, SockTypes
<1> QED
  BY <1>1, <1>2, <1>3, <1>4 DEF SockStep

(* Listeners.                                                               *)
LEMMA ListenType ==
  ASSUME UserTypes, CountInv, ListenTypes, ListenStep
  PROVE  ListenTypes'
<1>1. ASSUME NEW k \in Conns, NewConnection(k) PROVE ListenTypes'
  BY <1>1, HandleOfNew DEF NewConnection, ListenTypes
<1>2. ASSUME NEW k \in Conns, Turn(k) PROVE ListenTypes'
  <2>1. PICK to \in {"poll", "init", "semwait", "gone", "thrown"} : lpc' = [lpc EXCEPT ![k] = to]
    BY <1>2 DEF Turn
  <2>2. ready' \in {ready, [ready EXCEPT ![k] = TRUE]} /\ UNCHANGED <<listen, lhandle>>
    BY <1>2 DEF Turn
  <2> QED
    BY <2>1, <2>2 DEF ListenTypes
<1>3. CASE Stops
  BY <1>3 DEF Stops, ListenTypes
<1> QED
  BY <1>1, <1>2, <1>3 DEF ListenStep

(* The registry never forgets.                                              *)
LEMMA RegistryGrows ==
  ASSUME UserTypes, CountInv, MapTypes, MapStep, NEW h \in Handles, registry[h] # 0
  PROVE  registry'[h] = registry[h]
<1>1. ASSUME NEW k \in Conns, NewConnection(k) PROVE registry'[h] = registry[h]
  BY <1>1, HandleOfNew DEF NewConnection, Insert, MapTypes
<1>2. CASE ListenerReady \/ Remove \/ Shutdown \/ \E i \in Handles : ShutdownThrows(i)
  BY <1>2 DEF ListenerReady, Remove, Shutdown, ShutdownThrows
<1>3. CASE UNCHANGED mapVars
  BY <1>3 DEF mapVars
<1> QED
  BY <1>1, <1>2, <1>3 DEF MapStep

(* What is counted goes up by one connect, or stays.                        *)
LEMMA CurGrows ==
  ASSUME UserStep
  PROVE  (\E k \in Conns : NewConnection(k)) \/ cur' = cur
BY DEF UserStep, ListenerReady, Remove, Moves

(* Who runs as a listener was made by a connect that the registry knows.    *)
LEMMA StartStep ==
  ASSUME UserTypes, CountInv, MapTypes, ListenTypes, StartInv, MapStep, ListenStep, UserStep
  PROVE  StartInv'
<1>1. ASSUME NEW k \in Conns, NewConnection(k) PROVE StartInv'
  <2>1. lastHandle \in Handles /\ k = cur + 1 /\ cur' = k /\ cur \in Nat
    <3>1. lastHandle \in Handles /\ k = cur + 1
      BY <1>1, HandleOfNew
    <3>2. cur' = k
      BY <1>1 DEF NewConnection
    <3> QED
      BY <3>1, <3>2, Numbers DEF UserTypes
  <2>2. lpc' = [lpc EXCEPT ![k] = "poll"] /\ lhandle' = [lhandle EXCEPT ![k] = lastHandle]
        /\ registry' = Insert(registry, lastHandle, k)
    BY <1>1 DEF NewConnection
  <2> SUFFICES ASSUME NEW j \in Conns
               PROVE  /\ j <= cur' => lpc'[j] # "none" /\ registry'[lhandle'[j]] # 0
                      /\ j > cur' => lpc'[j] \in {"none", "aborted"}
    BY DEF StartInv
  <2>3. CASE j = k
    <3>1. lpc'[j] = "poll" /\ lhandle'[j] = lastHandle
      BY <2>2, <2>3 DEF ListenTypes
    <3>2. registry'[lastHandle] # 0
      BY <2>1, <2>2, Numbers DEF Insert, MapTypes
    <3> QED
      BY <2>1, <2>3, <3>1, <3>2
  <2>4. CASE j # k
    <3>1. lpc'[j] = lpc[j] /\ lhandle'[j] = lhandle[j] /\ lhandle[j] \in Handles
      BY <2>2, <2>4 DEF ListenTypes
    <3>2. registry[lhandle[j]] # 0 => registry'[lhandle[j]] # 0
      BY <3>1, RegistryGrows
    <3>3. (j <= cur' => j <= cur) /\ (j > cur' => j > cur)
      BY <2>1, <2>4, Numbers
    <3> QED
      BY <3>1, <3>2, <3>3 DEF StartInv
  <2> QED
    BY <2>3, <2>4
<1>2. ASSUME cur' = cur, lhandle' = lhandle,
             \A j \in Conns : \/ lpc'[j] = lpc[j]
                             \/ lpc'[j] = "aborted"
                             \/ (lpc[j] \notin {"none", "aborted"} /\ lpc'[j] # "none")
      PROVE  StartInv'
  <2> SUFFICES ASSUME NEW j \in Conns
               PROVE  /\ j <= cur => lpc'[j] # "none" /\ registry'[lhandle[j]] # 0
                      /\ j > cur => lpc'[j] \in {"none", "aborted"}
    BY <1>2 DEF StartInv
  <2>1. registry[lhandle[j]] # 0 => registry'[lhandle[j]] # 0
    BY RegistryGrows DEF ListenTypes
  <2> QED
    BY <1>2, <2>1 DEF StartInv
<1>3. CASE (\E j \in Conns : Turn(j)) /\ cur' = cur
  <2>1. PICK i \in Conns : Turn(i)
    BY <1>3
  <2>2. PICK to : lpc' = [lpc EXCEPT ![i] = to] /\ to # "none" /\ lpc[i] \notin {"none", "aborted"}
    BY <2>1 DEF Turn
  <2>3. \A j \in Conns : lpc'[j] = IF j = i THEN to ELSE lpc[j]
    BY <2>2 DEF ListenTypes
  <2>4. lhandle' = lhandle
    BY <2>1 DEF Turn
  <2> QED
    BY <1>2, <1>3, <2>2, <2>3, <2>4
<1>4. CASE Stops /\ cur' = cur
  <2>1. lhandle' = lhandle /\ \A j \in Conns : lpc'[j] = lpc[j] \/ lpc'[j] = "aborted"
    BY <1>4 DEF Stops
  <2> QED
    BY <1>2, <1>4, <2>1
<1> QED
  BY <1>1, <1>3, <1>4, CurGrows DEF ListenStep

(* A listener that has started has a socket.                                *)
LEMMA OwnSocket ==
  ASSUME MapTypes, ListenTypes, UserTypes, StartInv, NEW k \in Conns,
         lpc[k] \in {"poll", "init", "semwait", "gone", "thrown"}
  PROVE  Own(k) \in Conns /\ lhandle[k] \in Handles /\ k <= cur
<1>1. k <= cur
  BY Numbers DEF StartInv, UserTypes
<1>2. lhandle[k] \in Handles /\ registry[lhandle[k]] # 0
  BY <1>1 DEF StartInv, ListenTypes
<1> QED
  BY <1>1, <1>2 DEF Own, MapTypes

(* Requests are made of packets, for the handle of their listener.          *)
LEMMA WorkType ==
  ASSUME MapTypes, ListenTypes, UserTypes, LinkTypes, StartInv, WorkTypes, BusyInv, WorkStep
  PROVE  WorkTypes' /\ BusyInv'
<1>1. ASSUME NEW k \in Conns, Receive(k) PROVE WorkTypes' /\ BusyInv'
  <2>1. lpc[k] = "poll" /\ UNCHANGED <<executing, hpc, handled>> /\ inbox[Own(k)] # <<>>
        /\ pending' = pending \union
             {[cmd |-> Head(inbox[Own(k)]), handle |-> lhandle[k], from |-> Own(k)]}
    BY <1>1 DEF Receive, ListenerGoes
  <2>2. Own(k) \in Conns /\ lhandle[k] \in Handles
    BY <2>1, OwnSocket
  <2>3. Head(inbox[Own(k)]) \in {"CONNACK", "PUBLISH"}
    <3>1. inbox[Own(k)] \in Seq({"CONNACK", "PUBLISH"})
      BY <2>2 DEF LinkTypes
    <3> QED
      BY <2>1, <3>1
  <2>4. pending' \subseteq Requests
    BY <2>1, <2>2, <2>3 DEF WorkTypes, Requests
  <2> QED
    BY <2>1, <2>4 DEF WorkTypes, BusyInv
<1>2. ASSUME NEW w \in Workers, WorkerStep(w) PROVE WorkTypes' /\ BusyInv'
  <2>1. ASSUME NEW r \in pending, Deliver(w, r) PROVE WorkTypes' /\ BusyInv'
    BY <2>1 DEF Deliver, WorkerGoes, WorkTypes, BusyInv
  <2>2. ASSUME NEW r \in pending, HandleConnack(w, r) PROVE WorkTypes' /\ BusyInv'
    BY <2>2 DEF HandleConnack, WorkerGoes, WorkTypes, BusyInv
  <2>3. CASE CheckConn(w)
    BY <2>3 DEF CheckConn, WorkerGoes, WorkTypes, BusyInv
  <2>4. CASE WriteConn(w)
    BY <2>4 DEF WriteConn, WorkerGoes, WorkTypes, BusyInv
  <2>5. CASE WriteToNull(w)
    BY <2>5 DEF WriteToNull, Abort, WorkTypes, BusyInv
  <2>6. CASE SignalConn(w)
    <3>1. executing[w].from \in Conns
      BY <2>6 DEF SignalConn, WorkerGoes, BusyInv, Requests
    <3> QED
      BY <2>6, <3>1 DEF SignalConn, WorkerGoes, WorkTypes, BusyInv
  <2> QED
    BY <1>2, <2>1, <2>2, <2>3, <2>4, <2>5, <2>6 DEF WorkerStep
<1>3. CASE UNCHANGED <<pending, executing, handled>> /\ hpc' \in {hpc, AllAborted}
  BY <1>3 DEF AllAborted, WorkTypes, BusyInv
<1> QED
  BY <1>1, <1>2, <1>3 DEF WorkStep

(* The other variables of the client.                                       *)
LEMMA RestType ==
  ASSUME UserTypes, CountInv, BusyInv, RestTypes, RestStep
  PROVE  RestTypes'
<1>1. acked' \in 0 .. MaxConnects
  <2>1. ASSUME NEW w \in Workers, SignalConn(w) PROVE acked' \in 0 .. MaxConnects
    <3>1. executing[w].from \in Conns
      BY <2>1 DEF SignalConn, WorkerGoes, BusyInv, Requests
    <3> QED
      BY <2>1, <3>1, Numbers DEF SignalConn, RestTypes
  <2> QED
    BY <2>1, Numbers DEF RestStep, RestTypes
<1>2. pingHandle' \in Handles
  BY HandleOfNew DEF RestStep, RestTypes, Waiting
<1>3. brokerConn' \in Conns \union {0}
  BY Numbers DEF RestStep, RestTypes, UserTypes
<1> QED
  BY <1>1, <1>2, <1>3 DEF RestStep, RestTypes

(* The broker's end, and what it has sent.                                  *)
LEMMA LinkType ==
  ASSUME MapTypes, ListenTypes, UserTypes, CountInv, StartInv, LinkTypes, LinkStep
  PROVE  LinkTypes'
<1>1. ASSUME NEW k \in Conns, NewConnection(k) PROVE LinkTypes'
  BY <1>1 DEF NewConnection, LinkTypes
<1>2. ASSUME NEW k \in Conns, Receive(k) \/ ReceiveThrows(k) \/ ParseThrows(k)
      PROVE  LinkTypes'
  <2>1. PICK s \in Conns : s = Own(k)
    BY <1>2, OwnSocket DEF Receive, ReceiveThrows, ParseThrows, ListenerGoes
  <2>2. /\ remote' = remote
        /\ \/ inbox' = [inbox EXCEPT ![s] = <<>>]
           \/ inbox' = [inbox EXCEPT ![s] = Tail(@)] /\ inbox[s] # <<>>
    BY <1>2, <2>1 DEF Receive, ReceiveThrows, ParseThrows, ListenerGoes
  <2>3. /\ <<>> \in Seq({"CONNACK", "PUBLISH"})
        /\ inbox[s] # <<>> => Tail(inbox[s]) \in Seq({"CONNACK", "PUBLISH"})
    BY DEF LinkTypes
  <2> QED
    BY <2>1, <2>2, <2>3 DEF LinkTypes
<1>3. ASSUME NEW k \in Conns, Accept(k) PROVE LinkTypes'
  <2>1. Append(inbox[k], "CONNACK") \in Seq({"CONNACK", "PUBLISH"})
    BY DEF LinkTypes
  <2> QED
    BY <1>3, <2>1 DEF Accept, BrokerGoes, LinkTypes
<1>4. ASSUME NEW k \in Conns, Serve(k) PROVE LinkTypes'
  <2>1. Append(inbox[k], "PUBLISH") \in Seq({"CONNACK", "PUBLISH"})
    BY DEF LinkTypes
  <2> QED
    BY <1>4, <2>1 DEF Serve, BrokerGoes, LinkTypes
<1>5. ASSUME NEW k \in Conns, HangUp(k) PROVE LinkTypes'
  BY <1>5 DEF HangUp, BrokerGoes, LinkTypes
<1>6. CASE ConnectSent
  BY <1>6 DEF ConnectSent, LinkTypes
<1>7. CASE UNCHANGED brokerVars
  BY <1>7 DEF brokerVars, LinkTypes
<1> QED
  BY <1>1, <1>2, <1>3, <1>4, <1>5, <1>6, <1>7 DEF LinkStep

(* Every step keeps the types.                                              *)
LEMMA TypeStep == ASSUME TypeInv, [Next]_vars PROVE TypeInv' /\ Steps
<1>1. Steps
  BY NextSteps DEF TypeInv
<1>2. /\ MapTypes /\ SockTypes /\ ListenTypes /\ UserTypes /\ WorkTypes /\ RestTypes /\ LinkTypes
      /\ CountInv /\ StartInv /\ BusyInv
  BY TypeParts DEF TypeInv
<1>3. /\ MapStep /\ SockStep /\ ListenStep /\ UserStep /\ WorkStep /\ RestStep /\ LinkStep
  BY <1>1 DEF Steps
<1>4. UserTypes' /\ CountInv'
  BY <1>2, <1>3, UserType
<1>5. MapTypes' /\ SockTypes' /\ ListenTypes' /\ StartInv'
  BY <1>2, <1>3, MapType, SockType, ListenType, StartStep
<1>6. WorkTypes' /\ BusyInv' /\ RestTypes' /\ LinkTypes'
  BY <1>2, <1>3, WorkType, RestType, LinkType
<1>7. TypeOK'
  BY <1>4, <1>5, <1>6, Zenon DEF TypeOK, MapTypes, SockTypes, ListenTypes, UserTypes, WorkTypes,
                                 RestTypes, LinkTypes, Points
<1> QED
  BY <1>1, <1>4, <1>5, <1>6, <1>7 DEF TypeInv
-----------------------------------------------------------------------------
(* Sockets belong to handles. *)
(* A socket stays with its handle.                                          *)
LEMMA OfStays ==
  ASSUME TypeInv, Steps, NEW k \in Conns, NEW h, Of(k, h)
  PROVE  Of(k, h)' /\ k <= cur' /\ lhandle'[k] = h
<1>1. cur \in Nat /\ k \in Nat /\ k <= cur /\ lhandle[k] = h /\ lhandle \in [Conns -> Handles]
  BY Numbers DEF TypeInv, TypeOK, Of
<1>2. ASSUME NEW j \in Conns, NewConnection(j) PROVE k <= cur' /\ lhandle'[k] = h
  <2>1. cur' = j /\ j = cur + 1 /\ lhandle' = [lhandle EXCEPT ![j] = lastHandle]
    BY <1>2 DEF NewConnection
  <2> QED
    BY <1>1, <2>1
<1>3. ASSUME cur' = cur, lhandle' = lhandle PROVE k <= cur' /\ lhandle'[k] = h
  BY <1>1, <1>3
<1>4. (\E j \in Conns : NewConnection(j)) \/ lhandle' = lhandle
  BY DEF Steps, ListenStep, Turn, Stops
<1>5. (\E j \in Conns : NewConnection(j)) \/ cur' = cur
  BY CurGrows DEF Steps
<1>6. k <= cur' /\ lhandle'[k] = h
  BY <1>2, <1>3, <1>4, <1>5
<1> QED
  BY <1>6 DEF Of

(* A socket that was made does not become new again.                        *)
LEMMA NotNewStays ==
  ASSUME TypeInv, Steps, NEW k \in Conns, sock[k] # "new"
  PROVE  sock'[k] # "new"
<1>1. sock \in [Conns -> {"new", "open", "shut", "closed", "deleted"}]
  BY DEF TypeInv, TypeOK
<1>2. ASSUME NEW j \in Conns, NewConnection(j) PROVE sock'[k] # "new"
  BY <1>1, <1>2 DEF NewConnection
<1>3. ASSUME NEW j \in Conns, CleanUp(j) PROVE sock'[k] # "new"
  BY <1>1, <1>3 DEF CleanUp
<1>4. CASE CloseAndSet
  BY <1>1, <1>4 DEF CloseAndSet
<1>5. CASE Shuts
  BY <1>5 DEF Shuts
<1> QED
  BY <1>2, <1>3, <1>4, <1>5 DEF Steps, SockStep

(* What the maps have under h after a step: what they had, nothing, or the  *)
(* socket of the new connection.                                            *)
After(h) ==
  \/ \E k \in Conns :
       /\ NewConnection(k) /\ h = lastHandle
       /\ sockets'[h] \in {sockets[h], k} /\ semaphores'[h] \in {semaphores[h], k}
       /\ registry'[h] \in {registry[h], k}
       /\ sockets'[h] # 0 /\ semaphores'[h] # 0
       /\ sockets'[h] = k => sockets[h] \in {0, k}
  \/ /\ sockets'[h] \in {sockets[h], 0} /\ semaphores'[h] \in {semaphores[h], 0}
     /\ registry'[h] = registry[h]
     /\ sockets'[h] # 0 => semaphores'[h] = semaphores[h]

(* Every step leaves them so.                                               *)
LEMMA MapsAfter == ASSUME TypeInv, Steps, NEW h \in Handles PROVE After(h)
<1> USE DEF After
<1>1. MapTypes /\ UserTypes /\ CountInv
  BY TypeParts DEF TypeInv
<1>2. ASSUME NEW k \in Conns, NewConnection(k) PROVE After(h)
  <2>1. /\ sockets' = Insert(sockets, lastHandle, k)
        /\ semaphores' = Insert(semaphores, lastHandle, k)
        /\ registry' = Insert(registry, lastHandle, k)
    BY <1>2 DEF NewConnection
  <2>2. lastHandle \in Handles /\ k # 0
    BY <1>1, <1>2, HandleOfNew, Numbers
  <2>3. CASE h = lastHandle
    BY <1>1, <1>2, <2>1, <2>2, <2>3 DEF Insert, MapTypes
  <2>4. CASE h # lastHandle
    BY <1>1, <2>1, <2>2, <2>4 DEF Insert, MapTypes
  <2> QED
    BY <2>3, <2>4
<1>3. CASE ListenerReady
  BY <1>3 DEF ListenerReady
<1>4. CASE Remove
  BY <1>1, <1>4 DEF Remove, MapTypes
<1>5. CASE Shutdown
  BY <1>5 DEF Shutdown
<1>6. ASSUME NEW i \in Handles, ShutdownThrows(i) PROVE After(h)
  BY <1>6 DEF ShutdownThrows
<1>7. CASE UNCHANGED mapVars
  BY <1>7 DEF mapVars
<1> QED
  BY <1>2, <1>3, <1>4, <1>5, <1>6, <1>7 DEF Steps, MapStep

(* What the maps have under a handle was made for it.                       *)
LEMMA OwnStep == ASSUME TypeInv, MapInv, Steps PROVE OwnInv'
<1>1. MapTypes /\ UserTypes /\ CountInv /\ SockTypes /\ ListenTypes
  BY TypeParts DEF TypeInv
<1>2. ASSUME NEW k \in Conns, NewConnection(k)
      PROVE  k <= cur' /\ lhandle'[k] = lastHandle /\ sock'[k] # "new"
  BY <1>1, <1>2, Numbers DEF NewConnection, SockTypes, ListenTypes
<1> SUFFICES ASSUME NEW h \in Handles
             PROVE  /\ sockets'[h] # 0 =>
                         /\ sockets'[h] <= cur' /\ lhandle'[sockets'[h]] = h
                         /\ sock'[sockets'[h]] # "new" /\ semaphores'[h] # 0
                    /\ semaphores'[h] # 0 => semaphores'[h] <= cur' /\ lhandle'[semaphores'[h]] = h
                    /\ registry'[h] # 0 => registry'[h] <= cur' /\ lhandle'[registry'[h]] = h
  BY DEF OwnInv, Of
<1>3. /\ sockets[h] # 0 => sockets[h] <= cur' /\ lhandle'[sockets[h]] = h /\ sock'[sockets[h]] # "new"
      /\ semaphores[h] # 0 => semaphores[h] <= cur' /\ lhandle'[semaphores[h]] = h
      /\ registry[h] # 0 => registry[h] <= cur' /\ lhandle'[registry[h]] = h
  <2>1. {sockets[h], semaphores[h], registry[h]} \subseteq Conns \union {0}
    BY <1>1 DEF MapTypes
  <2> QED
    BY <2>1, OfStays, NotNewStays DEF MapInv, OwnInv
<1>4. sockets[h] # 0 => semaphores[h] # 0
  BY DEF MapInv, OwnInv
<1> QED
  BY <1>2, <1>3, <1>4, MapsAfter DEF After

(* A connection that was not made yet has been used by nobody.              *)
LEMMA FreshStep == ASSUME TypeInv, MapInv, Steps PROVE FreshInv'
<1>1. MapTypes /\ UserTypes /\ CountInv /\ StartInv /\ SockTypes /\ ListenTypes
  BY TypeParts DEF TypeInv
<1> SUFFICES ASSUME NEW k \in Conns, k > cur' PROVE sock'[k] = "new" /\ sem'[k] = 0
  BY DEF FreshInv
<1>2. ASSUME NEW j \in Conns, NewConnection(j) PROVE sock'[k] = "new" /\ sem'[k] = 0
  <2>1. cur' = j /\ j = cur + 1 /\ sock' = [sock EXCEPT ![j] = "open"] /\ sem' = sem
    BY <1>2 DEF NewConnection
  <2>2. k > cur /\ k # j
    BY <1>1, <2>1, Numbers DEF UserTypes
  <2> QED
    BY <2>1, <2>2 DEF MapInv, FreshInv
<1>3. k > cur
  <2>1. cur' = cur \/ cur' = cur + 1
    BY CurGrows DEF Steps, NewConnection
  <2> QED
    BY <1>1, <2>1, Numbers DEF UserTypes
<1>4. sock[k] = "new" /\ sem[k] = 0
  BY <1>3 DEF MapInv, FreshInv
<1>5. \A h \in Handles : sockets[h] # k /\ semaphores[h] # k /\ registry[h] # k
  BY <1>1, <1>3, Numbers DEF MapInv, OwnInv, Of, UserTypes
<1>6. ASSUME NEW j \in Conns, CleanUp(j) PROVE sock'[k] = "new" /\ sem'[k] = 0
  <2>1. lhandle[j] \in Handles
    BY <1>1 DEF ListenTypes
  <2>2. Own(j) # k
    BY <1>5, <2>1 DEF Own
  <2> QED
    BY <1>1, <1>4, <1>6, <2>2 DEF CleanUp, SockTypes
<1>7. CASE CloseAndSet
  <2>1. sockets[arg] # k /\ semaphores[arg] # k
    BY <1>1, <1>5 DEF UserTypes
  <2> QED
    BY <1>1, <1>4, <1>7, <2>1 DEF CloseAndSet, SockTypes
<1>8. CASE Shuts
  BY <1>4, <1>5, <1>8 DEF Shuts
<1> QED
  BY <1>2, <1>6, <1>7, <1>8 DEF Steps, SockStep

(* A socket whose semaphore was set, or that is deleted, leaves the map.    *)
LEMMA GoneStep == ASSUME TypeInv, MapInv, Steps PROVE GoneInv'
<1>1. MapTypes /\ UserTypes /\ CountInv /\ StartInv /\ SockTypes /\ ListenTypes
  BY TypeParts DEF TypeInv
<1>2. /\ OwnInv /\ FreshInv /\ GoneInv
  BY DEF MapInv
<1> SUFFICES ASSUME NEW k \in Conns, sem'[k] = 1 \/ sock'[k] = "deleted"
             PROVE  \/ sockets'[lhandle'[k]] # k \/ upc' = "aborted"
                    \/ (upc' = "remove" /\ arg' = lhandle'[k])
  BY DEF GoneInv
<1>3. ASSUME sem[k] = 1 \/ sock[k] = "deleted"
      PROVE  \/ sockets'[lhandle'[k]] # k \/ upc' = "aborted"
             \/ (upc' = "remove" /\ arg' = lhandle'[k])
  <2>1. k <= cur
    BY <1>1, <1>2, <1>3, Numbers DEF FreshInv, UserTypes
  <2>2. PICK h \in Handles : h = lhandle[k] /\ h = lhandle'[k]
    BY <1>1, <2>1, OfStays DEF Of, ListenTypes
  <2>3. \/ sockets[h] # k \/ upc = "aborted" \/ (upc = "remove" /\ arg = h)
    BY <1>2, <1>3, <2>2 DEF GoneInv
  <2>4. CASE sockets[h] # k
    <3>1. \A j \in Conns : NewConnection(j) => j # k
      BY <1>1, <2>1, HandleOfNew, Numbers DEF UserTypes
    <3>2. sockets'[h] # k
      BY <2>4, <3>1, MapsAfter, Numbers DEF After
    <3> QED
      BY <2>2, <3>2
  <2>5. CASE upc = "aborted"
    BY <2>5 DEF Steps, UserStep, NewConnection, ListenerReady, Remove, UserGoes, Moves
  <2>6. CASE upc = "remove" /\ arg = h
    <3>1. CASE Remove
      <4>1. sockets'[h] = 0
        BY <1>1, <2>6, <3>1 DEF Remove, MapTypes
      <4> QED
        BY <2>2, <4>1, Numbers
    <3>2. CASE Moves
      BY <2>2, <2>6, <3>2 DEF Moves
    <3> QED
      BY <2>6, <3>1, <3>2 DEF Steps, UserStep, NewConnection, ListenerReady, UserGoes
  <2> QED
    BY <2>3, <2>4, <2>5, <2>6
<1>4. ASSUME NEW j \in Conns, NewConnection(j) PROVE sem[k] = 1 \/ sock[k] = "deleted"
  BY <1>1, <1>4 DEF NewConnection, SockTypes
<1>5. ASSUME NEW j \in Conns, CleanUp(j) PROVE sem[k] = 1 \/ sock[k] = "deleted"
  BY <1>1, <1>5 DEF CleanUp, SockTypes
<1>6. CASE Shuts
  <2>1. sem[k] = 1 \/ sock[k] = "deleted"
    BY <1>6 DEF Shuts
  <2> QED
    BY <1>3, <2>1
<1>7. CASE CloseAndSet
  <2>1. CASE sem[k] = 1 \/ sock[k] = "deleted"
    BY <1>3, <2>1
  <2>2. CASE ~(sem[k] = 1 \/ sock[k] = "deleted")
    <3>1. k = semaphores[arg]
      BY <1>1, <1>7, <2>2 DEF CloseAndSet, SockTypes
    <3>2. lhandle[k] = arg
      BY <1>1, <1>2, <3>1, Numbers DEF OwnInv, Of, UserTypes
    <3> QED
      BY <1>7, <3>2 DEF CloseAndSet, UserGoes, listenerVars
  <2> QED
    BY <2>1, <2>2
<1> QED
  BY <1>3, <1>4, <1>5, <1>6, <1>7 DEF Steps, SockStep

(* While a listener is registered, nobody else touches the maps.            *)
LEMMA ReadyStep == ASSUME TypeInv, MapInv, Steps PROVE upc' = "ready" => sockets'[lastHandle'] # 0
<1>1. MapTypes /\ UserTypes /\ CountInv
  BY TypeParts DEF TypeInv
<1> SUFFICES ASSUME upc' = "ready" PROVE sockets'[lastHandle'] # 0
  OBVIOUS
<1>2. ASSUME NEW k \in Conns, NewConnection(k) PROVE sockets'[lastHandle'] # 0
  <2>1. lastHandle' = lastHandle /\ sockets' = Insert(sockets, lastHandle, k)
    BY <1>2 DEF NewConnection
  <2>2. lastHandle \in Handles /\ k # 0
    BY <1>1, <1>2, HandleOfNew, Numbers
  <2> QED
    BY <1>1, <2>1, <2>2 DEF Insert, MapTypes
<1>3. CASE Moves
  <2>1. upc = "ready" /\ lastHandle' = lastHandle
    BY <1>3 DEF Moves
  <2>2. sockets[lastHandle] # 0
    BY <2>1 DEF MapInv
  <2>3. (\E k \in Conns : NewConnection(k)) \/ UNCHANGED mapVars
    BY <2>1 DEF Steps, MapStep, ListenerReady, Remove, Shutdown, ShutdownThrows, UserGoes
  <2> QED
    BY <1>2, <2>1, <2>2, <2>3 DEF mapVars
<1> QED
  BY <1>2, <1>3 DEF Steps, UserStep, ListenerReady, Remove, UserGoes

(* A listener is registered under a handle that is mapped, and forgotten    *)
(* with it.                                                                 *)
LEMMA ListenersStep == ASSUME TypeInv, MapInv, Steps PROVE ListenersAreMapped'
<1>1. MapTypes /\ UserTypes /\ CountInv /\ ListenersAreMapped
  BY TypeParts DEF TypeInv, MapInv
<1> SUFFICES ASSUME NEW h \in Handles, listeners'[h] # 0 PROVE sockets'[h] # 0
  BY DEF ListenersAreMapped
<1>2. ASSUME NEW k \in Conns, NewConnection(k) PROVE sockets'[h] # 0
  <2>1. listeners' = listeners /\ sockets' = Insert(sockets, lastHandle, k)
    BY <1>2 DEF NewConnection
  <2>2. sockets[h] # 0
    BY <1>1, <2>1 DEF ListenersAreMapped
  <2>3. lastHandle \in Handles /\ k # 0
    BY <1>1, <1>2, HandleOfNew, Numbers
  <2> QED
    BY <1>1, <2>1, <2>2, <2>3 DEF Insert, MapTypes
<1>3. CASE ListenerReady
  <2>1. upc = "ready" /\ sockets' = sockets /\ listeners' = Insert(listeners, lastHandle, cur)
    BY <1>3 DEF ListenerReady, UserGoes
  <2>2. sockets[lastHandle] # 0
    BY <2>1 DEF MapInv
  <2>3. listeners[h] # 0 \/ h = lastHandle
    BY <1>1, <2>1 DEF Insert, MapTypes
  <2> QED
    BY <1>1, <2>1, <2>2, <2>3 DEF ListenersAreMapped
<1>4. CASE Remove
  <2>1. h # arg /\ listeners[h] # 0 /\ sockets'[h] = sockets[h]
    BY <1>1, <1>4 DEF Remove, MapTypes, UserTypes
  <2> QED
    BY <1>1, <2>1 DEF ListenersAreMapped
<1>5. CASE Shutdown
  <2>1. h \notin Mapped /\ listeners[h] # 0
    BY <1>5 DEF Shutdown, StopListeners
  <2> QED
    BY <1>1, <2>1 DEF Mapped, ListenersAreMapped
<1>6. ASSUME NEW i \in Handles, ShutdownThrows(i) PROVE sockets'[h] # 0
  <2>1. PICK S : S = Mapped \intersect 0 .. i
    OBVIOUS
  <2>2. sockets' = sockets /\ listeners[h] # 0
    BY <1>6, <2>1 DEF ShutdownThrows, StopListeners
  <2> QED
    BY <1>1, <2>2 DEF ListenersAreMapped
<1>7. CASE UNCHANGED mapVars
  BY <1>1, <1>7 DEF mapVars, ListenersAreMapped
<1> QED
  BY <1>2, <1>3, <1>4, <1>5, <1>6, <1>7 DEF Steps, MapStep

(* A request is made for a handle the registry has, and keeps.              *)
LEMMA RequestsStep == ASSUME TypeInv, RequestsResolve, Steps PROVE RequestsResolve'
<1>1. MapTypes /\ UserTypes /\ CountInv /\ StartInv /\ ListenTypes /\ WorkTypes
  BY TypeParts DEF TypeInv
<1>2. \A h \in Handles : registry[h] # 0 => registry'[h] # 0
  BY <1>1, RegistryGrows DEF Steps
<1>3. \A r \in Requests : r.handle \in Handles /\ r # NoRequest
  BY Numbers DEF Requests, NoRequest
<1>4. ASSUME \A r \in pending' : r \in pending \/ (r \in Requests /\ registry[r.handle] # 0),
             \A w \in Workers : executing'[w] \in {NoRequest, executing[w]} \union pending
      PROVE  RequestsResolve'
  <2> SUFFICES ASSUME NEW r \in pending' \union {executing'[w] : w \in Workers}, r # NoRequest
               PROVE  registry'[r.handle] # 0
    BY DEF RequestsResolve
  <2>1. r \in Requests /\ registry[r.handle] # 0
    <3>1. r \in pending \/ (\E w \in Workers : r = executing[w])
          \/ (r \in Requests /\ registry[r.handle] # 0)
      BY <1>4
    <3> QED
      BY <1>1, <3>1 DEF RequestsResolve, WorkTypes
  <2> QED
    BY <1>2, <1>3, <2>1
<1>5. ASSUME NEW k \in Conns, Receive(k) PROVE RequestsResolve'
  <2>1. lpc[k] = "poll" /\ executing' = executing
        /\ pending' = pending \union
             {[cmd |-> Head(inbox[Own(k)]), handle |-> lhandle[k], from |-> Own(k)]}
    BY <1>5 DEF Receive, ListenerGoes
  <2>2. Own(k) \in Conns
    BY <1>1, <2>1, OwnSocket
  <2>3. registry[lhandle[k]] # 0
    BY <2>2, Numbers DEF Own
  <2>4. pending' \subseteq Requests
    <3>1. WorkTypes'
      BY <1>1, TypeParts, WorkType DEF Steps, TypeInv
    <3> QED
      BY <3>1 DEF WorkTypes
  <2> QED
    BY <1>4, <2>1, <2>3, <2>4
<1>6. ASSUME NEW w \in Workers, WorkerStep(w) PROVE RequestsResolve'
  <2>1. /\ pending' \subseteq pending
        /\ \/ executing' = executing
           \/ \E r \in pending \union {NoRequest} : executing' = [executing EXCEPT ![w] = r]
    BY <1>6 DEF WorkerStep, Deliver, HandleConnack, CheckConn, WriteConn, WriteToNull, SignalConn,
                WorkerGoes
  <2>2. \A v \in Workers : executing'[v] \in {NoRequest, executing[v]} \union pending
    BY <1>1, <2>1 DEF WorkTypes
  <2> QED
    BY <1>4, <2>1, <2>2
<1>7. CASE UNCHANGED <<pending, executing, handled>>
  BY <1>4, <1>7
<1> QED
  BY <1>5, <1>6, <1>7 DEF Steps, WorkStep

(* The witness of PolledSocketLive is the listener that deletes the socket. *)
LEMMA SharedStep == ASSUME TypeInv, MapInv, SharedInv, Steps PROVE SharedInv'
<1>1. MapTypes /\ UserTypes /\ CountInv /\ StartInv /\ SockTypes /\ ListenTypes
  BY TypeParts DEF TypeInv
<1> SUFFICES ASSUME NEW k \in Conns, lpc'[k] \in {"poll", "init"}, sock'[k] = "deleted"
             PROVE  \E j \in Conns \ {k} : j <= cur' /\ lhandle'[j] = lhandle'[k]
  BY DEF SharedInv, Of
<1>2. ~NewConnection(k)
  BY <1>1 DEF NewConnection, SockTypes
<1>3. lpc[k] \in {"poll", "init"}
  <2>1. ASSUME NEW j \in Conns, NewConnection(j) PROVE lpc[k] \in {"poll", "init"}
    BY <1>1, <1>2, <2>1 DEF NewConnection, ListenTypes
  <2>2. ASSUME NEW j \in Conns, Turn(j) PROVE lpc[k] \in {"poll", "init"}
    BY <1>1, <2>2 DEF Turn, ListenTypes
  <2>3. CASE Stops
    BY <2>3 DEF Stops
  <2> QED
    BY <2>1, <2>2, <2>3 DEF Steps, ListenStep
<1>4. k <= cur /\ lhandle'[k] = lhandle[k]
  <2>1. k <= cur
    BY <1>1, <1>3, OwnSocket
  <2> QED
    BY <2>1, OfStays DEF Of
<1>5. ASSUME NEW j \in Conns \ {k}, Of(j, lhandle[k])
      PROVE  j <= cur' /\ lhandle'[j] = lhandle'[k]
  BY <1>4, <1>5, OfStays
<1>6. CASE sock[k] = "deleted"
  <2>1. PICK j \in Conns \ {k} : Of(j, lhandle[k])
    BY <1>3, <1>6 DEF SharedInv
  <2> QED
    BY <1>5, <2>1
<1>7. ASSUME NEW j \in Conns, CleanUp(j), sock[k] # "deleted"
      PROVE  \E i \in Conns \ {k} : i <= cur' /\ lhandle'[i] = lhandle'[k]
  <2>1. lpc[j] = "semwait" /\ Own(j) = k
    BY <1>1, <1>7 DEF CleanUp, ListenerGoes, SockTypes
  <2>2. j # k /\ j <= cur /\ lhandle[j] \in Handles
    BY <1>1, <1>3, <2>1, OwnSocket
  <2>3. lhandle[k] = lhandle[j]
    BY <2>1, <2>2, Numbers DEF Own, MapInv, OwnInv, Of
  <2>4. j \in Conns \ {k} /\ Of(j, lhandle[k])
    BY <2>2, <2>3 DEF Of
  <2> QED
    BY <1>5, <2>4
<1>8. CASE sock[k] # "deleted"
  <2>1. \E j \in Conns : CleanUp(j)
    <3>1. ASSUME NEW j \in Conns, NewConnection(j) PROVE FALSE
      BY <1>1, <1>8, <3>1 DEF NewConnection, SockTypes
    <3>2. CASE CloseAndSet
      BY <1>1, <1>8, <3>2 DEF CloseAndSet, SockTypes
    <3>3. CASE Shuts
      BY <1>8, <3>3 DEF Shuts
    <3> QED
      BY <3>1, <3>2, <3>3 DEF Steps, SockStep
  <2> QED
    BY <1>7, <1>8, <2>1
<1> QED
  BY <1>6, <1>8

-----------------------------------------------------------------------------
(* The theorems. *)

(* The invariant of the client: sockets and what is known of them.          *)
THEOREM Invariance == Spec => []IndInv
<1>1. Init => IndInv
  <2> SUFFICES ASSUME Init PROVE IndInv
    OBVIOUS
  <2>1. TypeOK
    <3>1. MapTypes /\ SockTypes
      BY DEF Init, MapTypes, SockTypes
    <3>2. ListenTypes
      BY Numbers DEF Init, ListenTypes
    <3>3. UserTypes
      <4>1. lastHandle \in 0 .. MaxConnects /\ cur \in 0 .. MaxConnects /\ arg \in Handles
        BY Numbers DEF Init
      <4> QED
        BY <4>1 DEF Init, UserTypes, Points
    <3>4. RestTypes
      <4>1. acked \in 0 .. MaxConnects /\ pingHandle \in Handles /\ brokerConn = 0
        BY Numbers DEF Init
      <4> QED
        BY <4>1 DEF Init, RestTypes
    <3>5. WorkTypes
      BY DEF Init, WorkTypes
    <3>6. LinkTypes
      BY DEF Init, LinkTypes
    <3> QED
      BY <3>1, <3>2, <3>3, <3>4, <3>5, <3>6, TypeParts
  <2>2. CountInv /\ StartInv /\ BusyInv
    BY Numbers DEF Init, CountInv, StartInv, BusyInv
  <2>3. MapInv
    BY Numbers DEF Init, MapInv, OwnInv, FreshInv, GoneInv, ListenersAreMapped
  <2>4. SharedInv
    BY DEF Init, SharedInv
  <2>5. RequestsResolve
    BY DEF Init, RequestsResolve
  <2> QED
    BY <2>1, <2>2, <2>3, <2>4, <2>5 DEF IndInv, TypeInv
<1>2. IndInv /\ [Next]_vars => IndInv'
  <2> SUFFICES ASSUME IndInv, [Next]_vars PROVE IndInv'
    OBVIOUS
  <2>1. TypeInv /\ MapInv /\ SharedInv /\ RequestsResolve
    BY DEF IndInv
  <2>2. TypeInv' /\ Steps
    BY <2>1, TypeStep
  <2>3. MapInv'
    BY <2>1, <2>2, OwnStep, FreshStep, GoneStep, ListenersStep, ReadyStep DEF MapInv
  <2>4. SharedInv' /\ RequestsResolve'
    BY <2>1, <2>2, SharedStep, RequestsStep
  <2> QED
    BY <2>2, <2>3, <2>4 DEF IndInv
<1> QED
  BY <1>1, <1>2, PTL DEF Spec

(* Every variable keeps its type: handles are those connect has given out,  *)

(* and what a handler finds is a connection.                                *)
THEOREM TypeCorrect == Spec => []TypeOK
<1>1. IndInv => TypeOK
  BY DEF IndInv, TypeInv
<1> QED
  BY <1>1, Invariance, PTL

(* Whoever finds a socket in the map and has the mutex may use it, for any  *)

(* number of connects, with or without errors on the way.                   *)
THEOREM MappedSocketsLive == Spec => []MappedSocketLive
<1>1. ASSUME IndInv PROVE MappedSocketLive
  <2>1. MapTypes /\ SockTypes /\ OwnInv /\ GoneInv
    BY <1>1, TypeParts DEF IndInv, TypeInv, MapInv
  <2> SUFFICES ASSUME NEW h \in Handles, sockets[h] # 0, upc \notin {"remove", "aborted"}
               PROVE  sock[sockets[h]] \in {"open", "shut", "closed"} /\ semaphores[h] # 0
    BY DEF MappedSocketLive
  <2>2. PICK k \in Conns : k = sockets[h]
    BY <2>1 DEF MapTypes
  <2>3. lhandle[k] = h /\ sock[k] # "new" /\ semaphores[h] # 0
    BY <2>1, <2>2 DEF OwnInv, Of
  <2>4. sock[k] # "deleted"
    BY <2>1, <2>2, <2>3 DEF GoneInv
  <2> QED
    BY <2>1, <2>2, <2>3, <2>4 DEF SockTypes
<1>2. IndInv => MappedSocketLive
  BY <1>1
<1> QED
  BY <1>2, Invariance, PTL

(* A listener polls a deleted socket only if another one shares its handle. *)
THEOREM PolledSocketsLive == Spec => []PolledSocketLive
<1>1. ASSUME IndInv PROVE PolledSocketLive
  <2>1. MapTypes /\ ListenTypes /\ UserTypes /\ StartInv /\ OwnInv /\ SharedInv
    BY <1>1, TypeParts DEF IndInv, TypeInv, MapInv
  <2> SUFFICES ASSUME NEW k \in Conns, lpc[k] \in {"poll", "init"}, sock[Own(k)] = "deleted"
               PROVE  \E j \in Conns \ {k} : lpc[j] # "none" /\ lhandle[j] = lhandle[k]
    BY DEF PolledSocketLive
  <2>2. Own(k) \in Conns /\ lhandle[k] \in Handles
    BY <2>1, OwnSocket
  <2>3. Of(Own(k), lhandle[k])
    BY <2>1, <2>2, Numbers DEF Own, OwnInv
  <2>4. PICK j \in Conns \ {k} : Of(j, lhandle[k])
    BY <2>1, <2>2, <2>3 DEF SharedInv
  <2> QED
    BY <2>1, <2>4 DEF Of, StartInv
<1>2. IndInv => PolledSocketLive
  BY <1>1
<1> QED
  BY <1>2, Invariance, PTL

(* The handle of a request is in the registry when a worker looks it up.    *)
THEOREM RequestsAreResolved == Spec => []RequestsResolve
<1>1. IndInv => RequestsResolve
  BY DEF IndInv
<1> QED
  BY <1>1, Invariance, PTL

(* The manager knows no listener that the client does not.                  *)
THEOREM ListenersMapped == Spec => []ListenersAreMapped
<1>1. IndInv => ListenersAreMapped
  BY DEF IndInv, MapInv
<1> QED
  BY <1>1, Invariance, PTL
-----------------------------------------------------------------------------
(* Sockets go one way. *)

Shutted == {"shut", "closed", "deleted"}

(* A semaphore that is set, or is not that of the socket in the map, belongs *)
(* to a socket that was shut; what is in the map is open or shut, until      *)
(* disconnect has closed it.                                                 *)
LifeInv ==
  /\ \A k \in Conns : sem[k] = 1 => sock[k] \in Shutted
  /\ \A h \in Handles :
       semaphores[h] # 0 => sockets[h] = semaphores[h] \/ sock[semaphores[h]] \in Shutted
  /\ \A h \in Handles :
       sockets[h] # 0 => \/ sock[sockets[h]] \in {"open", "shut"}
                         \/ upc = "aborted" \/ (upc = "remove" /\ arg = h)
  /\ upc \in {"shut", "close", "remove"} => sockets[arg] # 0
  /\ upc = "close" => sock[sockets[arg]] = "shut"

(* What SocketsGoOneWay says of a step. *)
OneWay ==
  \A k \in Conns : sock'[k] # sock[k] =>
    <<sock[k], sock'[k]>> \in {<<"new", "open">>, <<"open", "shut">>, <<"shut", "closed">>,
                              <<"shut", "deleted">>, <<"closed", "deleted">>}

(* A step that leaves sockets and semaphores alone.                         *)
LEMMA LifeFrame ==
  ASSUME LifeInv, UNCHANGED <<sockets, semaphores, sock, sem>>,
         \/ UNCHANGED <<upc, arg>> \/ upc' = "aborted"
         \/ upc \notin {"remove", "aborted"} /\ upc' \notin {"shut", "close", "remove"}
         \/ upc' = "shut" /\ upc \notin {"remove", "aborted"} /\ sockets[arg'] # 0
  PROVE  LifeInv' /\ OneWay
BY DEF LifeInv, OneWay

(* The steps that leave them alone.                                         *)
Poll(k) ==
  \/ Receive(k) \/ PollTimeout(k) \/ TurnEnds(k) \/ SeeClosed(k) \/ SeeStop(k)
  \/ PollThrows(k) \/ ReceiveThrows(k) \/ ParseThrows(k) \/ WaitOnNull(k)

Quiet ==
  \/ ConnectStep
  \/ \E h \in Handles : SendFails(h) \/ Disconnect(h)
  \/ TimerStopped \/ UnknownHandle \/ DisconnectSent \/ ShutThrows
  \/ \E k \in Conns : Poll(k) \/ Accept(k) \/ Serve(k) \/ HangUp(k)
  \/ TimerFires \/ PingEnds \/ PingFails
  \/ \E w \in Workers : WorkerStep(w)
  \/ UNCHANGED vars

(* They keep LifeInv.                                                       *)
LEMMA QuietLife == ASSUME TypeInv, LifeInv, Quiet PROVE LifeInv' /\ OneWay
<1> USE LifeFrame DEF UserGoes, mapVars, listenerVars, userVars
<1>1. CASE ConnectStep
  BY <1>1 DEF ConnectStep, ReadyTimeout, ListenerReady, ConnectSent, ConnectNotSent, ArmConn,
              EnterWait, Connected, ConnectedTwice, ConnectTimeout, Abort
<1>2. CASE \E h \in Handles : SendFails(h) \/ Disconnect(h)
  BY <1>2 DEF SendFails, Disconnect
<1>3. CASE TimerStopped \/ UnknownHandle \/ ShutThrows
  BY <1>3 DEF TimerStopped, UnknownHandle, ShutThrows
<1>4. CASE DisconnectSent
  BY <1>4 DEF DisconnectSent
<1>5. ASSUME NEW k \in Conns, Poll(k) \/ Accept(k) \/ Serve(k) \/ HangUp(k)
      PROVE  LifeInv' /\ OneWay
  BY <1>5 DEF Poll, Receive, PollTimeout, TurnEnds, SeeClosed, SeeStop, PollThrows,
              ReceiveThrows, ParseThrows, WaitOnNull, Abort, Accept, Serve, HangUp,
              ListenerGoes, BrokerGoes
<1>6. CASE TimerFires \/ PingEnds \/ PingFails
  BY <1>6 DEF TimerFires, PingEnds, PingFails
<1>7. ASSUME NEW w \in Workers, WorkerStep(w) PROVE LifeInv' /\ OneWay
  BY <1>7 DEF WorkerStep, Deliver, HandleConnack, CheckConn, WriteConn, WriteToNull, SignalConn,
              WorkerGoes, Abort
<1>8. CASE UNCHANGED vars
  BY <1>8 DEF vars
<1> QED
  BY <1>1, <1>2, <1>3, <1>4, <1>5, <1>6, <1>7, <1>8 DEF Quiet

(* A new socket gets the semaphore that was made for it, or finds one under *)
(* its handle, whose socket was shut.                                       *)
LEMMA NewLife ==
  ASSUME TypeInv, MapInv, LifeInv, NEW k \in Conns, NewConnection(k)
  PROVE  LifeInv' /\ OneWay
<1>1. MapTypes /\ UserTypes /\ SockTypes
  BY TypeParts DEF TypeInv
<1>2. lastHandle \in Handles /\ k # 0 /\ k > cur
  <2>1. lastHandle \in Handles /\ k = cur + 1
    BY <1>1, HandleOfNew DEF TypeInv
  <2> QED
    BY <1>1, <2>1, Numbers DEF UserTypes
<1>3. /\ sockets' = Insert(sockets, lastHandle, k)
      /\ semaphores' = Insert(semaphores, lastHandle, k)
      /\ sock' = [sock EXCEPT ![k] = "open"] /\ sem' = sem
      /\ upc = "idle" /\ upc' = "ready"
  BY DEF NewConnection, UserGoes
<1>4. sock[k] = "new" /\ sem[k] = 0
  BY <1>2 DEF MapInv, FreshInv
<1>5. \A h \in Handles : sockets[h] # k /\ semaphores[h] # k
                         /\ (sockets[h] # 0 => semaphores[h] # 0)
  BY <1>1, <1>2, Numbers DEF MapInv, OwnInv, Of, UserTypes
<1>6. sock'[k] = "open" /\ \A j \in Conns \ {k} : sock'[j] = sock[j]
  BY <1>1, <1>3 DEF SockTypes
<1>7. \A h \in Handles : {sockets[h], semaphores[h]} \subseteq Conns \union {0}
  BY <1>1 DEF MapTypes
<1>8. ASSUME NEW h \in Handles
      PROVE  /\ semaphores'[h] # 0 =>
                  sockets'[h] = semaphores'[h] \/ sock'[semaphores'[h]] \in Shutted
             /\ sockets'[h] # 0 => sock'[sockets'[h]] \in {"open", "shut"}
  <2>1. /\ semaphores[h] # 0 => sockets[h] = semaphores[h] \/ sock'[semaphores[h]] \in Shutted
        /\ sockets[h] # 0 => sock'[sockets[h]] \in {"open", "shut"}
    BY <1>3, <1>5, <1>6, <1>7 DEF LifeInv
  <2>2. CASE h # lastHandle
    <3>1. sockets'[h] = sockets[h] /\ semaphores'[h] = semaphores[h]
      BY <1>1, <1>3, <2>2 DEF Insert, MapTypes
    <3> QED
      BY <2>1, <3>1
  <2>3. CASE h = lastHandle
    <3>1. /\ sockets'[h] = IF sockets[h] = 0 THEN k ELSE sockets[h]
          /\ semaphores'[h] = IF semaphores[h] = 0 THEN k ELSE semaphores[h]
      BY <1>1, <1>2, <1>3, <2>3 DEF Insert, MapTypes
    <3>2. CASE sockets[h] # 0
      BY <1>5, <2>1, <3>1, <3>2
    <3>3. CASE sockets[h] = 0 /\ semaphores[h] = 0
      BY <1>6, <3>1, <3>3
    <3>4. CASE sockets[h] = 0 /\ semaphores[h] # 0
      BY <1>6, <2>1, <3>1, <3>4
    <3> QED
      BY <3>2, <3>3, <3>4
  <2> QED
    BY <2>2, <2>3
<1>9. \A j \in Conns : sem'[j] = 1 => sock'[j] \in Shutted
  BY <1>3, <1>4, <1>6 DEF LifeInv
<1>10. OneWay
  BY <1>4, <1>6 DEF OneWay
<1> QED
  BY <1>3, <1>8, <1>9, <1>10 DEF LifeInv

(* Sockets of the map are shut. *)
LEMMA ShutLife ==
  ASSUME TypeInv, MapInv, LifeInv, Shuts, upc \notin {"remove", "aborted"},
         \A h \in Handles : \/ sockets'[h] = sockets[h]
                            \/ sockets'[h] = 0 /\ (sockets[h] # 0 => sock'[sockets[h]] = "shut"),
         semaphores' = semaphores,
         \/ upc' = "idle"
         \/ upc' = "close" /\ sockets'[arg'] # 0 /\ sock'[sockets'[arg']] = "shut"
  PROVE  LifeInv' /\ OneWay
<1>1. MapTypes /\ SockTypes
  BY TypeParts DEF TypeInv
<1>2. \A k \in Conns : sock'[k] = sock[k] \/ (sock'[k] = "shut" /\ sock[k] \in {"open", "shut"})
  BY Numbers DEF Shuts, LifeInv
<1>3. OneWay
  BY <1>2 DEF OneWay
<1>4. \A k \in Conns : sem'[k] = 1 => sock'[k] \in Shutted
  BY <1>2 DEF Shuts, LifeInv, Shutted
<1>5. \A h \in Handles : {sockets[h], semaphores[h]} \subseteq Conns \union {0}
  BY <1>1 DEF MapTypes
<1>6. ASSUME NEW h \in Handles, semaphores'[h] # 0
      PROVE  sockets'[h] = semaphores'[h] \/ sock'[semaphores'[h]] \in Shutted
  <2>1. CASE sockets[h] = semaphores[h]
    BY <1>6, <2>1 DEF Shutted
  <2>2. CASE sock[semaphores[h]] \in Shutted
    BY <1>2, <1>5, <1>6, <2>2 DEF Shutted
  <2> QED
    BY <1>6, <2>1, <2>2 DEF LifeInv
<1>7. ASSUME NEW h \in Handles, sockets'[h] # 0 PROVE sock'[sockets'[h]] \in {"open", "shut"}
  BY <1>2, <1>5, <1>7 DEF LifeInv
<1> QED
  BY <1>3, <1>4, <1>6, <1>7 DEF LifeInv

(* disconnect closes the socket that it has shut, and sets a semaphore: its *)
(* own, or that of a socket that was shut before.                           *)
LEMMA CloseLife ==
  ASSUME TypeInv, MapInv, LifeInv, CloseAndSet
  PROVE  LifeInv' /\ OneWay
<1>1. MapTypes /\ SockTypes /\ UserTypes
  BY TypeParts DEF TypeInv
<1>2. PICK k \in Conns, i \in Conns : k = sockets[arg] /\ i = semaphores[arg]
  BY <1>1 DEF CloseAndSet, UserGoes, LifeInv, MapInv, OwnInv, MapTypes, UserTypes
<1>3. /\ sock' = [sock EXCEPT ![k] = "closed"]
      /\ sem' = [sem EXCEPT ![i] = 1]
      /\ sockets' = sockets /\ semaphores' = semaphores /\ arg' = arg /\ arg \in Handles
      /\ upc = "close" /\ upc' = "remove"
  BY <1>1, <1>2 DEF CloseAndSet, UserGoes, mapVars, UserTypes
<1>4. sock[k] = "shut" /\ (i = k \/ sock[i] \in Shutted)
  BY <1>2, <1>3, Numbers DEF LifeInv
<1>5. sock'[k] = "closed" /\ \A j \in Conns \ {k} : sock'[j] = sock[j]
  BY <1>1, <1>3 DEF SockTypes
<1>6. \A j \in Conns : sock[j] \in Shutted => sock'[j] \in Shutted
  BY <1>5 DEF Shutted
<1>7. \A j \in Conns : sem'[j] = 1 => sock'[j] \in Shutted
  BY <1>1, <1>3, <1>4, <1>5, <1>6 DEF SockTypes, LifeInv, Shutted
<1>8. \A h \in Handles : {sockets[h], semaphores[h]} \subseteq Conns \union {0}
  BY <1>1 DEF MapTypes
<1>9. ASSUME NEW h \in Handles, h # arg, sockets[h] # 0
      PROVE  sock'[sockets[h]] \in {"open", "shut"}
  <2>1. sockets[h] # k
    BY <1>2, <1>3, <1>8, <1>9, Numbers DEF MapInv, OwnInv, Of
  <2> QED
    BY <1>3, <1>5, <1>8, <1>9, <2>1 DEF LifeInv
<1>10. OneWay
  BY <1>4, <1>5 DEF OneWay
<1>11. k # 0
  BY Numbers
<1> QED
  BY <1>2, <1>3, <1>6, <1>7, <1>8, <1>9, <1>10, <1>11 DEF LifeInv

(* A listener deletes a socket whose semaphore was set, so one that was     *)
(* shut, and that disconnect is about to take from the map if it has it.    *)
LEMMA CleanLife ==
  ASSUME TypeInv, MapInv, LifeInv, NEW k \in Conns, CleanUp(k)
  PROVE  LifeInv' /\ OneWay
<1>1. MapTypes /\ SockTypes /\ UserTypes /\ ListenTypes /\ StartInv
  BY TypeParts DEF TypeInv
<1>2. PICK o \in Conns : o = Own(k)
  BY <1>1, OwnSocket DEF CleanUp, ListenerGoes
<1>3. /\ sem[o] = 1 /\ sem' = [sem EXCEPT ![o] = 0]
      /\ sock' = [sock EXCEPT ![o] = "deleted"]
      /\ sockets' = sockets /\ semaphores' = semaphores /\ arg' = arg /\ upc' = upc
  BY <1>2 DEF CleanUp, ListenerGoes, mapVars, userVars
<1>4. sock[o] \in Shutted
  BY <1>3 DEF LifeInv
<1>5. sock'[o] = "deleted" /\ \A j \in Conns \ {o} : sock'[j] = sock[j]
  BY <1>1, <1>3 DEF SockTypes
<1>6. OneWay
  BY <1>4, <1>5 DEF OneWay, Shutted
<1>7. \A j \in Conns : sem'[j] = 1 => sem[j] = 1
  BY <1>1, <1>3 DEF SockTypes
<1>8. \A j \in Conns : sock[j] \in Shutted => sock'[j] \in Shutted
  BY <1>5 DEF Shutted
<1>9. \A h \in Handles : {sockets[h], semaphores[h]} \subseteq Conns \union {0}
  BY <1>1 DEF MapTypes
<1>10. ASSUME NEW h \in Handles, sockets[h] = o
       PROVE  upc = "aborted" \/ (upc = "remove" /\ arg = h)
  <2>1. lhandle[o] = h
    BY <1>10, Numbers DEF MapInv, OwnInv, Of
  <2> QED
    BY <1>3, <1>10, <2>1 DEF MapInv, GoneInv
<1>11. arg \in Handles
  BY <1>1 DEF UserTypes
<1>12. ASSUME NEW h \in Handles, sockets[h] # 0
       PROVE  \/ sock'[sockets[h]] = sock[sockets[h]]
              \/ upc = "aborted" \/ (upc = "remove" /\ arg = h)
  BY <1>5, <1>9, <1>10, <1>12
<1> QED
  BY <1>3, <1>6, <1>7, <1>8, <1>9, <1>11, <1>12 DEF LifeInv

(* The maps forget a handle. *)
LEMMA RemoveLife ==
  ASSUME TypeInv, LifeInv, Remove
  PROVE  LifeInv' /\ OneWay
<1>1. MapTypes /\ UserTypes
  BY TypeParts DEF TypeInv
<1>2. /\ UNCHANGED <<sock, sem, arg>> /\ arg \in Handles
      /\ upc = "remove" /\ upc' = "idle"
      /\ sockets' = [sockets EXCEPT ![arg] = 0]
      /\ semaphores' = [semaphores EXCEPT ![arg] = 0]
  BY <1>1 DEF Remove, UserGoes, UserTypes
<1>3. /\ sockets'[arg] = 0 /\ semaphores'[arg] = 0
      /\ \A h \in Handles \ {arg} : sockets'[h] = sockets[h] /\ semaphores'[h] = semaphores[h]
  BY <1>1, <1>2 DEF MapTypes
<1> QED
  BY <1>2, <1>3 DEF LifeInv, OneWay

(* Every step keeps LifeInv and takes sockets one way. *)
LEMMA LifeStep == ASSUME TypeInv, MapInv, LifeInv, [Next]_vars PROVE LifeInv' /\ OneWay
<1>1. MapTypes /\ SockTypes /\ UserTypes
  BY TypeParts DEF TypeInv
<1>2. \A h \in Handles : sockets[h] \in Conns \union {0}
  BY <1>1 DEF MapTypes
<1>3. CASE Shut
  <2>1. PICK k \in Conns : k = sockets[arg]
    BY <1>1, <1>2, <1>3 DEF Shut, UserGoes, LifeInv, UserTypes
  <2>2. /\ sock' = [sock EXCEPT ![k] = "shut"] /\ sem' = sem
        /\ sockets' = sockets /\ semaphores' = semaphores
        /\ upc = "shut" /\ upc' = "close" /\ arg' = arg /\ arg \in Handles
    BY <1>1, <1>3, <2>1 DEF Shut, UserGoes, mapVars, UserTypes
  <2>3. Shuts
    BY <1>1, <2>1, <2>2 DEF Shuts, SockTypes
  <2>4. sockets'[arg'] # 0 /\ sock'[sockets'[arg']] = "shut"
    BY <1>1, <2>1, <2>2, Numbers DEF SockTypes
  <2> QED
    BY <2>2, <2>3, <2>4, ShutLife
<1>4. CASE Shutdown
  <2>1. /\ sock' = [k \in Conns |-> IF k \in {sockets[h] : h \in Mapped} THEN "shut" ELSE sock[k]]
        /\ sockets' = [h \in Handles |-> 0] /\ sem' = sem /\ semaphores' = semaphores
        /\ upc = "idle" /\ upc' = upc
    BY <1>4 DEF Shutdown, userVars
  <2>2. Shuts
    BY <1>1, <2>1 DEF Shuts, SockTypes, Mapped
  <2>3. \A h \in Handles : sockets'[h] = 0 /\ (sockets[h] # 0 => sock'[sockets[h]] = "shut")
    BY <1>2, <2>1 DEF Mapped
  <2> QED
    BY <2>1, <2>2, <2>3, ShutLife
<1>5. ASSUME NEW h \in Handles, ShutdownThrows(h) PROVE LifeInv' /\ OneWay
  <2>1. PICK S : S = (Mapped \intersect 0 .. h) \ {h}
    OBVIOUS
  <2>2. /\ sock' = [k \in Conns |-> IF k \in {sockets[i] : i \in S} THEN "shut" ELSE sock[k]]
        /\ sockets' = sockets /\ sem' = sem /\ semaphores' = semaphores
        /\ upc = "idle" /\ upc' = upc
    BY <1>5, <2>1 DEF ShutdownThrows, userVars
  <2>3. S \subseteq Handles
    BY <2>1 DEF Mapped
  <2>4. Shuts
    BY <1>1, <2>2, <2>3 DEF Shuts, SockTypes
  <2> QED
    BY <2>2, <2>4, ShutLife
<1> QED
  BY <1>3, <1>4, <1>5, NewLife, CloseLife, CleanLife, RemoveLife, QuietLife
     DEF Next, DisconnectStep, ListenerStep, Quiet, Poll

(* A socket is opened once, shut before it is closed or deleted, and not    *)
(* touched again, for any number of connects, whichever thread is done with *)
(* it and whichever semaphore is set.                                       *)
THEOREM SocketsOneWay == Spec => SocketsGoOneWay
<1>1. Init => LifeInv
  BY DEF Init, LifeInv
<1>2. IndInv /\ LifeInv /\ [Next]_vars => LifeInv' /\ OneWay
  BY LifeStep DEF IndInv
<1>3. OneWay => [\A k \in Conns : sock'[k] # sock[k] =>
        <<sock[k], sock'[k]>> \in {<<"new", "open">>, <<"open", "shut">>, <<"shut", "closed">>,
                                  <<"shut", "deleted">>, <<"closed", "deleted">>}]_vars
  BY DEF OneWay
<1> QED
  BY <1>1, <1>2, <1>3, Invariance, PTL DEF Spec, SocketsGoOneWay

-----------------------------------------------------------------------------
(* The ping timer and the sessions. *)

(* The user has left the mutex locked.                                      *)
Held == lock = "user" /\ leaked

(* A socket in the map that is not open is kept from other threads: by      *)
(* disconnect, on its way from shutting it to removing it, or for ever.     *)
OpenInv ==
  \A h \in Handles :
    sockets[h] # 0 =>
      \/ sock[sockets[h]] = "open" \/ upc = "aborted" \/ Held
      \/ lock = "user" /\ upc \in {"close", "remove"} /\ arg = h

(* The CONNECT was sent on the socket of handle h.                          *)
Greeted(h) == sockets[h] # 0 => remote[sockets[h]] # "open"

(* Where the timer does not run: from stop to the end of disconnect.        *)
Stopped == {"disconnect", "shut", "close", "remove", "aborted"}

(* The timer runs for a handle that connect has given out, while no         *)
(* disconnect is under way.                                                 *)
PingInv ==
  /\ timer \in {"on", "calling"} =>
       upc \notin Stopped /\ pingHandle < lastHandle /\ Greeted(pingHandle)
  /\ upc \in {"arm", "enter", "wait"} => Greeted(NewHandle)

(* What the quiet steps do to the mutex and to the application thread.      *)
QuietStep ==
  /\ UNCHANGED <<sockets, sock>>
  /\ Held => Held'
  /\ lock = "user" /\ upc \in {"close", "remove"} => lock' = "user"
  /\ \/ UNCHANGED <<upc, arg>> \/ upc' = "aborted"
     \/ upc \notin {"close", "remove", "aborted"}

(* What a step does to the timer, and on the way through connect.           *)
TimerStep ==
  /\ timer' \in {"on", "calling"} =>
       \/ Connected
       \/ /\ timer \in {"on", "calling"} /\ pingHandle' = pingHandle
          /\ upc' \in Stopped => upc \in Stopped
  /\ upc' \in {"arm", "enter", "wait"} =>
       \/ ConnectSent
       \/ upc \in {"arm", "enter", "wait"} /\ UNCHANGED <<sockets, lastHandle>>

(* Quiet steps of the application thread.                                   *)
LEMMA QuietCalls ==
  ASSUME TypeInv,
         \/ ConnectStep
         \/ \E h \in Handles : SendFails(h) \/ Disconnect(h)
         \/ TimerStopped \/ UnknownHandle \/ DisconnectSent \/ ShutThrows
  PROVE  QuietStep /\ TimerStep
<1> USE DEF QuietStep, TimerStep, Held, Stopped, UserGoes, CanLock, Unlocked, Leaked,
            mapVars, lockVars, userVars, timerVars
<1>1. CASE ReadyTimeout \/ ListenerReady \/ ConnectSent \/ ConnectNotSent
  BY <1>1 DEF ReadyTimeout, ListenerReady, ConnectSent, ConnectNotSent
<1>2. CASE ArmConn \/ EnterWait \/ ConnectTimeout
  BY <1>2 DEF ArmConn, EnterWait, ConnectTimeout
<1>3. CASE Connected
  BY <1>3 DEF Connected
<1>4. CASE ConnectedTwice
  BY <1>4 DEF ConnectedTwice, Abort
<1>5. CASE \E h \in Handles : SendFails(h) \/ Disconnect(h)
  BY <1>5 DEF SendFails, Disconnect
<1>6. CASE TimerStopped \/ UnknownHandle \/ ShutThrows
  BY <1>6 DEF TimerStopped, UnknownHandle, ShutThrows
<1>7. CASE DisconnectSent
  BY <1>7 DEF DisconnectSent
<1> QED
  BY <1>1, <1>2, <1>3, <1>4, <1>5, <1>6, <1>7 DEF ConnectStep

(* Quiet steps of the others.                                               *)
LEMMA QuietOthers ==
  ASSUME TypeInv,
         \/ \E k \in Conns : Poll(k) \/ Accept(k) \/ Serve(k) \/ HangUp(k)
         \/ TimerFires \/ PingEnds \/ PingFails
         \/ \E w \in Workers : WorkerStep(w)
         \/ UNCHANGED vars
  PROVE  QuietStep /\ TimerStep
<1> USE DEF QuietStep, TimerStep, Held, Stopped, CanLock, Leaked, mapVars, lockVars,
            userVars, timerVars
<1>1. ASSUME NEW k \in Conns, Poll(k) PROVE QuietStep /\ TimerStep
  BY <1>1 DEF Poll, Receive, PollTimeout, TurnEnds, SeeClosed, SeeStop, PollThrows,
              ReceiveThrows, ParseThrows, WaitOnNull, Abort, ListenerGoes
<1>2. ASSUME NEW k \in Conns, Accept(k) \/ Serve(k) \/ HangUp(k) PROVE QuietStep /\ TimerStep
  BY <1>2 DEF Accept, Serve, HangUp, BrokerGoes
<1>3. CASE TimerFires \/ PingEnds \/ PingFails
  BY <1>3 DEF TimerFires, PingEnds, PingFails
<1>4. ASSUME NEW w \in Workers, WorkerStep(w) PROVE QuietStep /\ TimerStep
  BY <1>4 DEF WorkerStep, Deliver, HandleConnack, CheckConn, WriteConn, WriteToNull,
              SignalConn, WorkerGoes, Abort
<1>5. CASE UNCHANGED vars
  BY <1>5 DEF vars
<1> QED
  BY <1>1, <1>2, <1>3, <1>4, <1>5

(* The steps that are not quiet are those that write the maps or sockets.   *)
LEMMA LoudOrQuiet ==
  ASSUME [Next]_vars
  PROVE  \/ \E k \in Conns : NewConnection(k) \/ CleanUp(k)
         \/ Shut \/ CloseAndSet \/ Remove \/ Shutdown
         \/ \E h \in Handles : ShutdownThrows(h)
         \/ Quiet
BY DEF Next, DisconnectStep, ListenerStep, Quiet, Poll

(* What any step does to the timer.                                         *)
LEMMA AnyTimer == ASSUME TypeInv, [Next]_vars PROVE TimerStep
<1> USE DEF TimerStep, Stopped, UserGoes, userVars, timerVars
<1>1. ASSUME NEW k \in Conns, NewConnection(k) PROVE TimerStep
  BY <1>1 DEF NewConnection
<1>2. ASSUME NEW k \in Conns, CleanUp(k) PROVE TimerStep
  BY <1>2 DEF CleanUp, ListenerGoes, mapVars
<1>3. CASE Shut \/ CloseAndSet \/ Remove
  BY <1>3 DEF Shut, CloseAndSet, Remove
<1>4. CASE Shutdown \/ \E h \in Handles : ShutdownThrows(h)
  BY <1>4 DEF Shutdown, ShutdownThrows
<1>5. CASE Quiet
  BY <1>5, QuietCalls, QuietOthers, Zenon DEF Quiet
<1> QED
  BY <1>1, <1>2, <1>3, <1>4, <1>5, LoudOrQuiet

(* What is in the map and not open stays behind the mutex.                  *)
LEMMA OpenStep == ASSUME TypeInv, MapInv, LifeInv, OpenInv, [Next]_vars PROVE OpenInv'
<1>1. MapTypes /\ SockTypes /\ UserTypes /\ ListenTypes /\ StartInv
  BY TypeParts DEF TypeInv
<1>2. \A h \in Handles : sockets[h] \in Conns \union {0}
  BY <1>1 DEF MapTypes
<1>3. \A h, i \in Handles : sockets[h] # 0 /\ sockets[h] = sockets[i] => h = i
  BY DEF MapInv, OwnInv, Of
<1>4. ASSUME NEW k \in Conns, NewConnection(k) PROVE OpenInv'
  <2>1. /\ upc = "idle" /\ lock' = "user" /\ leaked' = leaked
        /\ sock' = [sock EXCEPT ![k] = "open"]
        /\ sockets' = Insert(sockets, lastHandle, k)
    BY <1>4 DEF NewConnection, UserGoes
  <2>2. sock'[k] = "open" /\ \A j \in Conns \ {k} : sock'[j] = sock[j]
    BY <1>1, <2>1 DEF SockTypes
  <2>3. \A h \in Handles : sockets'[h] \in {sockets[h], k}
    BY <1>1, <2>1 DEF Insert, MapTypes
  <2> QED
    BY <1>2, <2>1, <2>2, <2>3 DEF OpenInv, Held
<1>5. ASSUME NEW k \in Conns, CleanUp(k) PROVE OpenInv'
  <2>1. PICK o \in Conns : o = Own(k)
    BY <1>1, <1>5, OwnSocket DEF CleanUp, ListenerGoes
  <2>2. /\ sem[o] = 1 /\ sock' = [sock EXCEPT ![o] = "deleted"]
        /\ UNCHANGED <<sockets, upc, arg, lock, leaked>>
    BY <1>5, <2>1 DEF CleanUp, ListenerGoes, mapVars, userVars, lockVars
  <2>3. \A j \in Conns : sock'[j] = sock[j] \/ (j = o /\ sock[j] # "open")
    BY <1>1, <2>2 DEF SockTypes, LifeInv, Shutted
  <2> QED
    BY <1>2, <2>2, <2>3 DEF OpenInv, Held
<1>6. CASE Shut
  <2>1. /\ lock' = "user" /\ leaked' = leaked /\ sockets' = sockets /\ arg' = arg
        /\ upc = "shut" /\ upc' = "close"
        /\ sock' = [sock EXCEPT ![sockets[arg]] = "shut"]
    BY <1>6 DEF Shut, UserGoes, mapVars
  <2>2. \A h \in Handles : h # arg /\ sockets[h] # 0 => sock'[sockets[h]] = sock[sockets[h]]
    BY <1>1, <1>2, <1>3, <2>1 DEF SockTypes, UserTypes
  <2> QED
    BY <2>1, <2>2 DEF OpenInv, Held
<1>7. CASE CloseAndSet
  <2>1. /\ UNCHANGED <<lock, leaked, sockets, arg>>
        /\ upc = "close" /\ upc' = "remove"
        /\ sock' = [sock EXCEPT ![sockets[arg]] = "closed"]
    BY <1>7 DEF CloseAndSet, UserGoes, mapVars, lockVars
  <2>2. \A h \in Handles : h # arg /\ sockets[h] # 0 => sock'[sockets[h]] = sock[sockets[h]]
    BY <1>1, <1>2, <1>3, <2>1 DEF SockTypes, UserTypes
  <2>3. sock[sockets[arg]] = "shut" /\ sockets[arg] # 0 /\ arg \in Handles
    BY <1>1, <2>1 DEF LifeInv, UserTypes
  <2> QED
    BY <2>1, <2>2, <2>3 DEF OpenInv, Held
<1>8. CASE Remove
  <2>1. /\ sock' = sock /\ arg' = arg /\ upc = "remove"
        /\ leaked' = leaked /\ (leaked => lock' = lock)
        /\ sockets' = [sockets EXCEPT ![arg] = 0]
    BY <1>8 DEF Remove, UserGoes, Unlocked
  <2>2. sockets'[arg] = 0 /\ \A h \in Handles \ {arg} : sockets'[h] = sockets[h]
    BY <1>1, <2>1 DEF MapTypes, UserTypes
  <2> QED
    BY <2>1, <2>2 DEF OpenInv, Held
<1>9. CASE Shutdown
  <2>1. \A h \in Handles : sockets'[h] = 0
    BY <1>9 DEF Shutdown
  <2> QED
    BY <2>1 DEF OpenInv
<1>10. CASE \E h \in Handles : ShutdownThrows(h)
  BY <1>10 DEF ShutdownThrows, Leaked, OpenInv, Held
<1>11. CASE Quiet
  <2>1. QuietStep
    BY <1>11, QuietCalls, QuietOthers, Zenon DEF Quiet
  <2> QED
    BY <2>1 DEF QuietStep, OpenInv, Held
<1> QED
  BY <1>4, <1>5, <1>6, <1>7, <1>8, <1>9, <1>10, <1>11, LoudOrQuiet

(* The broker's end is open and not greeted on a new connection only.       *)
LEMMA OpenIsNew ==
  ASSUME TypeInv, Steps, NEW s \in Conns, remote'[s] = "open", remote[s] # "open"
  PROVE  NewConnection(s)
<1>1. remote \in [Conns -> {"none", "open", "greeted", "accepted", "served", "closed"}]
  BY DEF TypeInv, TypeOK
<1>2. ASSUME NEW k \in Conns, NewConnection(k) PROVE NewConnection(s)
  <2>1. remote' = [remote EXCEPT ![k] = "open"]
    BY <1>2 DEF NewConnection
  <2> QED
    BY <1>1, <1>2, <2>1
<1>3. ASSUME NEW k \in Conns, Receive(k) \/ ReceiveThrows(k) \/ ParseThrows(k) PROVE FALSE
  BY <1>3 DEF Receive, ReceiveThrows, ParseThrows, ListenerGoes
<1>4. ASSUME NEW k \in Conns, Accept(k) \/ Serve(k) \/ HangUp(k) PROVE FALSE
  BY <1>1, <1>4 DEF Accept, Serve, HangUp, BrokerGoes
<1>5. CASE ConnectSent
  BY <1>1, <1>5 DEF ConnectSent
<1>6. CASE UNCHANGED brokerVars
  BY <1>6 DEF brokerVars
<1> QED
  BY <1>2, <1>3, <1>4, <1>5, <1>6 DEF Steps, LinkStep

(* What was greeted stays greeted, unless the handle is given out anew.     *)
LEMMA GreetedStays ==
  ASSUME TypeInv, MapInv, Steps, NEW h \in Handles, h # lastHandle, Greeted(h)
  PROVE  Greeted(h)'
<1>1. sockets'[h] \in {sockets[h], 0}
  BY MapsAfter DEF After
<1>2. sockets[h] \in Conns \union {0}
  BY TypeParts DEF TypeInv, MapTypes
<1>3. CASE sockets'[h] # 0
  <2>1. PICK s \in Conns : s = sockets[h] /\ s = sockets'[h]
    BY <1>1, <1>2, <1>3
  <2>2. s <= cur /\ remote[s] # "open"
    BY <1>3, <2>1 DEF MapInv, OwnInv, Of, Greeted
  <2>3. ~NewConnection(s)
    BY <2>2, HandleOfNew, TypeParts, Numbers DEF TypeInv, UserTypes
  <2>4. remote'[s] # "open"
    BY <2>2, <2>3, OpenIsNew
  <2> QED
    BY <2>1, <2>4 DEF Greeted
<1> QED
  BY <1>3 DEF Greeted

(* The timer runs for a session.                                            *)
LEMMA PingStep == ASSUME TypeInv, MapInv, PingInv, [Next]_vars PROVE PingInv'
<1>1. Steps /\ TimerStep
  BY TypeStep, AnyTimer
<1>2. MapTypes /\ UserTypes /\ CountInv /\ RestTypes /\ LinkTypes
  BY TypeParts DEF TypeInv
<1>3. lastHandle \in Nat /\ lastHandle' \in {lastHandle, lastHandle + 1}
  BY <1>1, <1>2, Numbers
     DEF Steps, UserStep, NewConnection, ListenerReady, Remove, Moves, UserTypes
<1>4. ASSUME upc \in {"arm", "enter", "wait"}
      PROVE  NewHandle \in Handles /\ NewHandle # lastHandle /\ Greeted(NewHandle)
  BY <1>2, <1>3, <1>4, HandleOfNew DEF Waiting, PingInv
<1>5. ASSUME timer' \in {"on", "calling"}
      PROVE  upc' \notin Stopped /\ pingHandle' < lastHandle' /\ Greeted(pingHandle)'
  <2>1. CASE Connected
    <3>1. upc = "wait" /\ upc' = "idle" /\ pingHandle' = NewHandle
          /\ UNCHANGED <<sockets, remote, lastHandle>>
      BY <2>1 DEF Connected, UserGoes, mapVars, brokerVars
    <3>2. NewHandle = lastHandle - 1 /\ Greeted(NewHandle)
      BY <1>2, <1>4, <3>1, HandleOfNew DEF Waiting
    <3> QED
      BY <1>3, <3>1, <3>2 DEF Greeted, Stopped
  <2>2. CASE /\ timer \in {"on", "calling"} /\ pingHandle' = pingHandle
             /\ upc' \in Stopped => upc \in Stopped
    <3>1. upc \notin Stopped /\ pingHandle < lastHandle /\ Greeted(pingHandle)
      BY <2>2 DEF PingInv
    <3>2. pingHandle \in Handles /\ pingHandle # lastHandle /\ pingHandle < lastHandle'
      BY <1>2, <1>3, <3>1, Numbers DEF RestTypes
    <3>3. sockets'[pingHandle] # 0 => remote'[sockets'[pingHandle]] # "open"
      BY <1>1, <3>1, <3>2, GreetedStays DEF Greeted
    <3> QED
      BY <2>2, <3>1, <3>2, <3>3 DEF Greeted
  <2> QED
    BY <1>1, <1>5, <2>1, <2>2 DEF TimerStep
<1>6. ASSUME upc' \in {"arm", "enter", "wait"}
      PROVE  Greeted(NewHandle)'
  <2>1. CASE ConnectSent
    <3>1. UNCHANGED <<sockets, lastHandle>>
          /\ remote' = [remote EXCEPT ![NewSocket] = IF @ = "open" THEN "greeted" ELSE @]
          /\ upc = "connect"
      BY <2>1 DEF ConnectSent, UserGoes, mapVars
    <3>2. NewHandle \in Handles /\ NewHandle' = NewHandle /\ NewSocket \in Conns \union {0}
      BY <1>2, <3>1, HandleOfNew DEF Waiting, NewHandle, NewSocket, MapTypes
    <3>3. NewSocket # 0 => remote'[NewSocket] # "open"
      BY <1>2, <3>1, <3>2 DEF LinkTypes
    <3> QED
      BY <3>1, <3>2, <3>3 DEF Greeted, NewSocket
  <2>2. CASE upc \in {"arm", "enter", "wait"} /\ UNCHANGED <<sockets, lastHandle>>
    <3>1. sockets'[NewHandle] # 0 => remote'[sockets'[NewHandle]] # "open"
      BY <1>1, <1>4, <2>2, GreetedStays DEF Greeted
    <3>2. NewHandle' = NewHandle
      BY <2>2 DEF NewHandle
    <3> QED
      BY <3>1, <3>2 DEF Greeted
  <2> QED
    BY <1>1, <1>6, <2>1, <2>2 DEF TimerStep
<1> QED
  BY <1>5, <1>6 DEF PingInv

(* Whatever the application, the listeners and the broker do, a ping that   *)
(* gets the mutex finds no socket, or one with a session that CONNECT has   *)
(* opened and nobody has ended, for any number of connects.                 *)
THEOREM PingsAreInSession == Spec => []PingsInSession
<1>1. Init => LifeInv /\ OpenInv /\ PingInv
  BY DEF Init, LifeInv, OpenInv, PingInv
<1>2. IndInv /\ LifeInv /\ OpenInv /\ PingInv /\ [Next]_vars
        => LifeInv' /\ OpenInv' /\ PingInv'
  BY LifeStep, OpenStep, PingStep DEF IndInv
<1>3. ASSUME IndInv, OpenInv, PingInv PROVE PingsInSession
  <2> SUFFICES ASSUME timer = "calling", CanLock("timer"), sockets[pingHandle] # 0
               PROVE  /\ sock[sockets[pingHandle]] = "open"
                      /\ remote[sockets[pingHandle]] # "open"
                      /\ upc \in {"shut", "close", "remove"} => arg # pingHandle
    BY DEF PingsInSession
  <2>1. upc \notin Stopped /\ Greeted(pingHandle)
    BY <1>3 DEF PingInv
  <2>2. pingHandle \in Handles /\ lock # "user"
    BY <1>3 DEF IndInv, TypeInv, TypeOK, CanLock
  <2>3. sock[sockets[pingHandle]] = "open"
    BY <1>3, <2>1, <2>2 DEF OpenInv, Held, Stopped
  <2> QED
    BY <2>1, <2>3 DEF Greeted, Stopped
<1>4. IndInv /\ OpenInv /\ PingInv => PingsInSession
  BY <1>3
<1> QED
  BY <1>1, <1>2, <1>4, Invariance, PTL DEF Spec

=============================================================================
