-------------------------------- MODULE Client --------------------------------
(***************************************************************************)
(* The connections of one NmqttClient: NmqttClient (client.cpp), its       *)
(* listener threads (client_listener.cpp), their manager                   *)
(* (client_listener_manager.cpp), the registry that resolves handles       *)
(* (connections.cpp), and the handlers that Dispatcher workers call for    *)
(* what arrives (request.cpp).                                             *)
(*                                                                         *)
(* One application thread calls connect, disconnect, shutdown and the      *)
(* senders, one after the other.  The k-th connect creates the socket k,   *)
(* the semaphore k and the listener thread k, for the handle that          *)
(* lastHandle has then.  Absent map entries and null pointers are 0.       *)
(*                                                                         *)
(* What runs under socketsMutex from lock to unlock is one step unless     *)
(* another thread can see the middle of it.  The mutex is recursive, and   *)
(* the error paths of sendMessage and connect leave it locked: leaked says *)
(* that its holder will never release it.  The dispatcher is the pool of   *)
(* RequestPool, and the ping timer is PingTimer, whose phase is timer; how  *)
(* both work is the subject of Dispatcher and ChronoTrigger.                *)
(***************************************************************************)
EXTENDS Naturals, Sequences

CONSTANTS MaxConnects,  \* bound on the calls of connect
          Workers,      \* the workers of the Dispatcher
          Publishing    \* the connections on which the broker may publish

Conns   == 1 .. MaxConnects
Handles == 0 .. MaxConnects - 1

ASSUME ClientAssumption == MaxConnects \in Nat \ {0} /\ Publishing \subseteq Conns

VARIABLES
  sockets,      \* NmqttClient::sockets, handle to socket
  semaphores,   \* NmqttClient::socketSemaphores, handle to semaphore
  lastHandle,   \* NmqttClient::lastHandle
  lock,         \* who holds socketsMutex
  leaked,       \* ... and will never release it
  brokerConn,   \* NmqttClient::brokerConn: the conn of the k-th connect
  registry,     \* NmqttConnections::sockets, handle to socket and semaphore
  listeners,    \* NmqttClientListenerManager::listeners, handle to listener
  sock,         \* sock[k]: the state of socket k
  sem,          \* sem[k]: the count of semaphore k
  lpc,          \* lpc[k]: where listener k is in run
  listen,       \* listen[k]: NmqttClientListener::listen
  ready,        \* ready[k]: listener k has signalled readyCond
  lhandle,      \* lhandle[k]: the handle listener k was created with
  upc,          \* where the application thread is
  cur,          \* the connect it executes, or executed last
  arg,          \* the handle it disconnects
  acked,        \* connectCnd was signalled, for the CONNACK on this socket
  pending,      \* requests given to the Dispatcher
  executing,    \* executing[w]: the CONNACK request worker w handles
  hpc,          \* hpc[w]: where worker w is in connackHandler
  handled,      \* sockets whose CONNACK was handled
  timer,        \* the ping timer: "none" (not joinable), "on" or "calling"
  pingHandle,   \* the handle it pings
  remote,       \* remote[k]: the broker's end of socket k
  inbox         \* inbox[k]: packets from the broker that were not read

mapVars      == <<sockets, semaphores, lastHandle, registry, listeners>>
lockVars     == <<lock, leaked>>
listenerVars == <<lpc, listen, ready, lhandle>>
userVars     == <<upc, cur, arg>>
workerVars   == <<pending, executing, hpc, handled>>
timerVars    == <<timer, pingHandle>>
brokerVars   == <<remote, inbox>>
vars == <<mapVars, lockVars, brokerConn, sock, sem, listenerVars, userVars, acked,
          workerVars, timerVars, brokerVars>>

Requests == [cmd : {"CONNACK", "PUBLISH"}, handle : Handles, from : Conns]
NoRequest == [cmd |-> "none", handle |-> 0, from |-> 0]

(* The type of every variable. *)
TypeOK ==
  /\ sockets \in [Handles -> Conns \union {0}]
  /\ semaphores \in [Handles -> Conns \union {0}]
  /\ lastHandle \in 0 .. MaxConnects
  /\ lock \in {"none", "user", "timer"}
  /\ leaked \in BOOLEAN
  /\ brokerConn \in Conns \union {0}
  /\ registry \in [Handles -> Conns \union {0}]
  /\ listeners \in [Handles -> Conns \union {0}]
  /\ sock \in [Conns -> {"new", "open", "shut", "closed", "deleted"}]
  /\ sem \in [Conns -> {0, 1}]
  /\ lpc \in [Conns -> {"none", "poll", "init", "semwait", "gone", "thrown", "aborted"}]
  /\ listen \in [Conns -> BOOLEAN]
  /\ ready \in [Conns -> BOOLEAN]
  /\ lhandle \in [Conns -> Handles]
  /\ upc \in {"idle", "ready", "connect", "arm", "enter", "wait",
              "stop", "disconnect", "shut", "close", "remove", "aborted"}
  /\ cur \in 0 .. MaxConnects
  /\ arg \in Handles
  /\ acked \in 0 .. MaxConnects
  /\ pending \subseteq Requests
  /\ executing \in [Workers -> Requests \union {NoRequest}]
  /\ hpc \in [Workers -> {"idle", "check", "write", "signal", "aborted"}]
  /\ handled \subseteq Conns
  /\ timer \in {"none", "on", "calling", "aborted"}
  /\ pingHandle \in Handles
  /\ remote \in [Conns -> {"none", "open", "greeted", "accepted", "served", "closed"}]
  /\ inbox \in [Conns -> Seq({"CONNACK", "PUBLISH"})]

Init ==
  /\ sockets = [h \in Handles |-> 0]
  /\ semaphores = [h \in Handles |-> 0]
  /\ lastHandle = 0
  /\ lock = "none" /\ leaked = FALSE
  /\ brokerConn = 0
  /\ registry = [h \in Handles |-> 0]
  /\ listeners = [h \in Handles |-> 0]
  /\ sock = [k \in Conns |-> "new"]
  /\ sem = [k \in Conns |-> 0]
  /\ lpc = [k \in Conns |-> "none"]
  /\ listen = [k \in Conns |-> TRUE]
  /\ ready = [k \in Conns |-> FALSE]
  /\ lhandle = [k \in Conns |-> 0]
  /\ upc = "idle" /\ cur = 0 /\ arg = 0
  /\ acked = 0
  /\ pending = {}
  /\ executing = [w \in Workers |-> NoRequest]
  /\ hpc = [w \in Workers |-> "idle"]
  /\ handled = {}
  /\ timer = "none" /\ pingHandle = 0
  /\ remote = [k \in Conns |-> "none"]
  /\ inbox = [k \in Conns |-> <<>>]

-----------------------------------------------------------------------------
(* std::map::insert leaves an entry that is there as it is. *)
Insert(map, h, k) == IF map[h] = 0 THEN [map EXCEPT ![h] = k] ELSE map

(* socketsMutex. *)
CanLock(t) == lock \in {"none", t}
Unlocked   == lock' = (IF leaked THEN lock ELSE "none") /\ UNCHANGED leaked
Leaked(t)  == lock' = t /\ leaked' = TRUE

(* sendBytes on socket s: it may fail once the broker has closed its end,
   and always does after a shutdown of ours. *)
MaySend(s) == sock[s] = "open"
MayFail(s) == sock[s] # "open" \/ remote[s] = "closed"

(* The process ends: std::terminate, or a null pointer dereferenced. *)
Abort ==
  /\ upc' = "aborted"
  /\ lpc' = [k \in Conns |-> "aborted"]
  /\ hpc' = [w \in Workers |-> "aborted"]
  /\ timer' = "aborted"

UserGoes(from, to) == upc = from /\ upc' = to

-----------------------------------------------------------------------------
(* connect, by the application thread. *)

(* The TCP connection is there: the maps get their entries, the registry a
   copy, and addConnection starts the listener and waits for its signal. *)
NewConnection(k) ==
  /\ UserGoes("idle", "ready")
  /\ k = cur + 1
  /\ CanLock("user")
  /\ lock' = "user" /\ UNCHANGED leaked
  /\ cur' = k
  /\ sockets' = Insert(sockets, lastHandle, k)
  /\ semaphores' = Insert(semaphores, lastHandle, k)
  /\ registry' = Insert(registry, lastHandle, k)
  /\ sock' = [sock EXCEPT ![k] = "open"]
  /\ remote' = [remote EXCEPT ![k] = "open"]
  /\ lhandle' = [lhandle EXCEPT ![k] = lastHandle]
  /\ lpc' = [lpc EXCEPT ![k] = "poll"]
  /\ UNCHANGED <<lastHandle, listeners, brokerConn, sem, listen, ready, arg, acked,
                 workerVars, timerVars, inbox>>

(* addConnection returns false; so does connect, with the mutex locked. *)
ReadyTimeout ==
  /\ UserGoes("ready", "idle")
  /\ ~ready[cur]
  /\ Leaked("user")
  /\ UNCHANGED <<mapVars, brokerConn, sock, sem, listenerVars, cur, arg, acked,
                 workerVars, timerVars, brokerVars>>

(* Seeded fault: the next handle is counted down. *)
ListenerReadyDown ==
  /\ UserGoes("ready", "connect")
  /\ ready[cur]
  /\ listeners' = Insert(listeners, lastHandle, cur)
  /\ lastHandle' = lastHandle - 1
  /\ Unlocked
  /\ brokerConn' = 0
  /\ UNCHANGED <<sockets, semaphores, registry, sock, sem, listenerVars, cur, arg, acked,
                 workerVars, timerVars, brokerVars>>

(* addConnection registers the listener, and the handle is the caller's. *)
ListenerReady ==
  /\ UserGoes("ready", "connect")
  /\ ready[cur]
  /\ listeners' = Insert(listeners, lastHandle, cur)
  /\ lastHandle' = lastHandle + 1
  /\ Unlocked
  /\ brokerConn' = 0
  /\ UNCHANGED <<sockets, semaphores, registry, sock, sem, listenerVars, cur, arg, acked,
                 workerVars, timerVars, brokerVars>>

(* The handle that connect has just given out, and its socket. *)
NewHandle == lastHandle - 1
NewSocket == sockets[NewHandle]

ConnectSent ==
  /\ UserGoes("connect", "arm")
  /\ CanLock("user") /\ MaySend(NewSocket)
  /\ remote' = [remote EXCEPT ![NewSocket] = IF @ = "open" THEN "greeted" ELSE @]
  /\ UNCHANGED <<mapVars, lockVars, brokerConn, sock, sem, listenerVars, cur, arg, acked,
                 workerVars, timerVars, inbox>>

ConnectNotSent ==
  /\ UserGoes("connect", "idle")
  /\ CanLock("user") /\ MayFail(NewSocket)
  /\ Leaked("user")
  /\ UNCHANGED <<mapVars, brokerConn, sock, sem, listenerVars, cur, arg, acked,
                 workerVars, timerVars, brokerVars>>

(* The CONNACK handler may write to conn from here on... *)
ArmConn ==
  /\ UserGoes("arm", "enter")
  /\ brokerConn' = cur
  /\ UNCHANGED <<mapVars, lockVars, sock, sem, listenerVars, cur, arg, acked,
                 workerVars, timerVars, brokerVars>>

(* ... but its signal is felt only from here on. *)
EnterWait ==
  /\ UserGoes("enter", "wait")
  /\ acked' = 0
  /\ UNCHANGED <<mapVars, lockVars, brokerConn, sock, sem, listenerVars, cur, arg,
                 workerVars, timerVars, brokerVars>>

(* connect succeeds and starts the ping timer. *)
Connected ==
  /\ UserGoes("wait", "idle")
  /\ acked # 0
  /\ timer = "none"
  /\ timer' = "on" /\ pingHandle' = NewHandle
  /\ UNCHANGED <<mapVars, lockVars, brokerConn, sock, sem, listenerVars, cur, arg, acked,
                 workerVars, brokerVars>>

(* It is the second connection: starting the running timer ends the process. *)
ConnectedTwice ==
  /\ upc = "wait"
  /\ acked # 0
  /\ timer # "none"
  /\ Abort
  /\ UNCHANGED <<mapVars, lockVars, brokerConn, sock, sem, listen, ready, lhandle, cur, arg,
                 acked, pending, executing, handled, pingHandle, brokerVars>>

ConnectTimeout ==
  /\ UserGoes("wait", "idle")
  /\ acked = 0
  /\ brokerConn' = 0
  /\ UNCHANGED <<mapVars, lockVars, sock, sem, listenerVars, cur, arg, acked,
                 workerVars, timerVars, brokerVars>>

ConnectStep ==
  \/ ReadyTimeout \/ ListenerReady \/ ConnectSent \/ ConnectNotSent
  \/ ArmConn \/ EnterWait \/ Connected \/ ConnectedTwice \/ ConnectTimeout

-----------------------------------------------------------------------------
(* publish, subscribe, unsubscribe: sendMessage.  One that succeeds, or finds
   no socket, changes nothing here. *)
SendFails(h) ==
  /\ upc = "idle"
  /\ sockets[h] # 0
  /\ CanLock("user") /\ MayFail(sockets[h])
  /\ Leaked("user")
  /\ UNCHANGED <<mapVars, brokerConn, sock, sem, listenerVars, userVars, acked,
                 workerVars, timerVars, brokerVars>>

-----------------------------------------------------------------------------
(* disconnect, by the application thread. *)

(* Seeded fault: disconnect takes socketsMutex before it stops the timer. *)
DisconnectLocked(h) ==
  /\ UserGoes("idle", "stop")
  /\ timer # "none"
  /\ CanLock("user")
  /\ lock' = "user" /\ UNCHANGED leaked
  /\ arg' = h
  /\ UNCHANGED <<mapVars, brokerConn, sock, sem, listenerVars, cur, acked,
                 workerVars, timerVars, brokerVars>>

(* Seeded fault: disconnect lets the timer run. *)
DisconnectTimed(h) ==
  /\ UserGoes("idle", "disconnect")
  /\ timer # "none"
  /\ arg' = h
  /\ UNCHANGED <<mapVars, lockVars, brokerConn, sock, sem, listenerVars, cur, acked,
                 workerVars, timerVars, brokerVars>>

(* With no timer to join, stop throws and disconnect does nothing. *)
Disconnect(h) ==
  /\ UserGoes("idle", "stop")
  /\ timer # "none"
  /\ arg' = h
  /\ UNCHANGED <<mapVars, lockVars, brokerConn, sock, sem, listenerVars, cur, acked,
                 workerVars, timerVars, brokerVars>>

(* stop has joined the timer's thread: no ping is under way, nor comes again. *)
TimerStopped ==
  /\ UserGoes("stop", "disconnect")
  /\ timer = "on"
  /\ timer' = "none"
  /\ UNCHANGED <<mapVars, lockVars, brokerConn, sock, sem, listenerVars, cur, arg, acked,
                 workerVars, pingHandle, brokerVars>>

UnknownHandle ==
  /\ UserGoes("disconnect", "idle")
  /\ CanLock("user") /\ sockets[arg] = 0
  /\ UNCHANGED <<mapVars, lockVars, brokerConn, sock, sem, listenerVars, cur, arg, acked,
                 workerVars, timerVars, brokerVars>>

(* DISCONNECT is sent or not; disconnect goes on in either case. *)
DisconnectSent ==
  /\ UserGoes("disconnect", "shut")
  /\ CanLock("user") /\ sockets[arg] # 0
  /\ \/ MaySend(sockets[arg]) /\ UNCHANGED lockVars
     \/ MayFail(sockets[arg]) /\ Leaked("user")
  /\ UNCHANGED <<mapVars, brokerConn, sock, sem, listenerVars, cur, arg, acked,
                 workerVars, timerVars, brokerVars>>

(* Socket::shutdown throws on a connection that is no more, and disconnect
   with it, with the mutex locked. *)
ShutThrows ==
  /\ UserGoes("shut", "idle")
  /\ CanLock("user") /\ MayFail(sockets[arg])
  /\ Leaked("user")
  /\ UNCHANGED <<mapVars, brokerConn, sock, sem, listenerVars, cur, arg, acked,
                 workerVars, timerVars, brokerVars>>

Shut ==
  /\ UserGoes("shut", "close")
  /\ CanLock("user")
  /\ lock' = "user" /\ UNCHANGED leaked
  /\ sock' = [sock EXCEPT ![sockets[arg]] = "shut"]
  /\ UNCHANGED <<mapVars, brokerConn, sem, listenerVars, cur, arg, acked,
                 workerVars, timerVars, brokerVars>>

(* Seeded fault: disconnect deletes the socket that it closes. *)
CloseAndDelete ==
  /\ UserGoes("close", "remove")
  /\ sock' = [sock EXCEPT ![sockets[arg]] = "deleted"]
  /\ sem' = [sem EXCEPT ![semaphores[arg]] = 1]
  /\ UNCHANGED <<mapVars, lockVars, brokerConn, listenerVars, cur, arg, acked,
                 workerVars, timerVars, brokerVars>>

(* Seeded fault: nobody sets the semaphore. *)
CloseOnly ==
  /\ UserGoes("close", "remove")
  /\ sock' = [sock EXCEPT ![sockets[arg]] = "closed"]
  /\ UNCHANGED <<mapVars, lockVars, brokerConn, sem, listenerVars, cur, arg, acked,
                 workerVars, timerVars, brokerVars>>

(* The socket is closed and the semaphore set. *)
CloseAndSet ==
  /\ UserGoes("close", "remove")
  /\ sock' = [sock EXCEPT ![sockets[arg]] = "closed"]
  /\ sem' = [sem EXCEPT ![semaphores[arg]] = 1]
  /\ UNCHANGED <<mapVars, lockVars, brokerConn, listenerVars, cur, arg, acked,
                 workerVars, timerVars, brokerVars>>

(* Seeded fault: the registry forgets the handle too, once no listener uses
   it any more. *)
RemoveEverywhere ==
  /\ UserGoes("remove", "idle")
  /\ listen' = [k \in Conns |-> listen[k] /\ k # listeners[arg]]
  /\ listeners' = [listeners EXCEPT ![arg] = 0]
  /\ sockets' = [sockets EXCEPT ![arg] = 0]
  /\ semaphores' = [semaphores EXCEPT ![arg] = 0]
  /\ registry' = [registry EXCEPT ![arg] =
       IF \E k \in Conns : lhandle[k] = arg /\ lpc[k] \in {"poll", "init", "semwait"}
       THEN @ ELSE 0]
  /\ Unlocked
  /\ UNCHANGED <<lastHandle, brokerConn, sock, sem, lpc, ready, lhandle, cur, arg,
                 acked, workerVars, timerVars, brokerVars>>

(* removeConnection stops and erases the listener, and the maps forget the
   handle; the registry does not. *)
Remove ==
  /\ UserGoes("remove", "idle")
  /\ listen' = [k \in Conns |-> listen[k] /\ k # listeners[arg]]
  /\ listeners' = [listeners EXCEPT ![arg] = 0]
  /\ sockets' = [sockets EXCEPT ![arg] = 0]
  /\ semaphores' = [semaphores EXCEPT ![arg] = 0]
  /\ Unlocked
  /\ UNCHANGED <<lastHandle, registry, brokerConn, sock, sem, lpc, ready, lhandle, cur, arg,
                 acked, workerVars, timerVars, brokerVars>>

DisconnectStep ==
  \/ TimerStopped \/ UnknownHandle \/ DisconnectSent \/ ShutThrows \/ Shut
  \/ CloseAndSet \/ Remove

-----------------------------------------------------------------------------
(* shutdown, by the application thread. *)

(* Listeners of the handles in H are stopped and erased. *)
StopListeners(H) ==
  /\ listen' = [k \in Conns |-> listen[k] /\ k \notin {listeners[h] : h \in H}]
  /\ listeners' = [h \in Handles |-> IF h \in H THEN 0 ELSE listeners[h]]

Mapped == {h \in Handles : sockets[h] # 0}

(* Seeded fault: the listeners are not taken from the manager's map. *)
ShutdownSocketsOnly ==
  /\ upc = "idle"
  /\ CanLock("user")
  /\ sock' = [k \in Conns |-> IF k \in {sockets[h] : h \in Mapped} THEN "shut" ELSE sock[k]]
  /\ sockets' = [h \in Handles |-> 0]
  /\ UNCHANGED <<semaphores, lastHandle, lockVars, registry, listeners, brokerConn, sem,
                 listenerVars, userVars, acked, workerVars, timerVars, brokerVars>>

(* The manager's stop, which follows, finds no listener left to stop. *)
Shutdown ==
  /\ upc = "idle"
  /\ CanLock("user")
  /\ StopListeners(Mapped)
  /\ sock' = [k \in Conns |-> IF k \in {sockets[h] : h \in Mapped} THEN "shut" ELSE sock[k]]
  /\ sockets' = [h \in Handles |-> 0]
  /\ UNCHANGED <<semaphores, lastHandle, lockVars, registry, brokerConn, sem, lpc, ready,
                 lhandle, userVars, acked, workerVars, timerVars, brokerVars>>

(* Socket::shutdown throws at handle h, after the handles before it. *)
ShutdownThrows(h) ==
  /\ upc = "idle"
  /\ CanLock("user")
  /\ h \in Mapped /\ MayFail(sockets[h])
  /\ StopListeners(Mapped \intersect 0 .. h)
  /\ sock' = [k \in Conns |->
               IF k \in {sockets[i] : i \in (Mapped \intersect 0 .. h) \ {h}}
               THEN "shut" ELSE sock[k]]
  /\ Leaked("user")
  /\ UNCHANGED <<sockets, semaphores, lastHandle, registry, brokerConn, sem, lpc, ready,
                 lhandle, userVars, acked, workerVars, timerVars, brokerVars>>

-----------------------------------------------------------------------------
(* NmqttClientListener::run, by listener k. *)

(* Its socket and semaphore are those the registry has for its handle. *)
Own(k) == registry[lhandle[k]]

ListenerGoes(k, from, to) ==
  /\ lpc[k] = from
  /\ lpc' = [lpc EXCEPT ![k] = to]
  /\ UNCHANGED <<mapVars, lockVars, brokerConn, lhandle, userVars, acked, timerVars, remote>>

(* A packet is read and becomes a request for the Dispatcher. *)
Receive(k) ==
  /\ ListenerGoes(k, "poll", "init")
  /\ listen[k]
  /\ sock[Own(k)] \in {"open", "shut"}
  /\ inbox[Own(k)] # <<>>
  /\ pending' = pending \union
       {[cmd |-> Head(inbox[Own(k)]), handle |-> lhandle[k], from |-> Own(k)]}
  /\ inbox' = [inbox EXCEPT ![Own(k)] = Tail(@)]
  /\ UNCHANGED <<sock, sem, listen, ready, executing, hpc, handled>>

PollTimeout(k) ==
  /\ ListenerGoes(k, "poll", "init")
  /\ listen[k]
  /\ sock[Own(k)] = "open" /\ remote[Own(k)] # "closed"
  /\ inbox[Own(k)] = <<>>
  /\ UNCHANGED <<sock, sem, listen, ready, workerVars, inbox>>

(* The first turn of the loop ends with the signal for addConnection. *)
TurnEnds(k) ==
  /\ ListenerGoes(k, "init", "poll")
  /\ ready' = [ready EXCEPT ![k] = TRUE]
  /\ UNCHANGED <<sock, sem, listen, workerVars, inbox>>

(* The loop ends: the connection was closed by the broker or shut down... *)
SeeClosed(k) ==
  /\ ListenerGoes(k, "poll", "semwait")
  /\ listen[k]
  /\ sock[Own(k)] = "shut" \/ (sock[Own(k)] = "open" /\ remote[Own(k)] = "closed")
  /\ inbox[Own(k)] = <<>>
  /\ UNCHANGED <<sock, sem, listen, ready, workerVars, inbox>>

(* ... or stop was called. *)
SeeStop(k) ==
  /\ ListenerGoes(k, "poll", "semwait")
  /\ ~listen[k]
  /\ UNCHANGED <<sock, sem, listen, ready, workerVars, inbox>>

(* Polling a closed socket throws, and nothing in run catches it: the thread
   ends without its clean-up. *)
PollThrows(k) ==
  /\ ListenerGoes(k, "poll", "thrown")
  /\ listen[k]
  /\ sock[Own(k)] \in {"closed", "deleted"}
  /\ UNCHANGED <<sock, sem, listen, ready, workerVars, inbox>>

(* receiveBytes throws when the broker has reset the connection; what it had
   sent is lost with it... *)
ReceiveThrows(k) ==
  /\ ListenerGoes(k, "poll", "thrown")
  /\ listen[k]
  /\ sock[Own(k)] \in {"open", "shut"} /\ remote[Own(k)] = "closed"
  /\ inbox' = [inbox EXCEPT ![Own(k)] = <<>>]
  /\ UNCHANGED <<sock, sem, listen, ready, workerVars>>

(* ... and parseMessage on a PUBLISH with lengths that do not fit. *)
ParseThrows(k) ==
  /\ ListenerGoes(k, "poll", "thrown")
  /\ listen[k]
  /\ sock[Own(k)] \in {"open", "shut"}
  /\ inbox[Own(k)] # <<>> /\ Head(inbox[Own(k)]) = "PUBLISH"
  /\ inbox' = [inbox EXCEPT ![Own(k)] = Tail(@)]
  /\ UNCHANGED <<sock, sem, listen, ready, workerVars>>

(* Seeded fault: the socket is deleted without waiting for the semaphore. *)
CleanUpAtOnce(k) ==
  /\ ListenerGoes(k, "semwait", "gone")
  /\ sock' = [sock EXCEPT ![Own(k)] = "deleted"]
  /\ UNCHANGED <<sem, listen, ready, workerVars, inbox>>

(* The semaphore was set: socket, semaphore and listener are deleted. *)
CleanUp(k) ==
  /\ ListenerGoes(k, "semwait", "gone")
  /\ sem[Own(k)] = 1
  /\ sem' = [sem EXCEPT ![Own(k)] = 0]
  /\ sock' = [sock EXCEPT ![Own(k)] = "deleted"]
  /\ UNCHANGED <<listen, ready, workerVars, inbox>>

(* The listener that shares its handle was faster: the semaphore is null. *)
WaitOnNull(k) ==
  /\ lpc[k] = "semwait"
  /\ \E j \in Conns \ {k} : lpc[j] = "gone" /\ lhandle[j] = lhandle[k]
  /\ Abort
  /\ UNCHANGED <<mapVars, lockVars, brokerConn, sock, sem, listen, ready, lhandle, cur, arg,
                 acked, pending, executing, handled, pingHandle, brokerVars>>

ListenerStep(k) ==
  \/ Receive(k) \/ PollTimeout(k) \/ TurnEnds(k) \/ SeeClosed(k) \/ SeeStop(k)
  \/ PollThrows(k) \/ ReceiveThrows(k) \/ ParseThrows(k)
  \/ CleanUp(k) \/ WaitOnNull(k)

-----------------------------------------------------------------------------
(* The ping timer's thread: pingreqHandler. *)

TimerFires ==
  /\ timer = "on"
  /\ timer' = "calling"
  /\ UNCHANGED <<mapVars, lockVars, brokerConn, sock, sem, listenerVars, userVars, acked,
                 workerVars, pingHandle, brokerVars>>

(* The PINGREQ is sent, or there is no such handle any more. *)
PingEnds ==
  /\ timer = "calling"
  /\ CanLock("timer")
  /\ sockets[pingHandle] # 0 => MaySend(sockets[pingHandle])
  /\ timer' = "on"
  /\ UNCHANGED <<mapVars, lockVars, brokerConn, sock, sem, listenerVars, userVars, acked,
                 workerVars, pingHandle, brokerVars>>

PingFails ==
  /\ timer = "calling"
  /\ CanLock("timer")
  /\ sockets[pingHandle] # 0 /\ MayFail(sockets[pingHandle])
  /\ Leaked("timer")
  /\ timer' = "on"
  /\ UNCHANGED <<mapVars, brokerConn, sock, sem, listenerVars, userVars, acked,
                 workerVars, pingHandle, brokerVars>>

-----------------------------------------------------------------------------
(* Request::process, by worker w. *)

WorkerGoes(w, from, to) ==
  /\ hpc[w] = from
  /\ UNCHANGED <<mapVars, lockVars, brokerConn, sock, sem, listenerVars, cur, arg,
                 pingHandle, brokerVars>>
  /\ hpc' = [hpc EXCEPT ![w] = to]

(* A PUBLISH goes to the application's handler, found in the registry. *)
Deliver(w, r) ==
  /\ WorkerGoes(w, "idle", "idle")
  /\ r \in pending /\ r.cmd = "PUBLISH"
  /\ pending' = pending \ {r}
  /\ UNCHANGED <<upc, acked, executing, handled, timer>>

(* A CONNACK goes to connackHandler, which looks whether conn is there... *)
HandleConnack(w, r) ==
  /\ WorkerGoes(w, "idle", "check")
  /\ r \in pending /\ r.cmd = "CONNACK"
  /\ pending' = pending \ {r}
  /\ executing' = [executing EXCEPT ![w] = r]
  /\ UNCHANGED <<upc, acked, handled, timer>>

CheckConn(w) ==
  /\ WorkerGoes(w, "check", IF brokerConn # 0 THEN "write" ELSE "signal")
  /\ UNCHANGED <<pending, executing, handled, upc, acked, timer>>

(* ... writes to it, if it is still there... *)
WriteConn(w) ==
  /\ WorkerGoes(w, "write", "signal")
  /\ brokerConn # 0
  /\ UNCHANGED <<pending, executing, handled, upc, acked, timer>>

WriteToNull(w) ==
  /\ hpc[w] = "write"
  /\ brokerConn = 0
  /\ Abort
  /\ UNCHANGED <<mapVars, lockVars, brokerConn, sock, sem, listen, ready, lhandle, cur, arg,
                 acked, pending, executing, handled, pingHandle, brokerVars>>

(* ... and signals connectCnd, which only a waiting connect feels. *)
SignalConn(w) ==
  /\ WorkerGoes(w, "signal", "idle")
  /\ acked' = IF upc = "wait" /\ acked = 0 THEN executing[w].from ELSE acked
  /\ handled' = handled \union {executing[w].from}
  /\ executing' = [executing EXCEPT ![w] = NoRequest]
  /\ UNCHANGED <<pending, upc, timer>>

WorkerStep(w) ==
  \/ \E r \in pending : Deliver(w, r) \/ HandleConnack(w, r)
  \/ CheckConn(w) \/ WriteConn(w) \/ WriteToNull(w) \/ SignalConn(w)

-----------------------------------------------------------------------------
(* The broker, at its end of socket k. *)

BrokerGoes(k, from, to) ==
  /\ upc # "aborted"
  /\ remote[k] \in from
  /\ remote' = [remote EXCEPT ![k] = to]
  /\ UNCHANGED <<mapVars, lockVars, brokerConn, sock, sem, listenerVars, userVars, acked,
                 workerVars, timerVars>>

Accept(k) ==
  /\ BrokerGoes(k, {"greeted"}, "accepted")
  /\ inbox' = [inbox EXCEPT ![k] = Append(@, "CONNACK")]

Serve(k) ==
  /\ k \in Publishing
  /\ BrokerGoes(k, {"accepted"}, "served")
  /\ inbox' = [inbox EXCEPT ![k] = Append(@, "PUBLISH")]

HangUp(k) ==
  /\ BrokerGoes(k, {"open", "greeted", "accepted", "served"}, "closed")
  /\ UNCHANGED inbox

-----------------------------------------------------------------------------
Next ==
  \/ \E k \in Conns : NewConnection(k)
  \/ ConnectStep
  \/ \E h \in Handles : SendFails(h) \/ Disconnect(h) \/ ShutdownThrows(h)
  \/ DisconnectStep
  \/ Shutdown
  \/ \E k \in Conns : ListenerStep(k) \/ Accept(k) \/ Serve(k) \/ HangUp(k)
  \/ TimerFires \/ PingEnds \/ PingFails
  \/ \E w \in Workers : WorkerStep(w)

Spec == Init /\ [][Next]_vars

(* Calls that were begun go on and threads run; the application need not
   call anything, nor the broker answer. *)
Fairness ==
  /\ WF_vars(ConnectStep \/ DisconnectStep)
  /\ \A k \in Conns : WF_vars(ListenerStep(k))
  /\ WF_vars(PingEnds \/ PingFails)
  /\ \A w \in Workers : WF_vars(WorkerStep(w))

FairSpec == Spec /\ Fairness

-----------------------------------------------------------------------------
(* Correctness. *)

(* A socket that a sender can find in the map is not deleted, and has its   *)
(* semaphore beside it: whoever gets socketsMutex may use it.  Only         *)
(* disconnect sees one go, between setting the semaphore and the end.       *)
MappedSocketLive ==
  \A h \in Handles :
    sockets[h] # 0 /\ upc \notin {"remove", "aborted"} =>
      sock[sockets[h]] \in {"open", "shut", "closed"} /\ semaphores[h] # 0

(* A listener that still runs does not poll a socket that was deleted under *)
(* it, unless it shares its handle with the listener of a failed connect.   *)
PolledSocketLive ==
  \A k \in Conns :
    lpc[k] \in {"poll", "init"} /\ sock[Own(k)] = "deleted" =>
      \E j \in Conns \ {k} : lpc[j] # "none" /\ lhandle[j] = lhandle[k]

(* The socket of a connection goes one way, through whichever of the        *)
(* application, its listener and a late listener it goes: it is opened      *)
(* once, shut before it is closed or deleted, and touched no more then.     *)
(* disconnect and shutdown do not tell each other, nor the listener, which  *)
(* socket they are done with, and the semaphore may be that of another.     *)
SocketsGoOneWay ==
  [][\A k \in Conns : sock'[k] # sock[k] =>
       <<sock[k], sock'[k]>> \in {<<"new", "open">>, <<"open", "shut">>, <<"shut", "closed">>,
                                 <<"shut", "deleted">>, <<"closed", "deleted">>}]_vars

(* A PINGREQ is sent within a session only: when the ping timer's thread    *)
(* gets socketsMutex and finds a socket under its handle, the CONNECT was   *)
(* sent on it and no DISCONNECT, and nobody has shut it.  Nothing tells the *)
(* thread: shutdown lets it run, a failed shutdown leaves its socket in the *)
(* map, and disconnect does not hold the mutex from DISCONNECT to shutdown, *)
(* but has stopped the timer, which promises what PingTimer says.           *)
PingsInSession ==
  timer = "calling" /\ CanLock("timer") /\ sockets[pingHandle] # 0 =>
    /\ sock[sockets[pingHandle]] = "open"
    /\ remote[sockets[pingHandle]] # "open"
    /\ upc \in {"shut", "close", "remove"} => arg # pingHandle

(* Request::process finds the handle of its request in the registry, which  *)
(* it does not check, however late the request is executed.                 *)
RequestsResolve ==
  \A r \in pending \union {executing[w] : w \in Workers} :
    r # NoRequest => registry[r.handle] # 0

(* The manager knows no listener that disconnect and shutdown could not     *)
(* find: its stop, which counts positions where the map has handles, never  *)
(* has a listener to stop.                                                  *)
ListenersAreMapped == \A h \in Handles : listeners[h] # 0 => sockets[h] # 0

(* "Wait for condition": a waiting connect has been signalled if and only   *)
(* if the CONNACK of its own connection was handled.                        *)
ConnackReachesConnect == upc = "wait" => (acked # 0 <=> NewSocket \in handled)

(* A call of the application comes to its end, however the ping timer, the *)
(* listeners, the handlers and the broker are interleaved with it: not even *)
(* disconnect, which waits for a ping that needs socketsMutex, waits for    *)
(* ever, unless an error path has left the mutex locked.  When a stop of    *)
(* the timer takes effect is the subject of ChronoTrigger.                  *)
CallsReturn ==
  []<>(upc \in {"idle", "aborted"} \/ leaked \/ (upc = "stop" /\ timer = "on"))

(* The listener of a socket that disconnect has closed does not stay: its   *)
(* thread deletes socket, semaphore and itself, or dies of the closed       *)
(* socket, also when a late listener shares its handle.  The connects being *)
(* bounded, that is: again and again there is no such listener.             *)
DisconnectEndsListener ==
  []<>(\A k \in Conns :
         lpc[k] \in {"poll", "init", "semwait"} => sock[Own(k)] \notin {"closed", "deleted"})

=============================================================================
