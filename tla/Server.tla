-------------------------------- MODULE Server --------------------------------
(***************************************************************************)
(* The broker: NmqttServer (server.cpp), a NmqttSession thread per         *)
(* connection (session.cpp), the handles of NmqttClientConnections         *)
(* (server_connections.cpp), and the requests that workers of the          *)
(* Dispatcher execute (server_request.cpp).                                *)
(*                                                                         *)
(* Nothing locks the handles: every access of a session to freeHandles,    *)
(* lastHandle or sockets is a step, and a worker looks a handle up twice.  *)
(* raced records whether two sessions were ever among the handles at once. *)
(* Where the code would use a null pointer the process ends; where it uses *)
(* memory that was freed, it ends or what was there is used.               *)
(*                                                                         *)
(* The i-th packet of a connection is its CONNECT if i = 1, or a PINGREQ;  *)
(* the broker answers both alike.  Packets of other kinds change nothing,  *)
(* except that parseMessage may throw, which any packet in overrun does.   *)
(* A session's stop is never called.  The Dispatcher is the pool of        *)
(* RequestPool.                                                            *)
(***************************************************************************)
EXTENDS Naturals, FiniteSets, Sequences

CONSTANTS Conns,       \* the connections that may be made
          Workers,     \* the workers of the Dispatcher
          MaxPackets,  \* bound on the packets a client sends
          Asking,      \* the clients that send packets, and not only come and go
          NoConn       \* a handle that is not in the map

ASSUME ServerAssumption ==
  /\ IsFiniteSet(Conns)
  /\ NoConn \notin Conns
  /\ Asking \subseteq Conns /\ MaxPackets \in Nat

Handles == 0 .. Cardinality(Conns) - 1

VARIABLES
  sockets,      \* NmqttClientConnections::sockets, handle to connection
  lastHandle,   \* NmqttClientConnections::lastHandle
  freeHandles,  \* NmqttClientConnections::freeHandles
  raced,        \* two sessions were in addSocket or removeSocket at once
  spc,          \* spc[c]: where the session of c is in run
  handle,       \* handle[c]: the local variable `handle' of its run
  accepting,    \* the TCPServer accepts connections
  pending,      \* requests given to the Dispatcher
  wpc,          \* wpc[w]: where worker w is in process
  wreq,         \* wreq[w]: the request it processes
  wsock,        \* wsock[w]: the connection whose entry or socket it has found
  remote,       \* remote[c]: the client's end of the connection
  overrun,      \* packets of which parseMessage seeks a part behind their end
  sent,         \* sent[c]: the packets the client has sent
  unread,       \* unread[c]: those of them that were not read, in order
  answers       \* what the workers have sent, to whom

handleVars  == <<sockets, lastHandle, freeHandles>>
sessionVars == <<raced, spc, handle, accepting>>
workerVars  == <<pending, wpc, wreq, wsock, answers>>
clientVars  == <<remote, overrun, sent, unread>>
vars == <<handleVars, sessionVars, workerVars, clientVars>>

Packets  == 1 .. MaxPackets
Requests == [packet : Packets, from : Conns]
NoRequest == [packet |-> 0, from |-> NoConn]
Adding   == {"empty", "front", "pop", "load", "store", "insert"}
Removing == {"erase", "push"}

(* The type of every variable. *)
TypeOK ==
  /\ sockets \in [Handles -> Conns \union {NoConn}]
  /\ lastHandle \in 0 .. Cardinality(Conns)
  /\ freeHandles \in Seq(Handles)
  /\ raced \in BOOLEAN
  /\ spc \in [Conns -> Adding \union Removing \union {"none", "poll", "ended", "aborted"}]
  /\ handle \in [Conns -> Handles]
  /\ accepting \in BOOLEAN
  /\ pending \subseteq Requests
  /\ wpc \in [Workers -> {"idle", "handler", "send", "aborted"}]
  /\ wreq \in [Workers -> Requests \union {NoRequest}]
  /\ wsock \in [Workers -> Conns \union {NoConn}]
  /\ remote \in [Conns -> {"none", "open", "closed", "reset", "dropped"}]
  /\ overrun \subseteq Requests
  /\ sent \in [Conns -> 0 .. MaxPackets]
  /\ unread \in [Conns -> Seq(Packets)]
  /\ answers \subseteq [request : Requests, to : Conns]

Init ==
  /\ sockets = [h \in Handles |-> NoConn]
  /\ lastHandle = 0
  /\ freeHandles = <<>>
  /\ raced = FALSE
  /\ spc = [c \in Conns |-> "none"]
  /\ handle = [c \in Conns |-> 0]
  /\ accepting = TRUE
  /\ pending = {}
  /\ wpc = [w \in Workers |-> "idle"]
  /\ wreq = [w \in Workers |-> NoRequest]
  /\ wsock = [w \in Workers |-> NoConn]
  /\ remote = [c \in Conns |-> "none"]
  /\ overrun = {}
  /\ sent = [c \in Conns |-> 0]
  /\ unread = [c \in Conns |-> <<>>]
  /\ answers = {}

(* The process ends. *)
Abort ==
  /\ spc' = [c \in Conns |-> "aborted"]
  /\ wpc' = [w \in Workers |-> "aborted"]

-----------------------------------------------------------------------------
(* NmqttSession::run, by the session of connection c. *)

SessionGoes(c, from, to) ==
  /\ spc[c] = from
  /\ spc' = [spc EXCEPT ![c] = to]
  /\ UNCHANGED <<accepting, wpc, wreq, wsock, answers, remote, overrun, sent>>

(* The session enters addSocket or removeSocket. *)
Enters(c) == raced' = (raced \/ \E d \in Conns \ {c} : spc[d] \in Adding \union Removing)

(* The TCPServer accepts the connection and starts its session. *)
Accept(c) ==
  /\ accepting
  /\ spc[c] = "none"
  /\ spc' = [spc EXCEPT ![c] = "empty"]
  /\ remote' = [remote EXCEPT ![c] = "open"]
  /\ Enters(c)
  /\ UNCHANGED <<handleVars, handle, accepting, workerVars, overrun, sent, unread>>


(* addSocket: is there a free handle? *)
SeeFree(c) ==
  /\ SessionGoes(c, "empty", IF freeHandles # <<>> THEN "front" ELSE "load")
  /\ UNCHANGED <<handleVars, raced, handle, pending, unread>>

Front(c) ==
  /\ SessionGoes(c, "front", "pop")
  /\ freeHandles # <<>>
  /\ handle' = [handle EXCEPT ![c] = Head(freeHandles)]
  /\ UNCHANGED <<handleVars, raced, pending, unread>>

(* Seeded fault: the handle that is taken stays free. *)
KeepFront(c) ==
  /\ SessionGoes(c, "pop", "insert")
  /\ freeHandles # <<>>
  /\ UNCHANGED <<handleVars, raced, handle, pending, unread>>

Pop(c) ==
  /\ SessionGoes(c, "pop", "insert")
  /\ freeHandles # <<>>
  /\ freeHandles' = Tail(freeHandles)
  /\ UNCHANGED <<sockets, lastHandle, raced, handle, pending, unread>>

(* Another session was faster: front or pop on an empty queue. *)
NothingFree(c) ==
  /\ spc[c] \in {"front", "pop"}
  /\ freeHandles = <<>>
  /\ Abort
  /\ UNCHANGED <<handleVars, raced, handle, accepting, pending, wreq, wsock, answers, clientVars>>

(* Seeded fault: ++lastHandle. *)
LoadNext(c) ==
  /\ SessionGoes(c, "load", "store")
  /\ handle' = [handle EXCEPT ![c] = lastHandle + 1]
  /\ UNCHANGED <<handleVars, raced, pending, unread>>

(* A new handle: lastHandle++, a load and a store. *)
LoadHandle(c) ==
  /\ SessionGoes(c, "load", "store")
  /\ handle' = [handle EXCEPT ![c] = lastHandle]
  /\ UNCHANGED <<handleVars, raced, pending, unread>>

(* Seeded fault: the last handle is stored, not the next one. *)
StoreSame(c) ==
  /\ SessionGoes(c, "store", "insert")
  /\ lastHandle' = handle[c]
  /\ UNCHANGED <<sockets, freeHandles, raced, handle, pending, unread>>

StoreHandle(c) ==
  /\ SessionGoes(c, "store", "insert")
  /\ lastHandle' = handle[c] + 1
  /\ UNCHANGED <<sockets, freeHandles, raced, handle, pending, unread>>

(* std::map::insert leaves an entry that is there as it is. *)
InsertSocket(c) ==
  /\ SessionGoes(c, "insert", "poll")
  /\ sockets' = [sockets EXCEPT ![handle[c]] = IF @ = NoConn THEN c ELSE @]
  /\ UNCHANGED <<lastHandle, freeHandles, raced, handle, pending, unread>>

(* The next packet of the connection, as a request. *)
NextRequest(c) == [packet |-> Head(unread[c]), from |-> c]

(* A packet is there, and the session reads it. *)
ReadsPacket(c) ==
  /\ unread[c] # <<>> /\ remote[c] # "reset"
  /\ unread' = [unread EXCEPT ![c] = Tail(@)]

(* A packet is read and becomes a request for the Dispatcher. *)
Receive(c) ==
  /\ SessionGoes(c, "poll", "poll")
  /\ ReadsPacket(c)
  /\ NextRequest(c) \notin overrun
  /\ pending' = pending \union {NextRequest(c)}
  /\ UNCHANGED <<handleVars, raced, handle>>

(* The client has closed the connection, and everything was read. *)
SeeClosed(c) ==
  /\ SessionGoes(c, "poll", "erase")
  /\ unread[c] = <<>> /\ remote[c] = "closed"
  /\ Enters(c)
  /\ UNCHANGED <<handleVars, handle, pending, unread>>

(* The connection was reset: receiveBytes throws, TCPServerConnection catches
   it, and the session ends without removeSocket. *)
ReceiveThrows(c) ==
  /\ SessionGoes(c, "poll", "ended")
  /\ remote[c] = "reset"
  /\ UNCHANGED <<handleVars, raced, handle, pending, unread>>

(* substr throws in parseMessage: the session ends likewise, without a request
   and without removeSocket, and its socket is closed with it. *)
ParseThrows(c) ==
  /\ spc[c] = "poll"
  /\ ReadsPacket(c)
  /\ NextRequest(c) \in overrun
  /\ spc' = [spc EXCEPT ![c] = "ended"]
  /\ remote' = [remote EXCEPT ![c] = IF @ = "open" THEN "dropped" ELSE @]
  /\ UNCHANGED <<handleVars, raced, handle, accepting, workerVars, overrun, sent>>

(* removeSocket: the entry is erased... *)
Erase(c) ==
  /\ SessionGoes(c, "erase", "push")
  /\ sockets[handle[c]] # NoConn
  /\ sockets' = [sockets EXCEPT ![handle[c]] = NoConn]
  /\ UNCHANGED <<lastHandle, freeHandles, raced, handle, pending, unread>>

(* ... unless somebody else has erased it... *)
NothingToErase(c) ==
  /\ SessionGoes(c, "erase", "ended")
  /\ sockets[handle[c]] = NoConn
  /\ UNCHANGED <<handleVars, raced, handle, pending, unread>>

(* ... and its handle is free again. *)
Push(c) ==
  /\ SessionGoes(c, "push", "ended")
  /\ freeHandles' = Append(freeHandles, handle[c])
  /\ UNCHANGED <<sockets, lastHandle, raced, handle, pending, unread>>

SessionStep(c) ==
  \/ SeeFree(c) \/ Front(c) \/ Pop(c) \/ NothingFree(c) \/ LoadHandle(c) \/ StoreHandle(c)
  \/ InsertSocket(c) \/ Receive(c) \/ SeeClosed(c) \/ ReceiveThrows(c)
  \/ ParseThrows(c) \/ Erase(c) \/ NothingToErase(c) \/ Push(c)

-----------------------------------------------------------------------------
(* NmqttServerRequest::process, by worker w. *)

(* What getSocket finds for the handle of request r. *)
Found(r) == sockets[handle[r.from]]

WorkerGoes(w, from, to) ==
  /\ wpc[w] = from
  /\ wpc' = [wpc EXCEPT ![w] = to]
  /\ UNCHANGED <<handleVars, sessionVars, clientVars>>

WorkerAborts(w) ==
  /\ Abort
  /\ UNCHANGED <<handleVars, raced, handle, accepting, wsock, answers, clientVars>>

(* process looks for the entry of the handle... *)
Process(w, r) ==
  /\ WorkerGoes(w, "idle", "handler")
  /\ r \in pending /\ Found(r) # NoConn
  /\ pending' = pending \ {r}
  /\ wreq' = [wreq EXCEPT ![w] = r]
  /\ wsock' = [wsock EXCEPT ![w] = Found(r)]
  /\ UNCHANGED answers

(* ... and calls through it whatever it has found. *)
ProcessNull(w, r) ==
  /\ wpc[w] = "idle"
  /\ r \in pending /\ Found(r) = NoConn
  /\ pending' = pending \ {r}
  /\ wreq' = [wreq EXCEPT ![w] = r]
  /\ WorkerAborts(w)

(* The handler calls sendMessage, which looks for the handle again. *)
CallHandler(w) ==
  /\ WorkerGoes(w, "handler", "send")
  /\ Found(wreq[w]) # NoConn
  /\ wsock' = [wsock EXCEPT ![w] = Found(wreq[w])]
  /\ UNCHANGED <<pending, wreq, answers>>

(* The entry with the handler was erased, or there is none now. *)
CallAborts(w) ==
  /\ wpc[w] = "handler"
  /\ Found(wreq[w]) # wsock[w]
  /\ WorkerAborts(w)
  /\ UNCHANGED <<pending, wreq>>

Send(w) ==
  /\ WorkerGoes(w, "send", "idle")
  /\ remote[wsock[w]] = "open"
  /\ answers' = answers \union {[request |-> wreq[w], to |-> wsock[w]]}
  /\ wreq' = [wreq EXCEPT ![w] = NoRequest]
  /\ wsock' = [wsock EXCEPT ![w] = NoConn]
  /\ UNCHANGED pending

(* Seeded fault: the Dispatcher is given the request once more. *)
SendAgain(w) ==
  /\ WorkerGoes(w, "send", "idle")
  /\ remote[wsock[w]] # "open"
  /\ pending' = pending \union {wreq[w]}
  /\ wreq' = [wreq EXCEPT ![w] = NoRequest]
  /\ wsock' = [wsock EXCEPT ![w] = NoConn]
  /\ UNCHANGED answers

(* The client is gone: sendBytes throws, which sendMessage catches. *)
SendFails(w) ==
  /\ WorkerGoes(w, "send", "idle")
  /\ remote[wsock[w]] # "open"
  /\ wreq' = [wreq EXCEPT ![w] = NoRequest]
  /\ wsock' = [wsock EXCEPT ![w] = NoConn]
  /\ UNCHANGED <<pending, answers>>

(* The session has ended, and its socket was deleted with it. *)
SendAborts(w) ==
  /\ wpc[w] = "send"
  /\ spc[wsock[w]] = "ended"
  /\ WorkerAborts(w)
  /\ UNCHANGED <<pending, wreq>>

WorkerStep(w) ==
  \/ \E r \in pending : Process(w, r) \/ ProcessNull(w, r)
  \/ CallHandler(w) \/ CallAborts(w) \/ Send(w) \/ SendFails(w) \/ SendAborts(w)

-----------------------------------------------------------------------------
(* The client at the other end of connection c, and NmqttServer::shutdown. *)

(* The packet may be one that parseMessage cannot take apart, such as a CONNECT
   of this library with a client id and a will or credentials. *)
ClientSends(c) ==
  /\ remote[c] = "open" /\ spc[c] # "aborted"
  /\ c \in Asking /\ sent[c] < MaxPackets
  /\ sent' = [sent EXCEPT ![c] = @ + 1]
  /\ unread' = [unread EXCEPT ![c] = Append(@, sent[c] + 1)]
  /\ overrun' \in {overrun, overrun \union {[packet |-> sent[c] + 1, from |-> c]}}
  /\ UNCHANGED <<handleVars, sessionVars, workerVars, remote>>

ClientCloses(c) ==
  /\ remote[c] = "open" /\ spc[c] # "aborted"
  /\ \E how \in {"closed", "reset"} : remote' = [remote EXCEPT ![c] = how]
  /\ UNCHANGED <<handleVars, sessionVars, workerVars, overrun, sent, unread>>

(* The TCPServer stops accepting; sessions and workers go on. *)
Shutdown ==
  /\ accepting /\ (\A c \in Conns : spc[c] # "aborted")
  /\ accepting' = FALSE
  /\ UNCHANGED <<handleVars, raced, spc, handle, workerVars, clientVars>>

-----------------------------------------------------------------------------
Next ==
  \/ \E c \in Conns : Accept(c) \/ SessionStep(c) \/ ClientSends(c) \/ ClientCloses(c)
  \/ \E w \in Workers : WorkerStep(w)
  \/ Shutdown

Spec == Init /\ [][Next]_vars

(* Session and worker threads run; clients need not send, close or connect. *)
Fairness ==
  /\ \A c \in Conns : WF_vars(SessionStep(c))
  /\ \A w \in Workers : WF_vars(WorkerStep(w))

FairSpec == Spec /\ Fairness

-----------------------------------------------------------------------------
(* Correctness. *)

(* As long as no two sessions enter or leave at once, a session that serves *)
(* its client is found under its handle, and no handle is both free and in  *)
(* use, or free twice: what addSocket and removeSocket are there for.       *)
HandlesAreExclusive ==
  ~raced =>
    /\ \A c \in Conns : spc[c] = "poll" => sockets[handle[c]] = c
    /\ \A i \in 1 .. Len(freeHandles) : sockets[freeHandles[i]] = NoConn
    /\ \A i, j \in 1 .. Len(freeHandles) : freeHandles[i] = freeHandles[j] => i = j

(* The request of a client that is still connected is not lost and not on   *)
(* its way to another, however many others come and go: it waits, or a      *)
(* worker is about to answer it to that client, or has done so.             *)
AskersAreServed ==
  \A c \in Conns, i \in Packets :
    LET r == [packet |-> i, from |-> c] IN
    /\ ~raced /\ spc[c] = "poll" /\ remote[c] = "open"
    /\ i <= sent[c] /\ \A j \in 1 .. Len(unread[c]) : unread[c][j] # i
    => \/ r \in pending
       \/ \E w \in Workers : wreq[w] = r /\ wsock[w] = c
       \/ [request |-> r, to |-> c] \in answers

(* The packet of request r was sent, and its session has read it. *)
Received(r) == r.packet <= sent[r.from] /\ \A j \in 1 .. Len(unread[r.from]) : unread[r.from][j] # r.packet

Pool == INSTANCE RequestPool WITH
  executing <- wreq,
  done <- {r \in Requests : Received(r)} \ (pending \union {wreq[w] : w \in Workers} \union overrun)

(* Sessions and workers use the Dispatcher as the pool that RequestPool     *)
(* specifies: every packet that is read and parsed is submitted once, and   *)
(* one that parseMessage throws on never, however sessions race; whatever   *)
(* becomes of its client or of its session meanwhile, no worker gets it     *)
(* twice and none goes on to another before it has ended.                   *)
ImplementsPool == Pool!Spec

(* An answer that is sent while the session of the asker still serves it    *)
(* goes to the asker, although the worker has looked the handle up before,  *)
(* and the handle may have had other owners: only the answer to a session   *)
(* that has ended can reach another.                                        *)
LiveAskersGetTheirs ==
  [][\A a \in answers' \ answers :
       ~raced /\ spc[a.request.from] = "poll" => a.to = a.request.from]_vars


(* "Process connection. Return CONNACK response", "Reply to ping response   *)
(* from a client": an answer goes to the client that asked, at least as     *)
(* long as sessions enter and leave one at a time.                          *)
AnswersAsker == ~raced => \A a \in answers : a.to = a.request.from

=============================================================================
