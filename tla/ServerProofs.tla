----------------------------- MODULE ServerProofs -----------------------------
(***************************************************************************)
(* Proofs about Server, for any connections, workers and packets.          *)
(*                                                                         *)
(* Four invariants are proved one after the other.  TypeInv bounds         *)
(* lastHandle by the sessions that have taken their handle, for no race    *)
(* can count higher.  HandleInv says, while no two sessions have raced,    *)
(* what addSocket and removeSocket keep true between their steps: the one  *)
(* session that is inside owns a handle nobody else has.  ServeInv follows *)
(* every packet from the client's end to the answer, and needs HandleInv   *)
(* where a worker looks the handle of the request up.  PoolInv holds races *)
(* or not: requests are of packets that were read and parsed, and with one *)
(* worker.                                                                 *)
(***************************************************************************)
EXTENDS Server, FiniteSetTheorems, TLAPS

(* The sessions that have taken a handle, or did not live to take one. *)
Past == {c \in Conns : spc[c] \notin {"none", "empty", "front", "load", "store"}}

LastInv ==
  /\ lastHandle <= Cardinality(Past)
  /\ \A c \in Conns : spc[c] = "store" => handle[c] <= Cardinality(Past)

(* A busy worker has a request and a connection. *)
BusyInv ==
  \A w \in Workers : wpc[w] \in {"handler", "send"} => wreq[w] \in Requests /\ wsock[w] \in Conns

TypeInv == TypeOK /\ LastInv /\ BusyInv

(* Sessions in addSocket or removeSocket. *)
Inside(c) == spc[c] \in Adding \union Removing

(* Handle h belongs to nobody, and was given out before. *)
Owned(h) ==
  /\ sockets[h] = NoConn
  /\ h < lastHandle
  /\ \A i \in 1 .. Len(freeHandles) : freeHandles[i] # h

FreeInv ==
  /\ \A i \in 1 .. Len(freeHandles) :
       freeHandles[i] < lastHandle /\ sockets[freeHandles[i]] = NoConn
  /\ \A i, j \in 1 .. Len(freeHandles) : freeHandles[i] = freeHandles[j] => i = j
  /\ \A h \in Handles : sockets[h] # NoConn => h < lastHandle

SessionInv ==
  /\ \A c, d \in Conns : Inside(c) /\ Inside(d) => c = d
  /\ \A c \in Conns :
       /\ spc[c] \in {"poll", "erase"} => sockets[handle[c]] = c
       /\ spc[c] \in {"front", "pop"} => freeHandles # <<>>
       /\ spc[c] = "pop" => handle[c] = Head(freeHandles)
       /\ spc[c] = "store" => handle[c] = lastHandle
       /\ spc[c] \in {"insert", "push"} => Owned(handle[c])

HandleInv == ~raced => FreeInv /\ SessionInv

(* What AskersAreServed says of packet i of client c. *)
Served(c, i) ==
  LET r == [packet |-> i, from |-> c] IN
    \/ r \in pending
    \/ \E w \in Workers : wreq[w] = r /\ wsock[w] = c
    \/ [request |-> r, to |-> c] \in answers

Unread(c, i) == \E j \in 1 .. Len(unread[c]) : unread[c][j] = i

ServeInv ==
  /\ \A w \in Workers : wpc[w] = "idle" => wreq[w] = NoRequest
  /\ \A c \in Conns : spc[c] \in Adding \union {"none"} =>
       \A i \in Packets : i <= sent[c] => Unread(c, i)
  /\ ~raced => \A c \in Conns, i \in Packets :
       spc[c] = "poll" /\ remote[c] = "open" /\ i <= sent[c] => Unread(c, i) \/ Served(c, i)

-----------------------------------------------------------------------------
(* Type correctness. *)

(* A part of a finite set has at most as many members, and fewer if it      *)
(* misses one.                                                              *)
LEMMA PartCardinality ==
  ASSUME NEW S, IsFiniteSet(S), NEW T \in SUBSET S
  PROVE  /\ IsFiniteSet(T)
         /\ Cardinality(T) \in Nat /\ Cardinality(S) \in Nat
         /\ Cardinality(T) <= Cardinality(S)
         /\ \A x \in S \ T : Cardinality(T) < Cardinality(S)
<1>1. /\ IsFiniteSet(T)
      /\ Cardinality(T) <= Cardinality(S)
      /\ Cardinality(S) = Cardinality(T) => S = T
  BY FS_Subset
<1>2. Cardinality(T) \in Nat /\ Cardinality(S) \in Nat
  BY <1>1, FS_CardinalityType
<1> QED
  BY <1>1, <1>2

(* A session that is not among those with a handle takes lastHandle below   *)
(* the number of all connections.                                           *)
LEMMA PastBound ==
  /\ Cardinality(Past) \in Nat /\ Cardinality(Conns) \in Nat
  /\ Cardinality(Past) <= Cardinality(Conns)
  /\ \A c \in Conns \ Past : Cardinality(Past) < Cardinality(Conns)
<1>1. IsFiniteSet(Conns) /\ Past \in SUBSET Conns
  BY ServerAssumption DEF Past
<1> QED
  BY <1>1, PartCardinality

(* Sessions do not give back what they have taken in this sense.            *)
LEMMA PastGrows ==
  ASSUME LastInv, TypeOK, Past \subseteq Past',
         lastHandle' = lastHandle,
         \A c \in Conns : spc'[c] = "store" => spc[c] = "store" /\ handle'[c] = handle[c]
  PROVE  LastInv'
<1>1. IsFiniteSet(Past') /\ Past \in SUBSET Past'
  <2>1. IsFiniteSet(Conns) /\ Past' \in SUBSET Conns
    BY ServerAssumption DEF Past
  <2> QED
    BY <2>1, PartCardinality
<1>2. Cardinality(Past) <= Cardinality(Past') /\ Cardinality(Past) \in Nat
      /\ Cardinality(Past') \in Nat
  BY <1>1, PartCardinality
<1> QED
  BY <1>2 DEF LastInv, TypeOK, Handles

(* Every step of a session keeps the types.                                 *)
LEMMA SessionType == ASSUME TypeInv, NEW c \in Conns, SessionStep(c) PROVE TypeInv'
<1> USE DEF TypeInv
<1>1. BusyInv'
  BY DEF SessionStep, SeeFree, Front, Pop, NothingFree, LoadHandle, StoreHandle, InsertSocket,
         Receive, SeeClosed, ReceiveThrows, ParseThrows, Erase, NothingToErase, Push, SessionGoes,
         Abort, BusyInv, workerVars, clientVars, handleVars
<1>2. CASE LoadHandle(c)
  <2>1. c \in Conns \ Past
    BY <1>2 DEF Past, LoadHandle, SessionGoes
  <2>2. lastHandle \in Handles /\ lastHandle <= Cardinality(Past)
    BY <2>1, PastBound DEF LastInv, TypeOK, Handles
  <2>3. TypeOK'
    BY <1>2, <2>2 DEF LoadHandle, SessionGoes, TypeOK, handleVars, Adding
  <2>4. Past' = Past
    BY <1>2 DEF LoadHandle, SessionGoes, TypeOK, Past
  <2>5. LastInv'
    BY <1>2, <2>2, <2>4 DEF LoadHandle, SessionGoes, TypeOK, LastInv, handleVars
  <2> QED
    BY <1>1, <2>3, <2>5
<1>3. CASE StoreHandle(c)
  <2>1. c \notin Past /\ Past' = Past \union {c}
    BY <1>3 DEF StoreHandle, SessionGoes, TypeOK, Past
  <2>2. Cardinality(Past') = Cardinality(Past) + 1
    <3>1. IsFiniteSet(Conns) /\ Past \in SUBSET Conns
      BY ServerAssumption DEF Past
    <3>2. IsFiniteSet(Past)
      BY <3>1, PartCardinality
    <3> QED
      BY <2>1, <3>2, FS_AddElement
  <2>3. handle[c] <= Cardinality(Past) /\ handle[c] + 1 <= Cardinality(Conns)
    BY <1>3, PastBound DEF StoreHandle, SessionGoes, LastInv, TypeOK, Handles
  <2>4. TypeOK'
    BY <1>3, <2>3, PastBound DEF StoreHandle, SessionGoes, TypeOK, Handles, Adding
  <2>5. LastInv'
    BY <1>3, <2>2, <2>3, PastBound DEF StoreHandle, SessionGoes, LastInv, TypeOK, Handles
  <2> QED
    BY <1>1, <2>4, <2>5
<1>4. CASE NothingFree(c)
  <2>1. TypeOK'
    BY <1>4 DEF NothingFree, Abort, TypeOK, handleVars, clientVars
  <2>2. LastInv'
    BY <1>4, PastGrows DEF NothingFree, Abort, TypeOK, Past, handleVars
  <2> QED
    BY <1>1, <2>1, <2>2
<1>5. CASE \/ SeeFree(c) \/ Front(c) \/ Pop(c) \/ InsertSocket(c) \/ Receive(c) \/ SeeClosed(c)
           \/ ReceiveThrows(c) \/ ParseThrows(c) \/ Erase(c) \/ NothingToErase(c) \/ Push(c)
  <2> USE DEF SeeFree, Front, Pop, InsertSocket, Receive, SeeClosed, ReceiveThrows, ParseThrows,
              Erase, NothingToErase, Push, SessionGoes, handleVars, workerVars
  <2>1. spc' \in [Conns -> Adding \union Removing \union {"none", "poll", "ended", "aborted"}]
    BY <1>5 DEF TypeOK, Adding, Removing
  <2>2. freeHandles' \in Seq(Handles) /\ handle' \in [Conns -> Handles]
    <3>1. freeHandles # <<>> => Head(freeHandles) \in Handles /\ Tail(freeHandles) \in Seq(Handles)
      BY DEF TypeOK
    <3>2. Append(freeHandles, handle[c]) \in Seq(Handles)
      BY DEF TypeOK
    <3> QED
      BY <1>5, <3>1, <3>2 DEF TypeOK
  <2>3. sockets' \in [Handles -> Conns \union {NoConn}] /\ raced' \in BOOLEAN
    BY <1>5 DEF TypeOK, Enters
  <2>4. pending' \subseteq Requests /\ unread' \in [Conns -> Seq(Packets)]
    <3>1. unread[c] # <<>> => Head(unread[c]) \in Packets /\ Tail(unread[c]) \in Seq(Packets)
      BY DEF TypeOK
    <3>2. CASE Receive(c) \/ ParseThrows(c)
      <4>1. /\ unread[c] # <<>> /\ unread' = [unread EXCEPT ![c] = Tail(@)]
            /\ pending' \in {pending, pending \union {NextRequest(c)}}
        BY <3>2 DEF ReadsPacket
      <4>2. NextRequest(c) \in Requests
        BY <3>1, <4>1 DEF Requests, NextRequest
      <4>3. unread' \in [Conns -> Seq(Packets)]
        BY <3>1, <4>1 DEF TypeOK
      <4> QED
        BY <4>1, <4>2, <4>3 DEF TypeOK
    <3> QED
      BY <1>5, <3>2 DEF TypeOK
  <2>5. remote' \in [Conns -> {"none", "open", "closed", "reset", "dropped"}]
    BY <1>5 DEF TypeOK
  <2>6. UNCHANGED <<lastHandle, accepting, wpc, wreq, wsock, overrun, sent, answers>>
    BY <1>5
  <2>7. TypeOK'
    BY <2>1, <2>2, <2>3, <2>4, <2>5, <2>6 DEF TypeOK
  <2>8. Past \subseteq Past' /\ lastHandle' = lastHandle
        /\ \A d \in Conns : spc'[d] = "store" => spc[d] = "store" /\ handle'[d] = handle[d]
    BY <1>5 DEF TypeOK, Past
  <2> QED
    BY <1>1, <2>7, <2>8, PastGrows
<1> QED
  BY <1>2, <1>3, <1>4, <1>5 DEF SessionStep

(* Every step of a worker keeps the types.                                  *)
LEMMA WorkerType == ASSUME TypeInv, NEW w \in Workers, WorkerStep(w) PROVE TypeInv'
<1> USE DEF TypeInv
<1>1. CASE \/ \E r \in pending : ProcessNull(w, r)
           \/ CallAborts(w) \/ SendAborts(w)
  <2> USE DEF ProcessNull, CallAborts, SendAborts, WorkerAborts, Abort
  <2>1. TypeOK'
    BY <1>1 DEF TypeOK, handleVars, clientVars
  <2>2. LastInv'
    BY <1>1, PastGrows DEF TypeOK, Past, handleVars
  <2>3. BusyInv'
    BY <1>1 DEF BusyInv
  <2> QED
    BY <2>1, <2>2, <2>3
<1>2. CASE \/ \E r \in pending : Process(w, r)
           \/ CallHandler(w) \/ Send(w) \/ SendFails(w)
  <2> USE DEF Process, CallHandler, Send, SendFails, WorkerGoes
  <2>1. PICK f \in {"idle", "handler", "send"}, t \in {"idle", "handler", "send"} :
          WorkerGoes(w, f, t)
    BY <1>2
  <2>2. wpc' \in [Workers -> {"idle", "handler", "send", "aborted"}]
    BY <2>1 DEF TypeOK
  <2>3. \A r \in Requests : Found(r) \in Conns \union {NoConn}
    BY DEF Found, TypeOK, Requests
  <2>4. pending' \subseteq Requests /\ wreq' \in [Workers -> Requests \union {NoRequest}]
    <3>1. CASE \E r \in pending : Process(w, r)
      <4>1. PICK r \in pending : pending' = pending \ {r} /\ wreq' = [wreq EXCEPT ![w] = r]
        BY <3>1
      <4> QED
        BY <4>1 DEF TypeOK
    <3>2. CASE CallHandler(w) \/ Send(w) \/ SendFails(w)
      <4>1. pending' = pending /\ (wreq' = wreq \/ wreq' = [wreq EXCEPT ![w] = NoRequest])
        BY <3>2
      <4> QED
        BY <4>1 DEF TypeOK
    <3> QED
      BY <1>2, <3>1, <3>2
  <2>5. wpc[w] \in {"handler", "send"} => wreq[w] \in Requests /\ wsock[w] \in Conns
    BY DEF BusyInv
  <2>6. wsock' \in [Workers -> Conns \union {NoConn}]
    BY <1>2, <2>3, <2>5 DEF TypeOK
  <2>7. answers' \subseteq [request : Requests, to : Conns]
    BY <1>2, <2>5 DEF TypeOK
  <2>8. TypeOK'
    BY <2>1, <2>2, <2>4, <2>6, <2>7 DEF TypeOK, handleVars, sessionVars, clientVars
  <2>9. LastInv'
    BY <2>1 DEF LastInv, Past, handleVars, sessionVars
  <2>10. BusyInv'
    <3> SUFFICES ASSUME NEW v \in Workers, wpc'[v] \in {"handler", "send"}
                 PROVE  wreq'[v] \in Requests /\ wsock'[v] \in Conns
      BY DEF BusyInv
    <3>1. CASE v # w
      BY <1>2, <3>1 DEF TypeOK, BusyInv
    <3>2. CASE v = w
      BY <1>2, <2>3, <2>5, <3>2 DEF TypeOK
    <3> QED
      BY <3>1, <3>2
  <2> QED
    BY <2>8, <2>9, <2>10
<1> QED
  BY <1>1, <1>2 DEF WorkerStep

(* The inductive type invariant: types, lastHandle counted by the sessions  *)
(* that have a handle, and busy workers with a request.                     *)
LEMMA TypeInvariance == Spec => []TypeInv
<1>1. Init => TypeInv
  <2> SUFFICES ASSUME Init PROVE TypeInv
    OBVIOUS
  <2> USE DEF Init
  <2>1. \A c \in Conns : 0 \in Handles
    <3>1. Cardinality(Conns) \in Nat /\ (\A c \in Conns : Cardinality(Conns) # 0)
      BY ServerAssumption, FS_CardinalityType, FS_EmptySet
    <3> QED
      BY <3>1 DEF Handles
  <2>2. TypeOK
    <3>1. lastHandle \in 0 .. Cardinality(Conns) /\ freeHandles \in Seq(Handles)
      BY PastBound
    <3>2. sent \in [Conns -> 0 .. MaxPackets] /\ unread \in [Conns -> Seq(Packets)]
      BY ServerAssumption
    <3>3. handle \in [Conns -> Handles]
      BY <2>1
    <3> QED
      BY <3>1, <3>2, <3>3 DEF TypeOK, Adding
  <2>3. LastInv
    BY PastBound DEF LastInv
  <2> QED
    BY <2>2, <2>3 DEF TypeInv, BusyInv
<1>2. TypeInv /\ [Next]_vars => TypeInv'
  <2> SUFFICES ASSUME TypeInv, [Next]_vars PROVE TypeInv'
    OBVIOUS
  <2>1. ASSUME NEW c \in Conns, Accept(c) PROVE TypeInv'
    <3>1. TypeOK'
      BY <2>1 DEF TypeInv, Accept, Enters, TypeOK, handleVars, workerVars, Adding
    <3>2. LastInv'
      BY <2>1, PastGrows DEF TypeInv, Accept, TypeOK, Past, handleVars
    <3> QED
      BY <2>1, <3>1, <3>2 DEF TypeInv, BusyInv, Accept, workerVars
  <2>2. ASSUME NEW c \in Conns, ClientSends(c) \/ ClientCloses(c) PROVE TypeInv'
    <3>1. sent' \in [Conns -> 0 .. MaxPackets] /\ unread' \in [Conns -> Seq(Packets)]
          /\ remote' \in [Conns -> {"none", "open", "closed", "reset", "dropped"}]
          /\ overrun' \subseteq Requests
      <4>1. CASE ClientSends(c)
        <5>1. sent[c] + 1 \in 1 .. MaxPackets /\ sent[c] + 1 \in 0 .. MaxPackets
          BY <4>1, ServerAssumption DEF TypeInv, ClientSends, TypeOK
        <5>2. Append(unread[c], sent[c] + 1) \in Seq(Packets)
          BY <5>1 DEF TypeInv, TypeOK, Packets
        <5>3. [packet |-> sent[c] + 1, from |-> c] \in Requests
          BY <5>1 DEF Packets, Requests
        <5> QED
          BY <4>1, <5>1, <5>2, <5>3 DEF TypeInv, ClientSends, TypeOK
      <4>2. CASE ClientCloses(c)
        BY <4>2 DEF TypeInv, ClientCloses, TypeOK
      <4> QED
        BY <2>2, <4>1, <4>2
    <3> QED
      BY <2>2, <3>1 DEF TypeInv, TypeOK, LastInv, Past, BusyInv, ClientSends, ClientCloses,
                        handleVars, sessionVars, workerVars
  <2>3. CASE Shutdown
    BY <2>3 DEF TypeInv, TypeOK, LastInv, Past, BusyInv, Shutdown,
                handleVars, workerVars, clientVars
  <2>4. CASE UNCHANGED vars
    BY <2>4 DEF TypeInv, TypeOK, LastInv, Past, BusyInv, vars,
                handleVars, sessionVars, workerVars, clientVars
  <2> QED
    BY <2>1, <2>2, <2>3, <2>4, SessionType, WorkerType DEF Next
<1> QED
  BY <1>1, <1>2, PTL DEF Spec

(* Every variable keeps its type, for any connections and workers: no race  *)
(* of sessions counts lastHandle past the number of connections.            *)
THEOREM TypeCorrect == Spec => []TypeOK
<1>1. TypeInv => TypeOK
  BY DEF TypeInv
<1> QED
  BY <1>1, TypeInvariance, PTL

-----------------------------------------------------------------------------
(* Handles are exclusive. *)

(* Nothing is lost when a session does not move, or only ends.              *)
LEMMA HandleFrame ==
  ASSUME HandleInv, raced => raced', UNCHANGED <<handleVars, handle>>,
         \A c \in Conns : spc'[c] = spc[c] \/ spc'[c] \in {"ended", "aborted"}
  PROVE  HandleInv'
<1> SUFFICES ASSUME ~raced' PROVE FreeInv' /\ SessionInv'
  BY DEF HandleInv
<1>1. FreeInv /\ SessionInv
  BY DEF HandleInv
<1>2. FreeInv'
  BY <1>1 DEF FreeInv, handleVars
<1>3. \A c \in Conns : Inside(c)' => Inside(c)
  BY DEF Inside, Adding, Removing
<1>4. \A h : Owned(h) => Owned(h)'
  BY DEF Owned, handleVars
<1>5. SessionInv'
  BY <1>1, <1>3, <1>4 DEF SessionInv, handleVars
<1> QED
  BY <1>2, <1>5

(* A session that is alone inside need only look at itself, and leave the   *)
(* entries of those that serve their clients alone.                         *)
LEMMA Alone ==
  ASSUME SessionInv, NEW c \in Conns,
         \A d \in Conns \ {c} : /\ ~Inside(d)
                                /\ spc'[d] = spc[d] /\ handle'[d] = handle[d]
                                /\ spc[d] = "poll" => sockets'[handle[d]] = d,
         spc'[c] \in {"poll", "erase"} => sockets'[handle'[c]] = c,
         spc'[c] \in {"front", "pop"} => freeHandles' # <<>>,
         spc'[c] = "pop" => handle'[c] = Head(freeHandles'),
         spc'[c] = "store" => handle'[c] = lastHandle',
         spc'[c] \in {"insert", "push"} => Owned(handle[c])'
  PROVE  SessionInv'
<1>1. \A d \in Conns \ {c} : ~Inside(d)'
  BY DEF Inside
<1>2. \A d, e \in Conns : Inside(d)' /\ Inside(e)' => d = e
  BY <1>1
<1>3. \A d \in Conns \ {c} : spc'[d] \notin Adding \union Removing
  BY DEF Inside
<1> QED
  BY <1>2, <1>3 DEF SessionInv, Adding, Removing

(* Accepting a connection or taking a step of addSocket or removeSocket     *)
(* keeps handles exclusive while no two sessions race.                      *)
LEMMA HandleStep ==
  ASSUME TypeOK, HandleInv, NEW c \in Conns, Accept(c) \/ SessionStep(c)
  PROVE  HandleInv'
<1>1. CASE Receive(c) \/ ReceiveThrows(c) \/ ParseThrows(c) \/ NothingToErase(c) \/ NothingFree(c)
  <2>1. /\ raced => raced'
        /\ UNCHANGED <<handleVars, handle>>
        /\ \A d \in Conns : spc'[d] = spc[d] \/ spc'[d] \in {"ended", "aborted"}
    BY <1>1 DEF Receive, ReceiveThrows, ParseThrows, NothingToErase, NothingFree, Abort,
                SessionGoes, TypeOK, handleVars
  <2> QED
    BY <2>1, HandleFrame
<1>2. CASE \/ Accept(c) \/ SeeFree(c) \/ Front(c) \/ Pop(c) \/ LoadHandle(c) \/ StoreHandle(c)
           \/ InsertSocket(c) \/ SeeClosed(c) \/ Erase(c) \/ Push(c)
  <2> SUFFICES ASSUME ~raced' PROVE FreeInv' /\ SessionInv'
    BY DEF HandleInv
  <2>1. ~raced /\ \A d \in Conns \ {c} : ~Inside(d)
    <3>1. CASE Accept(c) \/ SeeClosed(c)
      BY <3>1 DEF Accept, SeeClosed, Enters, Inside
    <3>2. CASE ~(Accept(c) \/ SeeClosed(c))
      <4>1. ~raced /\ Inside(c)
        BY <1>2, <3>2 DEF SeeFree, Front, Pop, LoadHandle, StoreHandle, InsertSocket, Erase, Push,
                          SessionGoes, Inside, Adding, Removing
      <4> QED
        BY <4>1 DEF HandleInv, SessionInv
    <3> QED
      BY <3>1, <3>2
  <2>2. FreeInv /\ SessionInv
    BY <2>1 DEF HandleInv
  <2>3. \A d \in Conns \ {c} : ~Inside(d) /\ spc'[d] = spc[d] /\ handle'[d] = handle[d]
    BY <1>2, <2>1 DEF Accept, SeeFree, Front, Pop, LoadHandle, StoreHandle, InsertSocket, SeeClosed,
                      Erase, Push, SessionGoes, TypeOK
  <2>4. \A d \in Conns : spc[d] = "poll" => sockets[handle[d]] = d
    BY <2>2 DEF SessionInv
  <2>5. handle[c] \in Handles /\ c # NoConn
    BY ServerAssumption DEF TypeOK
  <2>6. CASE Accept(c) \/ SeeFree(c) \/ LoadHandle(c) \/ SeeClosed(c)
    <3>1. UNCHANGED handleVars
      BY <2>6 DEF Accept, SeeFree, LoadHandle, SeeClosed
    <3>2. FreeInv'
      BY <2>2, <3>1 DEF FreeInv, handleVars
    <3>3. \/ spc'[c] = "empty"
          \/ spc'[c] = "front" /\ freeHandles # <<>>
          \/ spc'[c] = "load"
          \/ spc'[c] = "store" /\ handle'[c] = lastHandle
          \/ spc'[c] = "erase" /\ sockets[handle'[c]] = c
      BY <2>4, <2>6 DEF Accept, SeeFree, LoadHandle, SeeClosed, SessionGoes, TypeOK
    <3>4. SessionInv'
      BY <2>2, <2>3, <2>4, <3>1, <3>3, Alone DEF handleVars
    <3> QED
      BY <3>2, <3>4
  <2>7. CASE Front(c)
    <3>1. FreeInv'
      BY <2>2, <2>7 DEF FreeInv, Front, handleVars
    <3>2. spc'[c] = "pop" /\ freeHandles' # <<>> /\ handle'[c] = Head(freeHandles')
          /\ sockets' = sockets
      BY <2>7 DEF Front, SessionGoes, TypeOK, handleVars
    <3>3. SessionInv'
      BY <2>2, <2>3, <2>4, <3>2, Alone
    <3> QED
      BY <3>1, <3>3
  <2>8. CASE Pop(c)
    <3>1. /\ freeHandles # <<>> /\ freeHandles' = Tail(freeHandles)
          /\ sockets' = sockets /\ lastHandle' = lastHandle
          /\ spc'[c] = "insert" /\ handle[c] = freeHandles[1] /\ handle' = handle
      BY <2>2, <2>8 DEF Pop, SessionGoes, SessionInv, TypeOK
    <3>2. /\ Len(freeHandles) \in Nat \ {0}
          /\ Len(freeHandles') = Len(freeHandles) - 1
          /\ \A i \in 1 .. Len(freeHandles') :
               i + 1 \in 1 .. Len(freeHandles) /\ freeHandles'[i] = freeHandles[i + 1]
      BY <3>1 DEF TypeOK
    <3>3. FreeInv'
      <4>1. \A i \in 1 .. Len(freeHandles') :
              freeHandles'[i] < lastHandle' /\ sockets'[freeHandles'[i]] = NoConn
        BY <2>2, <3>1, <3>2 DEF FreeInv
      <4>2. \A i, j \in 1 .. Len(freeHandles') : freeHandles'[i] = freeHandles'[j] => i = j
        BY <2>2, <3>2 DEF FreeInv
      <4> QED
        BY <2>2, <3>1, <4>1, <4>2 DEF FreeInv
    <3>4. Owned(handle[c])'
      <4>1. 1 \in 1 .. Len(freeHandles)
        BY <3>2
      <4>2. sockets[handle[c]] = NoConn /\ handle[c] < lastHandle
        BY <2>2, <3>1, <4>1 DEF FreeInv
      <4>3. \A i \in 1 .. Len(freeHandles') : freeHandles'[i] # handle[c]
        <5> TAKE i \in 1 .. Len(freeHandles')
        <5>1. i + 1 \in 1 .. Len(freeHandles) /\ i + 1 # 1 /\ freeHandles'[i] = freeHandles[i + 1]
          BY <3>2
        <5> QED
          BY <2>2, <3>1, <4>1, <5>1 DEF FreeInv
      <4> QED
        BY <3>1, <4>2, <4>3 DEF Owned
    <3>5. SessionInv'
      BY <2>2, <2>3, <2>4, <3>1, <3>4, Alone
    <3> QED
      BY <3>3, <3>5
  <2>9. CASE StoreHandle(c)
    <3>1. /\ handle[c] = lastHandle /\ lastHandle' = lastHandle + 1 /\ lastHandle \in Nat
          /\ sockets' = sockets /\ freeHandles' = freeHandles /\ handle' = handle
          /\ spc'[c] = "insert"
      BY <2>2, <2>9, PastBound DEF StoreHandle, SessionGoes, SessionInv, TypeOK
    <3>2. \A i \in 1 .. Len(freeHandles) : freeHandles[i] \in Nat
      BY PastBound DEF TypeOK, Handles
    <3>3. FreeInv'
      BY <2>2, <3>1, <3>2, PastBound DEF FreeInv, Handles
    <3>4. Owned(handle[c])'
      BY <2>2, <2>5, <3>1, <3>2 DEF FreeInv, Owned, TypeOK
    <3>5. SessionInv'
      BY <2>2, <2>3, <2>4, <3>1, <3>4, Alone
    <3> QED
      BY <3>3, <3>5
  <2>10. CASE InsertSocket(c)
    <3>1. /\ Owned(handle[c]) /\ spc'[c] = "poll" /\ handle' = handle
          /\ sockets' = [sockets EXCEPT ![handle[c]] = c]
          /\ freeHandles' = freeHandles /\ lastHandle' = lastHandle
      BY <2>2, <2>10 DEF InsertSocket, SessionGoes, SessionInv, Owned, TypeOK
    <3>2. FreeInv'
      BY <2>2, <3>1 DEF FreeInv, Owned, TypeOK
    <3>3. sockets'[handle[c]] = c
          /\ \A d \in Conns \ {c} : spc[d] = "poll" => sockets'[handle[d]] = d
      <4>1. \A d \in Conns : spc[d] = "poll" => handle[d] # handle[c] /\ handle[d] \in Handles
        BY <2>4, <3>1, ServerAssumption DEF Owned, TypeOK
      <4> QED
        BY <2>4, <2>5, <3>1, <4>1 DEF TypeOK
    <3>4. SessionInv'
      BY <2>2, <2>3, <3>1, <3>3, Alone
    <3> QED
      BY <3>2, <3>4
  <2>11. CASE Erase(c)
    <3>1. /\ sockets[handle[c]] = c /\ spc'[c] = "push" /\ handle' = handle
          /\ sockets' = [sockets EXCEPT ![handle[c]] = NoConn]
          /\ freeHandles' = freeHandles /\ lastHandle' = lastHandle
      BY <2>2, <2>11 DEF Erase, SessionGoes, SessionInv, TypeOK
    <3>2. FreeInv'
      BY <2>2, <3>1 DEF FreeInv, TypeOK
    <3>3. Owned(handle[c])'
      BY <2>2, <2>5, <3>1 DEF FreeInv, Owned, TypeOK
    <3>4. \A d \in Conns \ {c} : spc[d] = "poll" => sockets'[handle[d]] = d
      BY <2>4, <3>1 DEF TypeOK
    <3>5. SessionInv'
      BY <2>2, <2>3, <3>1, <3>3, <3>4, Alone
    <3> QED
      BY <3>2, <3>5
  <2>12. CASE Push(c)
    <3>1. /\ Owned(handle[c]) /\ spc'[c] = "ended"
          /\ freeHandles' = Append(freeHandles, handle[c])
          /\ sockets' = sockets /\ lastHandle' = lastHandle
      BY <2>2, <2>12 DEF Push, SessionGoes, SessionInv, TypeOK
    <3>2. /\ Len(freeHandles) \in Nat
          /\ Len(freeHandles') = Len(freeHandles) + 1
          /\ freeHandles'[Len(freeHandles) + 1] = handle[c]
          /\ \A i \in 1 .. Len(freeHandles) : freeHandles'[i] = freeHandles[i]
      BY <2>5, <3>1 DEF TypeOK
    <3>3. \A i \in 1 .. Len(freeHandles') : i \in 1 .. Len(freeHandles) \/ i = Len(freeHandles) + 1
      BY <3>2
    <3>4. FreeInv'
      BY <2>2, <3>1, <3>2, <3>3 DEF FreeInv, Owned
    <3>5. SessionInv'
      BY <2>2, <2>3, <2>4, <3>1, Alone
    <3> QED
      BY <3>4, <3>5
  <2> QED
    BY <1>2, <2>6, <2>7, <2>8, <2>9, <2>10, <2>11, <2>12
<1> QED
  BY <1>1, <1>2 DEF SessionStep

(* While no two sessions have raced, handles are exclusive at every step.   *)
LEMMA HandleInvariance == Spec => []HandleInv
<1>1. Init => HandleInv
  <2> SUFFICES ASSUME Init PROVE FreeInv /\ SessionInv
    BY DEF HandleInv
  <2> USE DEF Init
  <2>1. FreeInv
    BY DEF FreeInv
  <2>2. SessionInv
    BY DEF SessionInv, Inside, Adding, Removing
  <2> QED
    BY <2>1, <2>2
<1>2. TypeOK /\ HandleInv /\ [Next]_vars => HandleInv'
  <2> SUFFICES ASSUME TypeOK, HandleInv, [Next]_vars PROVE HandleInv'
    OBVIOUS
  <2>1. ASSUME NEW w \in Workers, WorkerStep(w) PROVE HandleInv'
    <3>1. /\ raced => raced'
          /\ UNCHANGED <<handleVars, handle>>
          /\ \A d \in Conns : spc'[d] = spc[d] \/ spc'[d] \in {"ended", "aborted"}
      BY <2>1 DEF WorkerStep, Process, ProcessNull, CallHandler, CallAborts, Send, SendFails,
                  SendAborts, WorkerGoes, WorkerAborts, Abort, handleVars, sessionVars
    <3> QED
      BY <3>1, HandleFrame
  <2>2. ASSUME NEW c \in Conns, ClientSends(c) \/ ClientCloses(c) PROVE HandleInv'
    BY <2>2, HandleFrame DEF ClientSends, ClientCloses, handleVars, sessionVars
  <2>3. CASE Shutdown \/ UNCHANGED vars
    BY <2>3, HandleFrame DEF Shutdown, vars, handleVars, sessionVars
  <2> QED
    BY <2>1, <2>2, <2>3, HandleStep DEF Next
<1> QED
  BY <1>1, <1>2, TypeCorrect, PTL DEF Spec

(* As long as no two sessions enter or leave at once, a session that serves *)
(* its client is found under its handle, and no handle is free and in use,  *)
(* or free twice, for any number of connections.                            *)
THEOREM HandlesExclusive == Spec => []HandlesAreExclusive
<1>1. TypeOK /\ HandleInv => HandlesAreExclusive
  BY DEF HandleInv, FreeInv, SessionInv, HandlesAreExclusive
<1> QED
  BY <1>1, TypeCorrect, HandleInvariance, PTL

-----------------------------------------------------------------------------
(* Requests are served. *)

(* A step that reads and sends nothing keeps ServeInv if sessions only go   *)
(* on, and what was served before is served after.                          *)
LEMMA ServeFrame ==
  ASSUME ServeInv, raced => raced', UNCHANGED <<sent, unread>>,
         \A w \in Workers : wpc'[w] = "idle" => wreq'[w] = NoRequest,
         \A c \in Conns : spc'[c] \in Adding \union {"none"} => spc[c] \in Adding \union {"none"},
         \A c \in Conns : spc'[c] = "poll" /\ remote'[c] = "open" =>
           spc[c] \in Adding \/ (spc[c] = "poll" /\ remote[c] = "open"),
         \A c \in Conns, i \in Packets :
           ~raced' /\ spc'[c] = "poll" /\ remote'[c] = "open" /\ Served(c, i) => Served(c, i)'
  PROVE  ServeInv'
<1>1. \A c \in Conns, i \in Packets : Unread(c, i)' <=> Unread(c, i)
  BY DEF Unread
<1> QED
  BY <1>1 DEF ServeInv

(* What is left of a queue when its first element is taken.                 *)
LEMMA TailElements ==
  ASSUME NEW S, NEW s \in Seq(S), s # <<>>
  PROVE  /\ Len(s) \in Nat \ {0}
         /\ Len(Tail(s)) = Len(s) - 1
         /\ \A k \in 1 .. Len(Tail(s)) : k + 1 \in 1 .. Len(s) /\ Tail(s)[k] = s[k + 1]
OBVIOUS

(* The steps of a session. *)
LEMMA SessionServes ==
  ASSUME TypeOK, ServeInv, NEW c \in Conns, Accept(c) \/ SessionStep(c)
  PROVE  ServeInv'
<1>1. CASE NothingFree(c)
  <2>1. /\ UNCHANGED <<raced, sent, unread>>
        /\ \A w \in Workers : wpc'[w] = "aborted"
        /\ \A d \in Conns : spc'[d] = "aborted"
    BY <1>1 DEF NothingFree, Abort, clientVars
  <2> QED
    BY <2>1, ServeFrame DEF Adding
<1>2. CASE Receive(c)
  <2> DEFINE r == [packet |-> unread[c][1], from |-> c]
  <2>1. /\ spc' = spc /\ spc[c] = "poll" /\ unread[c] # <<>>
        /\ UNCHANGED <<raced, wpc, wreq, wsock, answers, remote, sent>>
        /\ unread' = [unread EXCEPT ![c] = Tail(unread[c])]
        /\ pending' = pending \union {r}
    BY <1>2 DEF Receive, ReadsPacket, NextRequest, SessionGoes, TypeOK
  <2>2. \A d \in Conns, i \in Packets : Served(d, i) => Served(d, i)'
    BY <2>1 DEF Served
  <2>3. \A d \in Conns \ {c}, i \in Packets : Unread(d, i)' <=> Unread(d, i)
    BY <2>1 DEF Unread, TypeOK
  <2>4. \A i \in Packets : Unread(c, i) => Unread(c, i)' \/ Served(c, i)'
    <3> SUFFICES ASSUME NEW i \in Packets, NEW j \in 1 .. Len(unread[c]), unread[c][j] = i
                 PROVE  Unread(c, i)' \/ Served(c, i)'
      BY DEF Unread
    <3>1. CASE j = 1
      BY <2>1, <3>1 DEF Served
    <3>2. CASE j # 1
      <4>1. unread[c] \in Seq(Packets) /\ unread'[c] = Tail(unread[c])
        BY <2>1 DEF TypeOK
      <4>2. /\ Len(unread[c]) \in Nat \ {0}
            /\ Len(unread'[c]) = Len(unread[c]) - 1
            /\ \A k \in 1 .. Len(unread'[c]) : unread'[c][k] = unread[c][k + 1]
        <5>1. unread[c] # <<>>
          BY <2>1
        <5> QED
          BY <4>1, <5>1, TailElements
      <4>3. j - 1 \in 1 .. Len(unread'[c]) /\ unread'[c][j - 1] = i
        BY <3>2, <4>2
      <4> QED
        BY <4>3 DEF Unread
    <3> QED
      BY <3>1, <3>2
  <2> QED
    BY <2>1, <2>2, <2>3, <2>4 DEF ServeInv, Adding
<1>3. CASE \/ Accept(c) \/ SeeFree(c) \/ Front(c) \/ Pop(c) \/ LoadHandle(c) \/ StoreHandle(c)
           \/ InsertSocket(c) \/ SeeClosed(c) \/ ReceiveThrows(c) \/ Erase(c)
           \/ NothingToErase(c) \/ Push(c)
  <2> USE DEF Accept, SeeFree, Front, Pop, LoadHandle, StoreHandle, InsertSocket, SeeClosed,
              ReceiveThrows, Erase, NothingToErase, Push, SessionGoes, workerVars
  <2>1. UNCHANGED <<pending, wreq, wsock, answers, sent, unread>>
    BY <1>3
  <2>2. (raced => raced') /\ wpc' = wpc
    <3>1. CASE Accept(c) \/ SeeClosed(c)
      BY <3>1 DEF Enters
    <3>2. CASE ~(Accept(c) \/ SeeClosed(c))
      BY <1>3, <3>2
    <3> QED
      BY <3>1, <3>2
  <2>3. \A d \in Conns :
          /\ spc'[d] \in Adding \union {"none"} => spc[d] \in Adding \union {"none"}
          /\ spc'[d] = "poll" /\ remote'[d] = "open" =>
               spc[d] \in Adding \/ (spc[d] = "poll" /\ remote[d] = "open")
    BY <1>3 DEF TypeOK, Adding
  <2>4. \A d \in Conns, i \in Packets : Served(d, i) => Served(d, i)'
    BY <2>1 DEF Served
  <2> QED
    BY <2>1, <2>2, <2>3, <2>4, ServeFrame DEF ServeInv
<1>4. CASE ParseThrows(c)
  <2>1. /\ spc'[c] = "ended" /\ spc' = [spc EXCEPT ![c] = "ended"]
        /\ UNCHANGED <<raced, wpc, wreq, wsock, pending, answers, sent>>
        /\ \A d \in Conns \ {c} :
             spc'[d] = spc[d] /\ remote'[d] = remote[d] /\ unread'[d] = unread[d]
    BY <1>4 DEF ParseThrows, ReadsPacket, workerVars, TypeOK
  <2>2. \A d \in Conns \ {c}, i \in Packets :
          /\ Served(d, i)' <=> Served(d, i)
          /\ Unread(d, i)' <=> Unread(d, i)
    BY <2>1 DEF Served, Unread
  <2> QED
    BY <2>1, <2>2 DEF ServeInv, Adding
<1> QED
  BY <1>1, <1>2, <1>3, <1>4 DEF SessionStep

(* The steps of a worker: it answers the client whose request it has,       *)
(* because the handle of a client that is served leads to that client.      *)
LEMMA WorkerServes ==
  ASSUME TypeInv, HandleInv, ServeInv, NEW w \in Workers, WorkerStep(w)
  PROVE  ServeInv'
<1>1. CASE \/ \E r \in pending : ProcessNull(w, r)
           \/ CallAborts(w) \/ SendAborts(w)
  <2>1. /\ UNCHANGED <<raced, sent, unread>>
        /\ \A v \in Workers : wpc'[v] = "aborted"
        /\ \A d \in Conns : spc'[d] = "aborted"
    BY <1>1 DEF ProcessNull, CallAborts, SendAborts, WorkerAborts, Abort, clientVars
  <2> QED
    BY <2>1, ServeFrame DEF Adding
<1>2. CASE \/ \E r \in pending : Process(w, r)
           \/ CallHandler(w) \/ Send(w) \/ SendFails(w)
  <2> USE DEF Process, CallHandler, Send, SendFails, WorkerGoes
  <2>1. UNCHANGED <<raced, spc, handle, sockets, remote, sent, unread>>
    BY <1>2 DEF handleVars, sessionVars, clientVars
  <2>2. \A v \in Workers : wpc'[v] = "idle" => wreq'[v] = NoRequest
    BY <1>2 DEF TypeInv, TypeOK, ServeInv
  <2>3. ASSUME NEW c \in Conns, NEW i \in Packets,
               ~raced, spc[c] = "poll", remote[c] = "open", Served(c, i)
        PROVE  Served(c, i)'
    <3> DEFINE r == [packet |-> i, from |-> c]
    <3>1. Found(r) = c /\ r # NoRequest /\ r.from = c
      BY <2>3, ServerAssumption DEF Found, HandleInv, SessionInv, NoRequest
    <3>2. wpc[w] = "idle" => wreq[w] # r
      BY <3>1 DEF ServeInv
    <3>3. \A v \in Workers \ {w} : wreq'[v] = wreq[v] /\ wsock'[v] = wsock[v]
      BY <1>2 DEF TypeInv, TypeOK
    <3>4. answers \subseteq answers'
      BY <1>2
    <3>5. CASE \E v \in Workers \ {w} : wreq[v] = r /\ wsock[v] = c
      BY <3>3, <3>5 DEF Served
    <3>6. CASE [request |-> r, to |-> c] \in answers
      BY <3>4, <3>6 DEF Served
    <3>7. CASE r \in pending
      <4>1. CASE Process(w, r)
        <5>1. wreq'[w] = r /\ wsock'[w] = c
          BY <3>1, <4>1 DEF TypeInv, TypeOK
        <5> QED
          BY <5>1 DEF Served
      <4>2. CASE ~Process(w, r)
        <5>1. r \in pending'
          BY <1>2, <3>7, <4>2
        <5> QED
          BY <5>1 DEF Served
      <4> QED
        BY <4>1, <4>2
    <3>8. CASE wreq[w] = r /\ wsock[w] = c
      <4>1. CASE CallHandler(w)
        <5>1. wreq'[w] = r /\ wsock'[w] = c
          BY <3>1, <3>8, <4>1 DEF TypeInv, TypeOK
        <5> QED
          BY <5>1 DEF Served
      <4>2. CASE Send(w)
        BY <3>8, <4>2 DEF Served
      <4>3. ~SendFails(w) /\ \A q \in pending : ~Process(w, q)
        BY <2>3, <3>2, <3>8
      <4> QED
        BY <1>2, <4>1, <4>2, <4>3
    <3> QED
      BY <2>3, <3>5, <3>6, <3>7, <3>8 DEF Served
  <2> QED
    BY <2>1, <2>2, <2>3, ServeFrame
<1> QED
  BY <1>1, <1>2 DEF WorkerStep

(* Every packet is unread, waiting, with a worker or answered.              *)
LEMMA ServeInvariance == Spec => []ServeInv
<1>1. Init => ServeInv
  BY DEF Init, ServeInv, Packets, Adding
<1>2. TypeInv /\ HandleInv /\ ServeInv /\ [Next]_vars => ServeInv'
  <2> SUFFICES ASSUME TypeInv, HandleInv, ServeInv, [Next]_vars PROVE ServeInv'
    OBVIOUS
  <2>1. ASSUME NEW c \in Conns, ClientSends(c) PROVE ServeInv'
    <3>1. /\ UNCHANGED <<raced, spc, pending, wpc, wreq, wsock, answers, remote>>
          /\ sent[c] \in Nat /\ unread[c] \in Seq(Packets)
          /\ sent' = [sent EXCEPT ![c] = sent[c] + 1]
          /\ unread' = [unread EXCEPT ![c] = Append(unread[c], sent[c] + 1)]
      BY <2>1 DEF TypeInv, TypeOK, ClientSends, sessionVars, workerVars
    <3>2. \A d \in Conns, i \in Packets : Served(d, i)' <=> Served(d, i)
      BY <3>1 DEF Served
    <3>3. \A d \in Conns, i \in Packets : Unread(d, i) => Unread(d, i)'
      <4> SUFFICES ASSUME NEW d \in Conns, NEW i \in Packets,
                          NEW j \in 1 .. Len(unread[d]), unread[d][j] = i
                   PROVE  j \in 1 .. Len(unread'[d]) /\ unread'[d][j] = i
        BY DEF Unread
      <4>1. CASE d = c
        <5>1. unread'[c] = Append(unread[c], sent[c] + 1)
          BY <3>1 DEF TypeInv, TypeOK
        <5> QED
          BY <3>1, <4>1, <5>1
      <4>2. CASE d # c
        BY <3>1, <4>2 DEF TypeInv, TypeOK
      <4> QED
        BY <4>1, <4>2
    <3>4. \A i \in Packets : i <= sent'[c] => i <= sent[c] \/ Unread(c, i)'
      <4>1. unread'[c] = Append(unread[c], sent[c] + 1) /\ sent'[c] = sent[c] + 1
        BY <3>1 DEF TypeInv, TypeOK
      <4>2. Len(unread[c]) + 1 \in 1 .. Len(unread'[c])
            /\ unread'[c][Len(unread[c]) + 1] = sent[c] + 1
        BY <3>1, <4>1
      <4>3. \A i \in Packets : i <= sent[c] + 1 => i <= sent[c] \/ i = sent[c] + 1
        BY <3>1 DEF Packets
      <4> QED
        BY <4>1, <4>2, <4>3 DEF Unread
    <3>5. \A d \in Conns \ {c} : sent'[d] = sent[d]
      BY <3>1 DEF TypeInv, TypeOK
    <3> QED
      BY <3>1, <3>2, <3>3, <3>4, <3>5 DEF ServeInv
  <2>2. ASSUME NEW c \in Conns, ClientCloses(c) PROVE ServeInv'
    <3>1. /\ UNCHANGED <<raced, spc, pending, wpc, wreq, wsock, answers, sent, unread>>
          /\ \A d \in Conns : remote'[d] = "open" => remote[d] = "open"
      BY <2>2 DEF TypeInv, TypeOK, ClientCloses, sessionVars, workerVars
    <3>2. \A d \in Conns, i \in Packets : Served(d, i)' <=> Served(d, i)
      BY <3>1 DEF Served
    <3> QED
      BY <3>1, <3>2, ServeFrame DEF ServeInv
  <2>3. CASE Shutdown \/ UNCHANGED vars
    <3>1. UNCHANGED <<raced, spc, pending, wpc, wreq, wsock, answers, remote, sent, unread>>
      BY <2>3 DEF Shutdown, vars, sessionVars, workerVars, clientVars
    <3>2. \A d \in Conns, i \in Packets : Served(d, i)' <=> Served(d, i)
      BY <3>1 DEF Served
    <3> QED
      BY <3>1, <3>2, ServeFrame DEF ServeInv
  <2> QED
    BY <2>1, <2>2, <2>3, SessionServes, WorkerServes DEF Next, TypeInv
<1> QED
  BY <1>1, <1>2, TypeInvariance, HandleInvariance, PTL DEF Spec

(* The request of a client that is still connected waits, is with a worker  *)
(* that will answer that client, or was answered, for any number of         *)
(* connections and workers, as long as no two sessions race.                *)
THEOREM AskersServed == Spec => []AskersAreServed
<1>1. ServeInv => AskersAreServed
  BY DEF ServeInv, AskersAreServed, Unread, Served
<1> QED
  BY <1>1, ServeInvariance, PTL

-----------------------------------------------------------------------------
(* Server implements RequestPool: sessions and workers use the Dispatcher   *)
(* as a pool, whether sessions race or not.                                 *)

(* The packets that a session has still to read were sent, each once.       *)
ReadInv ==
  \A c \in Conns :
    /\ \A j \in 1 .. Len(unread[c]) : unread[c][j] <= sent[c]
    /\ \A j, k \in 1 .. Len(unread[c]) : unread[c][j] = unread[c][k] => j = k

(* The requests that workers have. *)
Taken == {wreq[w] : w \in Workers}

(* A request is of a packet that was read and parsed, and waits or is with  *)
(* one worker.                                                              *)
PoolInv ==
  /\ ReadInv
  /\ \A w \in Workers :
       /\ wpc[w] = "idle" => wreq[w] = NoRequest
       /\ wpc[w] \in {"handler", "send"} => wreq[w] \in Requests
       /\ wreq[w] \notin pending
  /\ \A v, w \in Workers : wreq[v] = wreq[w] /\ wreq[v] # NoRequest => v = w
  /\ \A r \in Requests : r \in pending \union Taken => Received(r) /\ r \notin overrun

LEMMA NoRequestIsNone == NoRequest \notin Requests
BY ServerAssumption DEF NoRequest, Requests

(* What is read, and by whom, does not depend on the rest.                  *)
LEMMA ReceivedFrame ==
  ASSUME UNCHANGED <<sent, unread>>
  PROVE  /\ \A r : Received(r)' <=> Received(r)
         /\ ReadInv' <=> ReadInv
BY DEF Received, ReadInv

(* A packet that the client sends is not yet read, and the others are read  *)
(* or not as before.                                                        *)
LEMMA SendReads ==
  ASSUME TypeOK, ReadInv, NEW c \in Conns, ClientSends(c)
  PROVE  /\ ReadInv'
         /\ \A r \in Requests : Received(r)' <=> Received(r)
         /\ \A r \in Requests : Received(r) => (r \in overrun' <=> r \in overrun)
<1> DEFINE n == Len(unread[c])
<1>1. /\ sent' = [sent EXCEPT ![c] = sent[c] + 1]
      /\ unread' = [unread EXCEPT ![c] = Append(unread[c], sent[c] + 1)]
      /\ sent[c] \in Nat /\ n \in Nat
      /\ unread[c] \in Seq(Packets)
  BY DEF ClientSends, TypeOK
<1>2. \A d \in Conns \ {c} : sent'[d] = sent[d] /\ unread'[d] = unread[d]
  BY <1>1 DEF TypeOK
<1>3. sent'[c] = sent[c] + 1 /\ unread'[c] = Append(unread[c], sent[c] + 1)
  BY <1>1 DEF TypeOK
<1>4. /\ Len(unread'[c]) = n + 1
      /\ \A j \in 1 .. n : unread'[c][j] = unread[c][j]
      /\ unread'[c][n + 1] = sent[c] + 1
  BY <1>1, <1>3
<1>5. \A j \in 1 .. n : unread[c][j] \in Nat /\ unread[c][j] <= sent[c]
  <2>1. \A j \in 1 .. n : unread[c][j] \in Packets
    BY <1>1
  <2> QED
    BY <2>1 DEF ReadInv, Packets
<1>6. \A j \in 1 .. n + 1 : j \in 1 .. n \/ j = n + 1
  BY <1>1
<1>7. ReadInv'
  <2> SUFFICES ASSUME NEW d \in Conns
               PROVE  /\ \A j \in 1 .. Len(unread'[d]) : unread'[d][j] <= sent'[d]
                      /\ \A j, k \in 1 .. Len(unread'[d]) :
                           unread'[d][j] = unread'[d][k] => j = k
    BY DEF ReadInv
  <2>1. CASE d # c
    BY <1>2, <2>1 DEF ReadInv
  <2>2. CASE d = c
    <3>1. \A j \in 1 .. n + 1 : unread'[c][j] <= sent'[c]
      BY <1>1, <1>3, <1>4, <1>5, <1>6
    <3>2. \A j, k \in 1 .. n : unread[c][j] = unread[c][k] => j = k
      BY DEF ReadInv
    <3>3. \A j, k \in 1 .. n + 1 : unread'[c][j] = unread'[c][k] => j = k
      BY <1>1, <1>4, <1>5, <1>6, <3>2
    <3> QED
      BY <1>4, <2>2, <3>1, <3>3
  <2> QED
    BY <2>1, <2>2
<1>8. ASSUME NEW r \in Requests PROVE Received(r)' <=> Received(r)
  <2>1. CASE r.from # c
    <3>1. r.from \in Conns \ {c}
      BY <2>1 DEF Requests
    <3> QED
      BY <1>2, <3>1 DEF Received
  <2>2. CASE r.from = c
    <3>1. r.packet \in Nat
      BY DEF Requests, Packets
    <3>2. Received(r)' <=> r.packet <= sent[c] + 1 /\ \A j \in 1 .. n + 1 : unread'[c][j] # r.packet
      BY <1>3, <1>4, <2>2 DEF Received
    <3>3. Received(r) <=> r.packet <= sent[c] /\ \A j \in 1 .. n : unread[c][j] # r.packet
      BY <2>2 DEF Received
    <3>4. 1 .. n \subseteq 1 .. n + 1 /\ n + 1 \in 1 .. n + 1
      BY <1>1
    <3>5. Received(r)' => Received(r)
      <4>1. r.packet <= sent[c] + 1 /\ r.packet # sent[c] + 1 => r.packet <= sent[c]
        BY <1>1, <3>1
      <4> QED
        BY <1>4, <3>2, <3>3, <3>4, <4>1
    <3>6. Received(r) => Received(r)'
      <4>1. r.packet <= sent[c] => r.packet <= sent[c] + 1 /\ r.packet # sent[c] + 1
        BY <1>1, <3>1
      <4> QED
        BY <1>4, <1>6, <3>2, <3>3, <4>1
    <3> QED
      BY <3>5, <3>6
  <2> QED
    BY <2>1, <2>2
<1>9. ASSUME NEW r \in Requests, Received(r) PROVE r \in overrun' <=> r \in overrun
  <2>1. ~([packet |-> sent[c] + 1, from |-> c] = r)
    BY <1>1, <1>9 DEF Received, Requests, Packets
  <2> QED
    BY <2>1 DEF ClientSends
<1> QED
  BY <1>7, <1>8, <1>9

(* The session reads one packet that was not read before.                   *)
LEMMA ReceiveReads ==
  ASSUME TypeOK, ReadInv, NEW c \in Conns, ReadsPacket(c), sent' = sent,
         NEW q \in Requests, q = NextRequest(c)
  PROVE  /\ ReadInv'
         /\ ~Received(q)
         /\ \A r \in Requests : Received(r)' <=> Received(r) \/ r = q
<1> DEFINE n == Len(unread[c])
<1>1. /\ sent' = sent
      /\ unread' = [unread EXCEPT ![c] = Tail(unread[c])]
      /\ unread[c] # <<>> /\ unread[c] \in Seq(Packets)
  BY DEF ReadsPacket, TypeOK
<1>2. \A d \in Conns \ {c} : unread'[d] = unread[d]
  BY <1>1 DEF TypeOK
<1>3. /\ n \in Nat \ {0}
      /\ Len(unread'[c]) = n - 1
      /\ \A k \in 1 .. n - 1 : k + 1 \in 1 .. n /\ unread'[c][k] = unread[c][k + 1]
  <2>1. unread'[c] = Tail(unread[c])
    BY <1>1 DEF TypeOK
  <2> QED
    BY <1>1, <2>1, TailElements
<1>4. q.packet = unread[c][1] /\ q.from = c
  BY <1>1 DEF NextRequest
<1>5. /\ \A j \in 1 .. n : unread[c][j] <= sent[c]
      /\ \A j, k \in 1 .. n : unread[c][j] = unread[c][k] => j = k
  BY DEF ReadInv
<1>6. ReadInv'
  <2> SUFFICES ASSUME NEW d \in Conns
               PROVE  /\ \A j \in 1 .. Len(unread'[d]) : unread'[d][j] <= sent'[d]
                      /\ \A j, k \in 1 .. Len(unread'[d]) :
                           unread'[d][j] = unread'[d][k] => j = k
    BY DEF ReadInv
  <2>1. CASE d # c
    BY <1>1, <1>2, <2>1 DEF ReadInv
  <2>2. CASE d = c
    <3>1. \A j \in 1 .. n - 1 : unread'[c][j] <= sent'[c]
      BY <1>1, <1>3, <1>5
    <3>2. ASSUME NEW j \in 1 .. n - 1, NEW k \in 1 .. n - 1, unread'[c][j] = unread'[c][k]
          PROVE  j = k
      <4>1. unread[c][j + 1] = unread[c][k + 1] /\ j + 1 \in 1 .. n /\ k + 1 \in 1 .. n
        BY <1>3, <3>2
      <4>2. j + 1 = k + 1
        BY <1>5, <4>1
      <4> QED
        BY <4>2
    <3> QED
      BY <1>3, <2>2, <3>1, <3>2
  <2> QED
    BY <2>1, <2>2
<1>7. 1 \in 1 .. n
  BY <1>3
<1>8. ~Received(q)
  BY <1>4, <1>7 DEF Received
<1>9. ASSUME NEW r \in Requests PROVE Received(r)' <=> Received(r) \/ r = q
  <2>1. CASE r.from # c
    <3>1. r.from \in Conns \ {c} /\ r # q
      BY <1>4, <2>1 DEF Requests
    <3> QED
      BY <1>1, <1>2, <3>1 DEF Received
  <2>2. CASE r.from = c
    <3>1. r = q <=> r.packet = unread[c][1]
      BY <1>4, <2>2 DEF Requests
    <3>2. Received(r)' <=> r.packet <= sent[c] /\ \A k \in 1 .. n - 1 : unread'[c][k] # r.packet
      BY <1>1, <1>3, <2>2 DEF Received
    <3>3. Received(r) <=> r.packet <= sent[c] /\ \A j \in 1 .. n : unread[c][j] # r.packet
      BY <2>2 DEF Received
    <3>4. \A j \in 1 .. n : j = 1 \/ (j - 1 \in 1 .. n - 1 /\ unread'[c][j - 1] = unread[c][j])
      BY <1>3
    <3>5. Received(r)' => Received(r) \/ r = q
      BY <3>1, <3>2, <3>3, <3>4
    <3>6. Received(r) => Received(r)'
      BY <1>3, <3>2, <3>3
    <3>7. ASSUME r = q PROVE Received(r)'
      <4>1. r.packet <= sent[c]
        BY <1>5, <1>7, <3>1, <3>7
      <4>2. ASSUME NEW k \in 1 .. n - 1 PROVE unread'[c][k] # r.packet
        <5>1. k + 1 \in 1 .. n /\ k + 1 # 1 /\ unread'[c][k] = unread[c][k + 1]
          BY <1>3
        <5> QED
          BY <1>5, <1>7, <3>1, <3>7, <5>1
      <4> QED
        BY <3>2, <4>1, <4>2
    <3> QED
      BY <3>5, <3>6, <3>7
  <2> QED
    BY <2>1, <2>2
<1> QED
  BY <1>6, <1>8, <1>9

(* What the refinement takes for done. *)
PoolDone == {r \in Requests : Received(r)} \ (pending \union Taken \union overrun)

(* A step that neither reads nor sends a packet, and moves no request.      *)
LEMMA PoolFrame ==
  ASSUME PoolInv, UNCHANGED <<pending, wreq, overrun, sent, unread>>,
         \A w \in Workers :
           /\ wpc'[w] = "idle" => wpc[w] = "idle"
           /\ wpc'[w] \in {"handler", "send"} => wpc[w] \in {"handler", "send"}
  PROVE  PoolInv' /\ UNCHANGED <<pending, wreq, PoolDone>>
<1>1. ReadInv' /\ \A r : Received(r)' <=> Received(r)
  BY ReceivedFrame DEF PoolInv
<1> QED
  BY <1>1 DEF PoolInv, PoolDone, Taken

(* What is read is a packet, and could be a request.                        *)
LEMMA NextIsRequest ==
  ASSUME TypeOK, NEW c \in Conns, ReadsPacket(c)
  PROVE  NextRequest(c) \in Requests
<1>1. unread[c] \in Seq(Packets) /\ unread[c] # <<>>
  BY DEF ReadsPacket, TypeOK
<1>2. Head(unread[c]) \in Packets
  BY <1>1
<1> QED
  BY <1>2 DEF Requests, NextRequest

(* A packet that parseMessage throws on is read, and no more.               *)
LEMMA ThrowSubmitsNothing ==
  ASSUME TypeOK, PoolInv, NEW c \in Conns, ParseThrows(c)
  PROVE  PoolInv' /\ UNCHANGED <<pending, wreq, PoolDone>>
<1> DEFINE q == NextRequest(c)
<1>1. /\ q \in overrun /\ ReadsPacket(c)
      /\ UNCHANGED <<pending, wpc, wreq, overrun, sent>>
  BY DEF ParseThrows, workerVars
<1>2. q \in Requests
  BY <1>1, NextIsRequest
<1>3. /\ ReadInv'
      /\ \A r \in Requests : Received(r)' <=> Received(r) \/ r = q
  BY <1>1, <1>2, ReceiveReads DEF PoolInv
<1> HIDE DEF q
<1>4. PoolInv'
  BY <1>1, <1>3 DEF PoolInv, Taken
<1>5. PoolDone' = PoolDone
  BY <1>1, <1>3 DEF PoolDone, Taken
<1> QED
  BY <1>1, <1>4, <1>5

(* A request that is submitted was never submitted before.                  *)
LEMMA ReceiveSubmits ==
  ASSUME TypeOK, PoolInv, NEW c \in Conns, Receive(c)
  PROVE  PoolInv' /\ \E r \in Requests : Pool!Submit(r)
<1> DEFINE q == NextRequest(c)
<1>1. /\ pending' = pending \union {q} /\ q \notin overrun
      /\ wpc' = wpc /\ wreq' = wreq /\ overrun' = overrun /\ sent' = sent
  BY DEF Receive, SessionGoes
<1>2. q \in Requests /\ ReadsPacket(c)
  BY NextIsRequest DEF Receive
<1> HIDE DEF q
<1>3. /\ ReadInv'
      /\ ~Received(q)
      /\ \A r \in Requests : Received(r)' <=> Received(r) \/ r = q
  BY <1>1, <1>2, ReceiveReads DEF PoolInv, q
<1>4. q \notin pending /\ q \notin Taken
  BY <1>2, <1>3, NoRequestIsNone DEF PoolInv, Taken
<1>5. pending \subseteq Requests /\ \A w \in Workers : wreq[w] \in Requests \union {NoRequest}
  BY DEF TypeOK
<1>6. PoolInv'
  BY <1>1, <1>3, <1>4, <1>5 DEF PoolInv, Taken
<1>7. PoolDone' = PoolDone
  BY <1>1, <1>3, <1>4 DEF PoolDone, Taken
<1>8. Pool!Submit(q)
  <2>1. q \notin Pool!Running
    BY <1>4 DEF Pool!Running, Taken
  <2>2. q \notin PoolDone
    BY <1>3 DEF PoolDone
  <2> QED
    BY <1>1, <1>4, <1>7, <2>1, <2>2 DEF Pool!Submit, PoolDone, Taken
<1> QED
  BY <1>2, <1>6, <1>8

(* A worker takes a request that waits, and has none.                       *)
LEMMA ProcessStarts ==
  ASSUME TypeOK, PoolInv, NEW w \in Workers, NEW r \in pending, Process(w, r) \/ ProcessNull(w, r)
  PROVE  PoolInv' /\ Pool!Start(w, r)
<1>1. /\ wpc[w] = "idle"
      /\ pending' = pending \ {r}
      /\ wreq' = [wreq EXCEPT ![w] = r]
      /\ UNCHANGED <<overrun, sent, unread>>
      /\ \A v \in Workers \ {w} : wpc'[v] = wpc[v] \/ wpc'[v] = "aborted"
      /\ wpc'[w] # "idle"
  BY DEF Process, ProcessNull, WorkerGoes, WorkerAborts, Abort, clientVars, TypeOK
<1>2. wreq[w] = NoRequest /\ r \in Requests /\ r # NoRequest
  BY <1>1, NoRequestIsNone DEF PoolInv, TypeOK
<1>3. wreq'[w] = r /\ \A v \in Workers \ {w} : wreq'[v] = wreq[v]
  BY <1>1 DEF TypeOK
<1>4. r \notin Taken
  BY <1>2 DEF PoolInv, Taken
<1>5. ReadInv' /\ \A q : Received(q)' <=> Received(q)
  BY <1>1, ReceivedFrame DEF PoolInv
<1>6. Taken' \ {NoRequest} = (Taken \ {NoRequest}) \union {r}
  BY <1>2, <1>3 DEF Taken
<1>7. PoolInv'
  <2>1. ASSUME NEW v \in Workers
        PROVE  /\ wpc'[v] = "idle" => wreq'[v] = NoRequest
               /\ wpc'[v] \in {"handler", "send"} => wreq'[v] \in Requests
               /\ wreq'[v] \notin pending'
    <3>1. CASE v = w
      BY <1>1, <1>2, <1>3, <1>5, <3>1 DEF PoolInv
    <3>2. CASE v # w
      BY <1>1, <1>3, <1>5, <3>2 DEF PoolInv
    <3> QED
      BY <3>1, <3>2
  <2>2. \A u, v \in Workers : wreq'[u] = wreq'[v] /\ wreq'[u] # NoRequest => u = v
    BY <1>3, <1>4 DEF PoolInv, Taken
  <2>3. \A q \in Requests : q \in pending' \union Taken' => Received(q)' /\ q \notin overrun'
    BY <1>1, <1>2, <1>5, <1>6, NoRequestIsNone DEF PoolInv
  <2> QED
    BY <1>5, <2>1, <2>2, <2>3 DEF PoolInv
<1>8. PoolDone' = PoolDone
  BY <1>1, <1>5, <1>6, NoRequestIsNone DEF PoolDone
<1> QED
  BY <1>1, <1>2, <1>7, <1>8 DEF Pool!Start, PoolDone, Taken

(* A worker has ended its request, whether the answer could be sent or not. *)
LEMMA SendFinishes ==
  ASSUME TypeOK, PoolInv, NEW w \in Workers, Send(w) \/ SendFails(w)
  PROVE  PoolInv' /\ Pool!Finish(w)
<1>1. /\ wpc[w] = "send" /\ wpc' = [wpc EXCEPT ![w] = "idle"]
      /\ wreq' = [wreq EXCEPT ![w] = NoRequest]
      /\ UNCHANGED <<pending, overrun, sent, unread>>
  BY DEF Send, SendFails, WorkerGoes, clientVars
<1>2. wreq[w] \in Requests /\ wreq[w] # NoRequest
  BY <1>1, NoRequestIsNone DEF PoolInv
<1>3. /\ wreq'[w] = NoRequest /\ wpc'[w] = "idle"
      /\ \A v \in Workers \ {w} : wreq'[v] = wreq[v] /\ wpc'[v] = wpc[v]
  BY <1>1 DEF TypeOK
<1>4. ReadInv' /\ \A q : Received(q)' <=> Received(q)
  BY <1>1, ReceivedFrame DEF PoolInv
<1>5. Taken' \ {NoRequest} = (Taken \ {NoRequest}) \ {wreq[w]}
  BY <1>2, <1>3 DEF Taken, PoolInv
<1>6. PoolInv'
  <2>1. ASSUME NEW v \in Workers
        PROVE  /\ wpc'[v] = "idle" => wreq'[v] = NoRequest
               /\ wpc'[v] \in {"handler", "send"} => wreq'[v] \in Requests
               /\ wreq'[v] \notin pending'
    <3>1. NoRequest \notin pending
      BY NoRequestIsNone DEF TypeOK
    <3> QED
      BY <1>1, <1>3, <3>1 DEF PoolInv
  <2>2. \A u, v \in Workers : wreq'[u] = wreq'[v] /\ wreq'[u] # NoRequest => u = v
    BY <1>3 DEF PoolInv
  <2>3. \A q \in Requests : q \in pending' \union Taken' => Received(q)' /\ q \notin overrun'
    BY <1>1, <1>4, <1>5, NoRequestIsNone DEF PoolInv
  <2> QED
    BY <1>4, <2>1, <2>2, <2>3 DEF PoolInv
<1>7. /\ Received(wreq[w]) /\ wreq[w] \notin overrun
      /\ wreq[w] \notin pending /\ wreq[w] \in Taken
  BY <1>2 DEF PoolInv, Taken
<1>8. PoolDone' = PoolDone \union {wreq[w]}
  BY <1>1, <1>2, <1>4, <1>5, <1>7, NoRequestIsNone DEF PoolDone
<1> QED
  BY <1>1, <1>2, <1>6, <1>8 DEF Pool!Finish, PoolDone, Taken

(* Every step keeps PoolInv, and is a step of the pool or none of it.       *)
LEMMA PoolStep ==
  ASSUME TypeOK, PoolInv, [Next]_vars
  PROVE  PoolInv' /\ (Pool!Next \/ UNCHANGED <<pending, wreq, PoolDone>>)
<1>1. CASE \E c \in Conns : Receive(c)
  BY <1>1, ReceiveSubmits DEF Pool!Next
<1>2. CASE \E w \in Workers : \E r \in pending : Process(w, r) \/ ProcessNull(w, r)
  <2>1. PICK w \in Workers, r \in pending : Process(w, r) \/ ProcessNull(w, r)
    BY <1>2
  <2>2. PoolInv' /\ Pool!Start(w, r) /\ r \in Requests
    BY <2>1, ProcessStarts DEF TypeOK
  <2> QED
    BY <2>2 DEF Pool!Next
<1>3. CASE \E w \in Workers : Send(w) \/ SendFails(w)
  BY <1>3, SendFinishes DEF Pool!Next
<1>4. CASE \E c \in Conns : ClientSends(c)
  <2>1. PICK c \in Conns : ClientSends(c)
    BY <1>4
  <2>2. /\ ReadInv'
        /\ \A r \in Requests : Received(r)' <=> Received(r)
        /\ \A r \in Requests : Received(r) => (r \in overrun' <=> r \in overrun)
    BY <2>1, SendReads DEF PoolInv
  <2>3. UNCHANGED <<pending, wpc, wreq>>
    BY <2>1 DEF ClientSends, workerVars
  <2>4. pending \subseteq Requests /\ \A w \in Workers : wreq[w] \in Requests \union {NoRequest}
    BY DEF TypeOK
  <2> QED
    BY <2>2, <2>3, <2>4 DEF PoolInv, PoolDone, Taken
<1>5. CASE \/ \E c \in Conns : NothingFree(c)
           \/ \E w \in Workers : CallAborts(w) \/ SendAborts(w)
  <2>1. UNCHANGED <<pending, wreq, overrun, sent, unread>> /\ \A w \in Workers : wpc'[w] = "aborted"
    BY <1>5 DEF NothingFree, CallAborts, SendAborts, WorkerAborts, Abort, clientVars
  <2> QED
    BY <2>1, PoolFrame
<1>6. CASE \/ \E c \in Conns :
                \/ Accept(c) \/ SeeFree(c) \/ Front(c) \/ Pop(c) \/ LoadHandle(c)
                \/ StoreHandle(c) \/ InsertSocket(c) \/ SeeClosed(c) \/ ReceiveThrows(c)
                \/ Erase(c) \/ NothingToErase(c) \/ Push(c) \/ ClientCloses(c)
           \/ Shutdown \/ UNCHANGED vars
  <2>1. UNCHANGED <<pending, wpc, wreq, overrun, sent, unread>>
    BY <1>6 DEF Accept, SeeFree, Front, Pop, LoadHandle, StoreHandle, InsertSocket, SeeClosed,
                ReceiveThrows, Erase, NothingToErase, Push, SessionGoes, ClientCloses, Shutdown,
                vars, workerVars, clientVars
  <2> QED
    BY <2>1, PoolFrame
<1>7. CASE \E w \in Workers : CallHandler(w)
  <2>1. PICK w \in Workers : CallHandler(w)
    BY <1>7
  <2>2. /\ UNCHANGED <<pending, wreq, overrun, sent, unread>>
        /\ wpc[w] = "handler" /\ wpc' = [wpc EXCEPT ![w] = "send"]
    BY <2>1 DEF CallHandler, WorkerGoes, clientVars
  <2>3. \A v \in Workers : wpc'[v] = wpc[v] \/ (wpc[v] = "handler" /\ wpc'[v] = "send")
    BY <2>2 DEF TypeOK
  <2> QED
    BY <2>2, <2>3, PoolFrame
<1>8. CASE \E c \in Conns : ParseThrows(c)
  BY <1>8, ThrowSubmitsNothing
<1> QED
  BY <1>1, <1>2, <1>3, <1>4, <1>5, <1>6, <1>7, <1>8 DEF Next, SessionStep, WorkerStep

(* Requests are of packets that were read and parsed, and with one worker.  *)
LEMMA PoolInvariance == Spec => []PoolInv
<1>1. Init => PoolInv
  <2> SUFFICES ASSUME Init PROVE PoolInv
    OBVIOUS
  <2> QED
    BY NoRequestIsNone DEF Init, PoolInv, ReadInv, Taken
<1>2. TypeOK /\ PoolInv /\ [Next]_vars => PoolInv'
  BY PoolStep
<1> QED
  BY <1>1, <1>2, TypeCorrect, PTL DEF Spec

(* The broker uses the Dispatcher as a pool of requests: every packet that  *)
(* is read and parsed is submitted once and executed at most once, by one   *)
(* worker, and one that parseMessage throws on never, for any connections,  *)
(* workers and packets, however sessions race.                              *)
THEOREM ServerUsesAPool == Spec => ImplementsPool
<1>1. Init => Pool!Init
  <2> SUFFICES ASSUME Init PROVE Pool!Init
    OBVIOUS
  <2>1. \A r \in Requests : ~Received(r)
    BY DEF Init, Received, Requests, Packets
  <2> QED
    BY <2>1 DEF Init, Pool!Init
<1>2. TypeOK /\ PoolInv /\ [Next]_vars => [Pool!Next]_(Pool!poolVars)
  BY PoolStep DEF Pool!poolVars, PoolDone, Taken
<1> QED
  BY <1>1, <1>2, TypeCorrect, PoolInvariance, PTL DEF Spec, ImplementsPool, Pool!Spec

-----------------------------------------------------------------------------
(* Answers to sessions that still serve.                                    *)

(* A worker faces the client that asked, while the session of that client   *)
(* serves it.                                                               *)
FaceInv ==
  ~raced => \A w \in Workers :
    wpc[w] \in {"handler", "send"} /\ spc[wreq[w].from] = "poll" => wsock[w] = wreq[w].from

(* No worker has a request of a session that has not read anything yet.     *)
LEMMA NotBeforePoll ==
  ASSUME PoolInv, ServeInv, NEW w \in Workers, wreq[w] \in Requests
  PROVE  spc[wreq[w].from] \notin Adding \union {"none"}
<1>1. PICK r \in Requests : r = wreq[w]
  OBVIOUS
<1>2. Received(r) /\ r.from \in Conns /\ r.packet \in Packets
  BY <1>1 DEF PoolInv, Taken, Requests
<1>3. r.packet <= sent[r.from] /\ ~Unread(r.from, r.packet)
  BY <1>2 DEF Received, Unread
<1> QED
  BY <1>1, <1>2, <1>3 DEF ServeInv

(* Every step of it keeps a worker before the asker.                        *)
LEMMA FaceStep ==
  ASSUME TypeInv, HandleInv, ServeInv, PoolInv, FaceInv, [Next]_vars
  PROVE  FaceInv'
<1>1. /\ \A w \in Workers : wpc[w] \in {"handler", "send"} => wreq[w] \in Requests
      /\ wpc \in [Workers -> {"idle", "handler", "send", "aborted"}]
      /\ wreq \in [Workers -> Requests \union {NoRequest}]
      /\ wsock \in [Workers -> Conns \union {NoConn}]
      /\ \A r \in Requests : r.from \in Conns
  BY DEF TypeInv, TypeOK, BusyInv, Requests
<1>2. ASSUME \A w \in Workers : wpc'[w] \in {"handler", "send"} =>
               /\ wpc[w] \in {"handler", "send"} /\ wreq'[w] = wreq[w] /\ wsock'[w] = wsock[w],
             \A c \in Conns : spc'[c] = "poll" => spc[c] \in Adding \union {"poll"},
             raced => raced'
      PROVE  FaceInv'
  <2> SUFFICES ASSUME ~raced', NEW w \in Workers,
                      wpc'[w] \in {"handler", "send"}, spc'[wreq'[w].from] = "poll"
               PROVE  wsock'[w] = wreq'[w].from
    BY DEF FaceInv
  <2>1. /\ wpc[w] \in {"handler", "send"} /\ wreq'[w] = wreq[w] /\ wsock'[w] = wsock[w]
        /\ wreq[w] \in Requests /\ wreq[w].from \in Conns
    BY <1>1, <1>2
  <2>2. spc[wreq[w].from] = "poll"
    BY <1>2, <2>1, NotBeforePoll
  <2> QED
    BY <1>2, <2>1, <2>2 DEF FaceInv
<1>3. ASSUME NEW c \in Conns, Accept(c) \/ SessionStep(c) \/ ClientSends(c) \/ ClientCloses(c)
      PROVE  FaceInv'
  <2>1. CASE NothingFree(c)
    BY <1>2, <2>1 DEF NothingFree, Abort
  <2>2. CASE ClientSends(c) \/ ClientCloses(c)
    BY <1>2, <2>2 DEF ClientSends, ClientCloses, sessionVars, workerVars
  <2>3. CASE Accept(c) \/ (SessionStep(c) /\ ~NothingFree(c))
    <3>1. UNCHANGED <<wpc, wreq, wsock>> /\ (raced => raced')
      <4>1. CASE Accept(c) \/ SeeClosed(c)
        BY <4>1 DEF Accept, SeeClosed, SessionGoes, Enters, workerVars
      <4>2. CASE SessionStep(c) /\ ~NothingFree(c) /\ ~SeeClosed(c)
        BY <4>2 DEF SessionStep, SeeFree, Front, Pop, LoadHandle, StoreHandle, InsertSocket,
                    Receive, ReceiveThrows, ParseThrows, Erase, NothingToErase, Push, SessionGoes,
                    workerVars
      <4> QED
        BY <2>3, <4>1, <4>2
    <3>2. \A d \in Conns : spc'[d] = "poll" => spc[d] \in Adding \union {"poll"}
      BY <2>3 DEF Accept, SessionStep, SeeFree, Front, Pop, LoadHandle, StoreHandle,
                  InsertSocket, Receive, SeeClosed, ReceiveThrows, ParseThrows, Erase,
                  NothingToErase, Push, SessionGoes, TypeInv, TypeOK, Adding
    <3> QED
      BY <1>2, <3>1, <3>2
  <2> QED
    BY <1>3, <2>1, <2>2, <2>3
<1>4. ASSUME NEW w \in Workers, NEW r \in Requests,
             \/ r \in pending /\ Process(w, r)
             \/ r = wreq[w] /\ CallHandler(w)
      PROVE  FaceInv'
  <2>1. /\ UNCHANGED <<raced, spc, sockets, handle>>
        /\ wreq'[w] = r /\ wsock'[w] = Found(r)
        /\ \A v \in Workers \ {w} :
             wpc'[v] = wpc[v] /\ wreq'[v] = wreq[v] /\ wsock'[v] = wsock[v]
    BY <1>1, <1>4 DEF Process, CallHandler, WorkerGoes, handleVars, sessionVars
  <2>2. ~raced /\ spc[r.from] = "poll" => Found(r) = r.from
    BY <1>1 DEF HandleInv, SessionInv, Found
  <2> QED
    BY <2>1, <2>2 DEF FaceInv
<1>5. ASSUME NEW w \in Workers, Send(w) \/ SendFails(w) PROVE FaceInv'
  <2>1. /\ UNCHANGED <<raced, spc>> /\ wpc'[w] = "idle"
        /\ \A v \in Workers \ {w} :
             wpc'[v] = wpc[v] /\ wreq'[v] = wreq[v] /\ wsock'[v] = wsock[v]
    BY <1>1, <1>5 DEF Send, SendFails, WorkerGoes, sessionVars
  <2> QED
    BY <2>1 DEF FaceInv
<1>6. ASSUME NEW w \in Workers, (\E r \in pending : ProcessNull(w, r)) \/ CallAborts(w) \/ SendAborts(w)
      PROVE  FaceInv'
  BY <1>6 DEF ProcessNull, CallAborts, SendAborts, WorkerAborts, Abort, FaceInv
<1>7. CASE Shutdown \/ UNCHANGED vars
  BY <1>2, <1>7 DEF Shutdown, vars, workerVars, sessionVars
<1>8. ASSUME NEW w \in Workers, WorkerStep(w) PROVE FaceInv'
  <2>1. pending \subseteq Requests
    BY DEF TypeInv, TypeOK
  <2>2. CallHandler(w) => wreq[w] \in Requests
    BY <1>1 DEF CallHandler, WorkerGoes
  <2> QED
    BY <1>4, <1>5, <1>6, <1>8, <2>1, <2>2 DEF WorkerStep
<1> QED
  BY <1>3, <1>7, <1>8 DEF Next

(* An answer that is sent while the session of the asker still serves it    *)
(* goes to the asker, for any connections and workers, as long as no two    *)
(* sessions race.                                                           *)
THEOREM LiveAskersAnswered == Spec => LiveAskersGetTheirs
<1> DEFINE Theirs == \A a \in answers' \ answers :
                       ~raced /\ spc[a.request.from] = "poll" => a.to = a.request.from
<1>1. Init => FaceInv
  BY DEF Init, FaceInv
<1>2. TypeInv /\ HandleInv /\ ServeInv /\ PoolInv /\ FaceInv /\ [Next]_vars => FaceInv'
  BY FaceStep
<1>3. TypeInv /\ FaceInv /\ [Next]_vars => [Theirs]_vars
  <2> SUFFICES ASSUME FaceInv, Next PROVE Theirs
    BY DEF vars
  <2>1. ASSUME NEW w \in Workers, Send(w) PROVE Theirs
    BY <2>1 DEF Send, WorkerGoes, FaceInv
  <2>2. CASE ~\E w \in Workers : Send(w)
    <3>1. answers' = answers
      BY <2>2 DEF Next, Accept, SessionStep, SeeFree, Front, Pop, NothingFree, LoadHandle,
                  StoreHandle, InsertSocket, Receive, SeeClosed, ReceiveThrows, ParseThrows,
                  Erase, NothingToErase, Push, SessionGoes, WorkerStep, Process, ProcessNull,
                  CallHandler, CallAborts, SendFails, SendAborts, WorkerAborts, ClientSends,
                  ClientCloses, Shutdown, workerVars
    <3> QED
      BY <3>1
  <2> QED
    BY <2>1, <2>2
<1> HIDE DEF Theirs
<1>4. Spec => [][Theirs]_vars
  BY <1>1, <1>2, <1>3, TypeInvariance, HandleInvariance, ServeInvariance, PoolInvariance, PTL
     DEF Spec
<1> QED
  BY <1>4 DEF LiveAskersGetTheirs, Theirs

=============================================================================
