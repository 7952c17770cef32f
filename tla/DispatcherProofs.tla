--------------------------- MODULE DispatcherProofs ---------------------------
(***************************************************************************)
(* Proofs about Dispatcher, for any sets of workers, threads and requests. *)
(*                                                                         *)
(* The safety properties are not inductive: they rest on what the code     *)
(* keeps true of the idle queue, of workersMutex and of a worker's two     *)
(* unlocked fields.  IndInv adds that, part by part, and is inductive.     *)
(***************************************************************************)
EXTENDS Dispatcher, SequenceTheorems, TLAPS

-----------------------------------------------------------------------------
(* The inductive invariant. *)

(* Adder a is between the lock and the unlock of workersMutex. *)
InHandoff(a) == apc[a] \in {"request", "ready", "notify"}

(* Worker w was just given a request and still heads the idle queue. *)
Handed(w) == \E a \in Adders : apc[a] = "notify" /\ target[a] = w

(* A request that is held is a request, not a null pointer, and between the *)
(* two assignments of setRequest the worker's pointer is the adder's.       *)
HeldInv ==
  /\ \A a \in Adders : HeldByAdder(a) => areq[a] \in Requests
  /\ \A a \in Adders : apc[a] = "ready" => request[target[a]] = areq[a]
  /\ ReadyMeansRequest

(* The holder of workersMutex works on the front of a non-empty queue. *)
MutexInv ==
  \A a \in Adders :
    /\ InHandoff(a) <=> workersMutex = a
    /\ InHandoff(a) => workers # <<>> /\ target[a] = Head(workers)

(* A worker in the idle queue that has not just been given a request has    *)
(* none, and will not offer itself again.                                   *)
IdleInv ==
  \A i \in 1 .. Len(workers) :
    LET w == workers[i] IN
      \/ Handed(w)
      \/ /\ ~ready[w]
         /\ wpc[w] \in {"check", "sleep", "waiting", "loop", "exited"}
         /\ wpc[w] \in {"loop", "exited"} => ~running[w]

(* ready is clear from the moment the request is executed until the worker  *)
(* stands in the idle queue.                                                *)
ReadyInv ==
  \A w \in Workers : wpc[w] \in {"busy", "offer", "park"} => ~ready[w]

(* ExactlyOnePlace without the sets. *)
Apart ==
  /\ \A a, b \in Adders :
       HeldByAdder(a) /\ HeldByAdder(b) /\ areq[a] = areq[b] => a = b
  /\ \A v, w \in Workers :
       HeldByWorker(v) /\ HeldByWorker(w) /\ request[v] = request[w] => v = w
  /\ \A i, j \in 1 .. Len(requests) : requests[i] = requests[j] => i = j
  /\ \A a \in Adders : HeldByAdder(a) =>
       /\ \A i \in 1 .. Len(requests) : requests[i] # areq[a]
       /\ \A w \in Workers : HeldByWorker(w) => request[w] # areq[a]
       /\ areq[a] \notin finished
  /\ \A i \in 1 .. Len(requests) :
       /\ \A w \in Workers : HeldByWorker(w) => requests[i] # request[w]
       /\ requests[i] \notin finished
  /\ \A w \in Workers : HeldByWorker(w) => request[w] \notin finished

IndInv ==
  /\ TypeOK
  /\ HeldInv
  /\ MutexInv
  /\ IdleOnce
  /\ IdleInv
  /\ ReadyInv
  /\ Apart

-----------------------------------------------------------------------------
(* Initially everything is idle. *)
LEMMA InitIndInv == Init => IndInv
<1> SUFFICES ASSUME Init PROVE IndInv
  OBVIOUS
<1> USE DEF Init
<1>1. TypeOK
  BY EmptySeq DEF TypeOK, WorkerPC, AdderPC
<1>2. HeldInv
  BY DEF HeldInv, HeldByAdder, ReadyMeansRequest, HeldByWorker
<1>3. MutexInv
  BY DispatcherAssumption DEF MutexInv, InHandoff
<1>4. IdleOnce /\ IdleInv
  BY EmptySeq DEF IdleOnce, IdleInv
<1>5. ReadyInv
  BY DEF ReadyInv
<1>6. Apart
  BY EmptySeq DEF Apart, HeldByAdder, HeldByWorker
<1> QED
  BY <1>1, <1>2, <1>3, <1>4, <1>5, <1>6 DEF IndInv

(* Every step keeps the types. *)
LEMMA TypeStep == ASSUME IndInv, [Next]_vars PROVE TypeOK'
<1> USE DEF TypeOK, WorkerPC, AdderPC, workerVars, adderVars
<1> TypeOK
  BY DEF IndInv
<1>1. ASSUME NEW a \in Adders, NEW r \in Requests, CallAddRequest(a, r) PROVE TypeOK'
  BY <1>1 DEF CallAddRequest
<1>2. ASSUME NEW a \in Adders, LockWorkers(a) PROVE TypeOK'
  <2>1. Head(workers) \in Workers
    BY <1>2, HeadTailProperties DEF LockWorkers
  <2> QED
    BY <1>2, <2>1 DEF LockWorkers
<1>3. ASSUME NEW a \in Adders, NoIdleWorker(a) \/ WriteRequest(a) \/ WriteReady(a) PROVE TypeOK'
  BY <1>3 DEF NoIdleWorker, WriteRequest, WriteReady
<1>4. ASSUME NEW a \in Adders, NotifyAndPop(a) PROVE TypeOK'
  <2>1. Tail(workers) \in Seq(Workers)
    BY <1>4, HeadTailProperties DEF NotifyAndPop, IndInv, MutexInv, InHandoff
  <2> QED
    BY <1>4, <2>1 DEF NotifyAndPop
<1>5. ASSUME NEW a \in Adders, PushRequest(a) PROVE TypeOK'
  <2>1. areq[a] \in Requests
    BY <1>5 DEF PushRequest, IndInv, HeldInv, HeldByAdder
  <2> QED
    BY <1>5, <2>1, AppendProperties DEF PushRequest
<1>6. ASSUME NEW w \in Workers,
             Exit(w) \/ Execute(w) \/ NothingToExecute(w) \/ NoRequestWaiting(w)
               \/ StopWaiting(w) \/ KeepWaiting(w) \/ Sleep(w) \/ Wake(w)
      PROVE TypeOK'
  BY <1>6 DEF Exit, Execute, NothingToExecute, NoRequestWaiting, StopWaiting,
              KeepWaiting, Sleep, Wake, WorkerGoes
<1>7. ASSUME NEW w \in Workers, Finish(w) PROVE TypeOK'
  <2>1. request[w] \in Requests
    BY <1>7 DEF Finish, WorkerGoes, IndInv, HeldInv, ReadyMeansRequest, HeldByWorker
  <2> QED
    BY <1>7, <2>1 DEF Finish, WorkerGoes
<1>8. ASSUME NEW w \in Workers, TakeRequest(w) PROVE TypeOK'
  <2>1. Head(requests) \in Requests /\ Tail(requests) \in Seq(Requests)
    BY <1>8, HeadTailProperties DEF TakeRequest
  <2> QED
    BY <1>8, <2>1 DEF TakeRequest, WorkerGoes
<1>9. ASSUME NEW w \in Workers, Park(w) PROVE TypeOK'
  BY <1>9, AppendProperties DEF Park, WorkerGoes
<1>10. ASSUME CallStop \/ JoinThreads \/ (\E w \in Workers : StopWorker(w)) \/ UNCHANGED vars
       PROVE TypeOK'
  BY <1>10 DEF CallStop, JoinThreads, StopWorker, vars
<1> QED
  BY <1>1, <1>2, <1>3, <1>4, <1>5, <1>6, <1>7, <1>8, <1>9, <1>10
     DEF Next, AddRequestStep, WorkerStep

(* What a step leaves of a worker's and an adder's position. *)
LEMMA HeldStep == ASSUME IndInv, [Next]_vars PROVE HeldInv'
<1> USE DEF TypeOK, HeldInv, HeldByAdder, ReadyMeansRequest, HeldByWorker, workerVars, adderVars
<1> TypeOK /\ HeldInv
  BY DEF IndInv
<1>1. ASSUME NEW a \in Adders, NEW r \in Requests, CallAddRequest(a, r) PROVE HeldInv'
  BY <1>1 DEF CallAddRequest
<1>2. ASSUME NEW a \in Adders, LockWorkers(a) \/ NoIdleWorker(a) PROVE HeldInv'
  BY <1>2 DEF LockWorkers, NoIdleWorker
<1>3. ASSUME NEW a \in Adders, WriteRequest(a) PROVE HeldInv'
  <2>1. target[a] \in Workers
    BY <1>3, HeadTailProperties DEF WriteRequest, IndInv, MutexInv, InHandoff
  <2>2. \A b \in Adders : b # a => apc[b] # "ready"
    BY <1>3, DispatcherAssumption DEF WriteRequest, IndInv, MutexInv, InHandoff
  <2> QED
    BY <1>3, <2>1, <2>2 DEF WriteRequest
<1>4. ASSUME NEW a \in Adders, WriteReady(a) PROVE HeldInv'
  <2>1. target[a] \in Workers
    BY <1>4, HeadTailProperties DEF WriteReady, IndInv, MutexInv, InHandoff
  <2> QED
    BY <1>4, <2>1 DEF WriteReady
<1>5. ASSUME NEW a \in Adders, NotifyAndPop(a) \/ PushRequest(a) PROVE HeldInv'
  BY <1>5 DEF NotifyAndPop, PushRequest
<1>6. ASSUME NEW w \in Workers,
             Exit(w) \/ Execute(w) \/ NothingToExecute(w) \/ Finish(w) \/ NoRequestWaiting(w)
               \/ Park(w) \/ StopWaiting(w) \/ KeepWaiting(w) \/ Sleep(w) \/ Wake(w)
      PROVE HeldInv'
  BY <1>6 DEF Exit, Execute, NothingToExecute, Finish, NoRequestWaiting, Park, StopWaiting,
              KeepWaiting, Sleep, Wake, WorkerGoes
<1>7. ASSUME NEW w \in Workers, TakeRequest(w) PROVE HeldInv'
  <2>1. Head(requests) \in Requests
    BY <1>7, HeadTailProperties DEF TakeRequest
  <2>2. \A a \in Adders : apc[a] = "ready" => target[a] # w
    (* The worker at the front is not one that offers itself. *)
    <3> SUFFICES ASSUME NEW a \in Adders, apc[a] = "ready", target[a] = w PROVE FALSE
      OBVIOUS
    <3>1. 1 \in 1 .. Len(workers) /\ workers[1] = w
      BY EmptySeq DEF IndInv, MutexInv, InHandoff
    <3>2. ~Handed(w)
      BY DispatcherAssumption DEF IndInv, MutexInv, InHandoff, Handed
    <3> QED
      BY <1>7, <3>1, <3>2 DEF TakeRequest, WorkerGoes, IndInv, IdleInv
  <2> QED
    BY <1>7, <2>1, <2>2 DEF TakeRequest, WorkerGoes
<1>8. ASSUME CallStop \/ JoinThreads \/ (\E w \in Workers : StopWorker(w)) \/ UNCHANGED vars
      PROVE HeldInv'
  BY <1>8 DEF CallStop, JoinThreads, StopWorker, vars
<1> QED
  BY <1>1, <1>2, <1>3, <1>4, <1>5, <1>6, <1>7, <1>8 DEF Next, AddRequestStep, WorkerStep

(* Only one adder at a time is between lock and unlock, and the front of    *)
(* the idle queue stays the front while it is.                              *)
LEMMA MutexStep == ASSUME IndInv, [Next]_vars PROVE MutexInv'
<1> USE DispatcherAssumption DEF TypeOK, MutexInv, InHandoff, workerVars, adderVars
<1> TypeOK /\ MutexInv
  BY DEF IndInv
<1>1. ASSUME NEW a \in Adders, NEW r \in Requests, CallAddRequest(a, r) PROVE MutexInv'
  BY <1>1 DEF CallAddRequest
<1>2. ASSUME NEW a \in Adders,
             LockWorkers(a) \/ NoIdleWorker(a) \/ WriteRequest(a) \/ WriteReady(a)
               \/ NotifyAndPop(a) \/ PushRequest(a)
      PROVE MutexInv'
  BY <1>2 DEF LockWorkers, NoIdleWorker, WriteRequest, WriteReady, NotifyAndPop, PushRequest
<1>3. ASSUME NEW w \in Workers,
             Exit(w) \/ Execute(w) \/ NothingToExecute(w) \/ Finish(w) \/ TakeRequest(w)
               \/ NoRequestWaiting(w) \/ StopWaiting(w) \/ KeepWaiting(w) \/ Sleep(w) \/ Wake(w)
      PROVE MutexInv'
  BY <1>3 DEF Exit, Execute, NothingToExecute, Finish, TakeRequest, NoRequestWaiting,
              StopWaiting, KeepWaiting, Sleep, Wake, WorkerGoes
<1>4. ASSUME NEW w \in Workers, Park(w) PROVE MutexInv'
  BY <1>4 DEF Park, WorkerGoes
<1>5. ASSUME CallStop \/ JoinThreads \/ (\E w \in Workers : StopWorker(w)) \/ UNCHANGED vars
      PROVE MutexInv'
  BY <1>5 DEF CallStop, JoinThreads, StopWorker, vars
<1> QED
  BY <1>1, <1>2, <1>3, <1>4, <1>5 DEF Next, AddRequestStep, WorkerStep

(* A worker that is about to park is not in the idle queue. *)
LEMMA ParkedIsNew ==
  ASSUME IndInv, NEW w \in Workers, Park(w)
  PROVE  \A i \in 1 .. Len(workers) : workers[i] # w
<1>1. ~Handed(w)
  BY DispatcherAssumption DEF Park, IndInv, MutexInv, InHandoff, Handed, TypeOK
<1> QED
  BY <1>1 DEF Park, WorkerGoes, IndInv, IdleInv

(* No step puts a worker into the idle queue a second time. *)
LEMMA IdleOnceStep == ASSUME IndInv, [Next]_vars PROVE IdleOnce'
<1> USE DEF TypeOK, IdleOnce, workerVars, adderVars
<1> TypeOK /\ IdleOnce
  BY DEF IndInv
<1>1. ASSUME NEW a \in Adders, NotifyAndPop(a) PROVE IdleOnce'
  <2>1. workers # <<>>
    BY <1>1 DEF NotifyAndPop, IndInv, MutexInv, InHandoff
  <2>2. /\ Len(workers') = Len(workers) - 1
        /\ \A i \in 1 .. Len(workers') : workers'[i] = workers[i + 1]
        /\ Len(workers) \in Nat
    BY <1>1, <2>1, HeadTailProperties, LenProperties DEF NotifyAndPop
  <2>3. \A i \in 1 .. Len(workers') : i + 1 \in 1 .. Len(workers)
    BY <2>2
  <2> QED
    BY <2>2, <2>3
<1>2. ASSUME NEW w \in Workers, Park(w) PROVE IdleOnce'
  <2>1. /\ Len(workers') = Len(workers) + 1
        /\ \A i \in 1 .. Len(workers) : workers'[i] = workers[i]
        /\ workers'[Len(workers) + 1] = w
        /\ Len(workers) \in Nat
    BY <1>2, AppendProperties, LenProperties DEF Park
  <2> QED
    BY <1>2, <2>1, ParkedIsNew
<1>3. ASSUME UNCHANGED workers PROVE IdleOnce'
  BY <1>3
<1> QED
  BY <1>1, <1>2, <1>3
     DEF Next, vars, AddRequestStep, CallAddRequest, LockWorkers, NoIdleWorker, WriteRequest,
         WriteReady, PushRequest, WorkerStep, Exit, Execute, NothingToExecute, Finish,
         TakeRequest, NoRequestWaiting, StopWaiting, KeepWaiting, Sleep, Wake, CallStop,
         StopWorker, JoinThreads

(* A worker in the idle queue stays idle until it is handed a request. *)
LEMMA IdleStep == ASSUME IndInv, [Next]_vars PROVE IdleInv'
<1> USE DEF TypeOK, IdleInv, workerVars, adderVars
<1> TypeOK /\ IdleInv
  BY DEF IndInv
<1>0. \A i \in 1 .. Len(workers) : workers[i] \in Workers
  BY ElementOfSeq
<1>1. ASSUME NEW a \in Adders,
             (\E r \in Requests : CallAddRequest(a, r))
               \/ LockWorkers(a) \/ NoIdleWorker(a) \/ WriteRequest(a) \/ PushRequest(a)
      PROVE IdleInv'
  <2>1. \A v : Handed(v) => Handed(v)'
    BY <1>1 DEF CallAddRequest, LockWorkers, NoIdleWorker, WriteRequest, PushRequest, Handed
  <2>2. UNCHANGED <<workers, ready, running, wpc>>
    BY <1>1 DEF CallAddRequest, LockWorkers, NoIdleWorker, WriteRequest, PushRequest
  <2> QED
    BY <2>1, <2>2
<1>2. ASSUME NEW a \in Adders, WriteReady(a) PROVE IdleInv'
  BY <1>0, <1>2 DEF WriteReady, Handed
<1>3. ASSUME NEW a \in Adders, NotifyAndPop(a) PROVE IdleInv'
  <2>1. /\ workers # <<>>
        /\ target[a] = workers[1]
        /\ \A b \in Adders : b # a => apc[b] # "notify"
    BY <1>3, DispatcherAssumption DEF NotifyAndPop, IndInv, MutexInv, InHandoff
  <2>2. /\ Len(workers') = Len(workers) - 1
        /\ \A i \in 1 .. Len(workers') : workers'[i] = workers[i + 1]
        /\ Len(workers) \in Nat
    BY <1>3, <2>1, HeadTailProperties, LenProperties DEF NotifyAndPop
  <2> SUFFICES ASSUME NEW i \in 1 .. Len(workers')
               PROVE  /\ ~ready'[workers'[i]]
                      /\ wpc'[workers'[i]] \in {"check", "sleep", "waiting", "loop", "exited"}
                      /\ wpc'[workers'[i]] \in {"loop", "exited"} => ~running'[workers'[i]]
    OBVIOUS
  <2>3. i + 1 \in 1 .. Len(workers) /\ 1 \in 1 .. Len(workers) /\ i + 1 # 1
    BY <2>2
  <2>4. workers[i + 1] # target[a]
    BY <2>1, <2>3 DEF IndInv, IdleOnce
  <2>5. ~Handed(workers[i + 1])
    BY <2>1, <2>4 DEF Handed
  <2> QED
    BY <1>3, <2>2, <2>3, <2>5 DEF NotifyAndPop
<1>4. ASSUME NEW w \in Workers,
             Exit(w) \/ Execute(w) \/ NothingToExecute(w) \/ Finish(w) \/ TakeRequest(w)
               \/ NoRequestWaiting(w) \/ StopWaiting(w) \/ KeepWaiting(w) \/ Sleep(w) \/ Wake(w)
      PROVE IdleInv'
  <2>1. \A v : Handed(v) <=> Handed(v)'
    BY <1>4 DEF Exit, Execute, NothingToExecute, Finish, TakeRequest, NoRequestWaiting,
                StopWaiting, KeepWaiting, Sleep, Wake, WorkerGoes, Handed
  <2> QED
    BY <1>0, <1>4, <2>1
       DEF Exit, Execute, NothingToExecute, Finish, TakeRequest, NoRequestWaiting,
           StopWaiting, KeepWaiting, Sleep, Wake, WorkerGoes
<1>5. ASSUME NEW w \in Workers, Park(w) PROVE IdleInv'
  <2>1. /\ Len(workers') = Len(workers) + 1
        /\ \A i \in 1 .. Len(workers) : workers'[i] = workers[i]
        /\ workers'[Len(workers) + 1] = w
        /\ Len(workers) \in Nat
    BY <1>5, AppendProperties, LenProperties DEF Park
  <2>2. ~ready[w]
    BY <1>5 DEF Park, WorkerGoes, IndInv, ReadyInv
  <2>3. \A v : Handed(v) <=> Handed(v)'
    BY <1>5 DEF Park, WorkerGoes, Handed
  <2>4. \A i \in 1 .. Len(workers) : workers[i] # w
    BY <1>5, ParkedIsNew
  <2> QED
    BY <1>0, <1>5, <2>1, <2>2, <2>3, <2>4 DEF Park, WorkerGoes
<1>6. ASSUME NEW w \in Workers, StopWorker(w) PROVE IdleInv'
  BY <1>0, <1>6 DEF StopWorker, Handed
<1>7. ASSUME CallStop \/ JoinThreads \/ UNCHANGED vars PROVE IdleInv'
  BY <1>7 DEF CallStop, JoinThreads, vars, Handed
<1> QED
  BY <1>1, <1>2, <1>3, <1>4, <1>5, <1>6, <1>7 DEF Next, AddRequestStep, WorkerStep

(* ready is only set on a worker that stands in the idle queue, or by the   *)
(* worker itself when it returns to its loop.                               *)
LEMMA ReadyStep == ASSUME IndInv, [Next]_vars PROVE ReadyInv'
<1> USE DEF TypeOK, ReadyInv, workerVars, adderVars
<1> TypeOK /\ ReadyInv
  BY DEF IndInv
<1>1. ASSUME NEW a \in Adders, WriteReady(a) PROVE ReadyInv'
  <2>1. 1 \in 1 .. Len(workers) /\ workers[1] = target[a]
    BY <1>1, EmptySeq DEF WriteReady, IndInv, MutexInv, InHandoff
  <2>2. ~Handed(target[a])
    BY <1>1, DispatcherAssumption DEF WriteReady, IndInv, MutexInv, InHandoff, Handed
  <2>3. wpc[target[a]] \notin {"busy", "offer", "park"}
    BY <2>1, <2>2 DEF IndInv, IdleInv
  <2> QED
    BY <1>1, <2>3 DEF WriteReady
<1>2. ASSUME NEW w \in Workers, WorkerStep(w) PROVE ReadyInv'
  BY <1>2 DEF WorkerStep, Exit, Execute, NothingToExecute, Finish, TakeRequest, NoRequestWaiting,
              Park, StopWaiting, KeepWaiting, Sleep, Wake, WorkerGoes
<1>3. ASSUME UNCHANGED <<ready, wpc>> PROVE ReadyInv'
  BY <1>3
<1> QED
  BY <1>1, <1>2, <1>3
     DEF Next, vars, AddRequestStep, CallAddRequest, LockWorkers, NoIdleWorker, WriteRequest,
         NotifyAndPop, PushRequest, CallStop, StopWorker, JoinThreads

(* Requests move from place to place and are never copied. *)
LEMMA ApartStep == ASSUME IndInv, [Next]_vars PROVE Apart'
<1> USE DEF TypeOK, Apart, HeldByAdder, HeldByWorker, workerVars, adderVars
<1> TypeOK /\ Apart
  BY DEF IndInv
<1>0. \A i \in 1 .. Len(requests) : requests[i] \in Requests
  BY ElementOfSeq
<1>1. ASSUME NEW a \in Adders, NEW r \in Requests, CallAddRequest(a, r) PROVE Apart'
  <2>1. /\ \A b \in Adders : HeldByAdder(b) => areq[b] # r
        /\ \A i \in 1 .. Len(requests) : requests[i] # r
        /\ \A w \in Workers : HeldByWorker(w) => request[w] # r
        /\ r \notin finished
    BY <1>1 DEF CallAddRequest, InAdders, InQueue, InWorkers
  <2> QED
    BY <1>1, <2>1 DEF CallAddRequest
<1>2. ASSUME NEW a \in Adders, LockWorkers(a) \/ NoIdleWorker(a) \/ NotifyAndPop(a) PROVE Apart'
  <2>1. /\ \A b \in Adders : HeldByAdder(b)' => HeldByAdder(b) /\ areq'[b] = areq[b]
        /\ UNCHANGED <<requests, request, ready, wpc, finished>>
    BY <1>2 DEF LockWorkers, NoIdleWorker, NotifyAndPop
  <2> QED
    BY <2>1
<1>3. ASSUME NEW a \in Adders, WriteRequest(a) PROVE Apart'
  <2>1. /\ target[a] \in Workers
        /\ 1 \in 1 .. Len(workers)
        /\ workers[1] = target[a]
    BY <1>3, EmptySeq, HeadTailProperties DEF WriteRequest, IndInv, MutexInv, InHandoff
  <2>2. ~Handed(target[a])
    BY <1>3, DispatcherAssumption DEF WriteRequest, IndInv, MutexInv, InHandoff, Handed
  <2>3. ~HeldByWorker(target[a])
    BY <2>1, <2>2 DEF IndInv, IdleInv
  <2> QED
    BY <1>3, <2>1, <2>3 DEF WriteRequest
<1>4. ASSUME NEW a \in Adders, WriteReady(a) PROVE Apart'
  <2>1. target[a] \in Workers
    BY <1>4, HeadTailProperties DEF WriteReady, IndInv, MutexInv, InHandoff
  <2>2. request[target[a]] = areq[a]
    BY <1>4 DEF WriteReady, IndInv, HeldInv
  <2> QED
    BY <1>4, <2>1, <2>2 DEF WriteReady
<1>5. ASSUME NEW a \in Adders, PushRequest(a) PROVE Apart'
  <2>1. areq[a] \in Requests
    BY <1>5 DEF PushRequest, IndInv, HeldInv
  <2>2. /\ Len(requests') = Len(requests) + 1
        /\ \A i \in 1 .. Len(requests) : requests'[i] = requests[i]
        /\ requests'[Len(requests) + 1] = areq[a]
        /\ Len(requests) \in Nat
    BY <1>5, <2>1, AppendProperties, LenProperties DEF PushRequest
  <2> QED
    BY <1>5, <2>2 DEF PushRequest
<1>6. ASSUME NEW w \in Workers,
             Exit(w) \/ Execute(w) \/ NothingToExecute(w) \/ NoRequestWaiting(w) \/ Park(w)
               \/ StopWaiting(w) \/ KeepWaiting(w) \/ Sleep(w) \/ Wake(w)
      PROVE Apart'
  <2>1. UNCHANGED <<requests, request, apc, areq, finished>>
    BY <1>6 DEF Exit, Execute, NothingToExecute, NoRequestWaiting, Park, StopWaiting,
                KeepWaiting, Sleep, Wake, WorkerGoes
  <2>2. \A v \in Workers : HeldByWorker(v)' => HeldByWorker(v)
    <3>1. CASE Execute(w)
      BY <3>1 DEF Execute, WorkerGoes
    <3>2. CASE ~Execute(w)
      BY <1>6, <3>2 DEF Exit, NothingToExecute, NoRequestWaiting, Park, StopWaiting,
                        KeepWaiting, Sleep, Wake, WorkerGoes
    <3> QED
      BY <3>1, <3>2
  <2> QED
    BY <2>1, <2>2
<1>7. ASSUME NEW w \in Workers, Finish(w) PROVE Apart'
  <2>1. ~ready[w]
    BY <1>7 DEF Finish, WorkerGoes, IndInv, ReadyInv
  <2> QED
    BY <1>0, <1>7, <2>1 DEF Finish, WorkerGoes
<1>8. ASSUME NEW w \in Workers, TakeRequest(w) PROVE Apart'
  <2>1. /\ Len(requests') = Len(requests) - 1
        /\ \A i \in 1 .. Len(requests') : requests'[i] = requests[i + 1]
        /\ Len(requests) \in Nat \ {0}
    BY <1>8, HeadTailProperties, EmptySeq DEF TakeRequest
  <2>2. /\ \A i \in 1 .. Len(requests') : i + 1 \in 1 .. Len(requests) /\ i + 1 # 1
        /\ 1 \in 1 .. Len(requests)
        /\ request'[w] = requests[1]
    BY <1>8, <2>1 DEF TakeRequest
  <2> QED
    BY <1>8, <2>1, <2>2 DEF TakeRequest, WorkerGoes
<1>9. ASSUME CallStop \/ JoinThreads \/ (\E w \in Workers : StopWorker(w)) \/ UNCHANGED vars
      PROVE Apart'
  BY <1>9 DEF CallStop, JoinThreads, StopWorker, vars
<1> QED
  BY <1>1, <1>2, <1>3, <1>4, <1>5, <1>6, <1>7, <1>8, <1>9
     DEF Next, AddRequestStep, WorkerStep

(* The parts of IndInv together are inductive: they hold in every state.    *)
THEOREM Invariance == Spec => []IndInv
<1>1. IndInv /\ [Next]_vars => IndInv'
  BY TypeStep, HeldStep, MutexStep, IdleOnceStep, IdleStep, ReadyStep, ApartStep DEF IndInv
<1> QED
  BY InitIndInv, <1>1, PTL DEF Spec

-----------------------------------------------------------------------------
(* The properties of Dispatcher. *)

(* The sets of ExactlyOnePlace say what Apart says of their elements. *)
LEMMA ApartIsExactlyOnePlace == Apart => ExactlyOnePlace
<1> SUFFICES ASSUME Apart PROVE ExactlyOnePlace
  OBVIOUS
<1> USE DEF Apart, InAdders, InQueue, InWorkers
<1>1. InAdders \intersect (InQueue \union InWorkers \union finished) = {}
  OBVIOUS
<1>2. InQueue \intersect (InWorkers \union finished) = {}
  OBVIOUS
<1>3. InWorkers \intersect finished = {}
  OBVIOUS
<1> QED
  BY <1>1, <1>2, <1>3 DEF ExactlyOnePlace

(* The variables keep their types. *)
THEOREM TypeCorrect == Spec => []TypeOK
  BY Invariance, PTL DEF IndInv

(* A request object is reachable from one place at a time: with an adder,   *)
(* in the queue, with one worker, or finished.                              *)
THEOREM RequestsInOnePlace == Spec => []ExactlyOnePlace
<1>1. IndInv => ExactlyOnePlace
  BY ApartIsExactlyOnePlace DEF IndInv
<1> QED
  BY Invariance, <1>1, PTL

(* The idle queue holds a worker at most once. *)
THEOREM WorkersIdleOnce == Spec => []IdleOnce
  BY Invariance, PTL DEF IndInv

(* A worker never executes a null or a half-written request. *)
THEOREM ExecutesOnlyRequests == Spec => []ReadyMeansRequest
<1>1. IndInv => ReadyMeansRequest
  BY DEF IndInv, HeldInv
<1> QED
  BY Invariance, <1>1, PTL

(* A worker that offers itself holds no request. *)
LEMMA OfferingHoldsNothing ==
  ASSUME IndInv, NEW w \in Workers, wpc[w] = "offer"
  PROVE  ~HeldByWorker(w)
  BY DEF IndInv, ReadyInv, HeldByWorker

(* The worker that is handed a request holds none. *)
LEMMA TargetHoldsNothing ==
  ASSUME IndInv, NEW a \in Adders, apc[a] \in {"request", "ready"}
  PROVE  target[a] \in Workers /\ ~HeldByWorker(target[a])
<1>1. /\ target[a] \in Workers
      /\ 1 \in 1 .. Len(workers)
      /\ workers[1] = target[a]
  BY EmptySeq, HeadTailProperties DEF IndInv, TypeOK, MutexInv, InHandoff
<1>2. ~Handed(target[a])
  BY DispatcherAssumption DEF IndInv, MutexInv, InHandoff, Handed
<1> QED
  BY <1>1, <1>2 DEF IndInv, IdleInv, HeldByWorker

(* setRequest never overwrites a request that has not been finished. *)
THEOREM RequestsAreNotOverwritten == Spec => NeverOverwritten
<1>1. ASSUME IndInv, [Next]_vars
      PROVE  \A w \in Workers : request'[w] # request[w] => ~HeldByWorker(w)
  <2>1. CASE \E a \in Adders : WriteRequest(a)
    <3> PICK a \in Adders : WriteRequest(a)
      BY <2>1
    <3>1. target[a] \in Workers /\ ~HeldByWorker(target[a])
      BY <1>1, TargetHoldsNothing DEF WriteRequest
    <3> QED
      BY <1>1, <3>1 DEF WriteRequest, IndInv, TypeOK
  <2>2. CASE \E w \in Workers : TakeRequest(w)
    BY <1>1, <2>2, OfferingHoldsNothing DEF TakeRequest, WorkerGoes, IndInv, TypeOK
  <2>3. CASE UNCHANGED request
    BY <2>3
  <2> QED
    BY <1>1, <2>1, <2>2, <2>3
       DEF Next, vars, workerVars, AddRequestStep, CallAddRequest, LockWorkers, NoIdleWorker,
           WriteReady, NotifyAndPop, PushRequest, WorkerStep, Exit, Execute, NothingToExecute,
           Finish, NoRequestWaiting, Park, StopWaiting, KeepWaiting, Sleep, Wake, CallStop,
           StopWorker, JoinThreads
<1> QED
  BY Invariance, <1>1, PTL DEF Spec, NeverOverwritten

-----------------------------------------------------------------------------
(* Dispatcher implements RequestPool. *)

(* The requests that were handed to a worker and not yet started. *)
InReady == {request[w] : w \in {v \in Workers : ready[v]}}

(* What the abstract variables become. *)
PoolPending   == InAdders \union InQueue \union InReady
PoolExecuting == [w \in Workers |-> IF wpc[w] = "busy" THEN request[w] ELSE NoRequest]

(* The steps that the pool does not see. *)
Unseen == UNCHANGED <<PoolPending, PoolExecuting, finished>>

LEMMA SubmitStep ==
  ASSUME IndInv, NEW a \in Adders, NEW r \in Requests, CallAddRequest(a, r)
  PROVE  Pool!Submit(r)
<1> USE DEF CallAddRequest, workerVars, IndInv, TypeOK
<1>1. InAdders' = InAdders \union {r}
  <2>1. \A b \in Adders : HeldByAdder(b)' <=> b = a \/ HeldByAdder(b)
    BY DEF HeldByAdder
  <2>2. /\ areq'[a] = r
        /\ \A b \in Adders : b # a => areq'[b] = areq[b]
        /\ ~HeldByAdder(a)
    BY DEF HeldByAdder
  <2> QED
    BY <2>1, <2>2 DEF InAdders
<1>2. UNCHANGED <<InQueue, InReady, PoolExecuting, finished>>
  BY DEF InQueue, InReady, PoolExecuting
<1>3. r \notin PoolPending \union {PoolExecuting[w] : w \in Workers} \union finished
  BY DispatcherAssumption
     DEF PoolPending, PoolExecuting, InReady, InWorkers, HeldByWorker
<1> QED
  BY <1>1, <1>2, <1>3
     DEF Pool!Submit, Pool!Running, PoolPending, PoolExecuting, InReady

LEMMA StartStep ==
  ASSUME IndInv, NEW w \in Workers, NEW r \in Requests, r = request[w], Execute(w)
  PROVE  Pool!Start(w, r)
<1> USE DEF Execute, WorkerGoes, adderVars, IndInv, TypeOK
<1>1. UNCHANGED <<InAdders, InQueue, finished>>
  BY DEF InAdders, HeldByAdder, InQueue
<1>2. InReady' = InReady \ {request[w]} /\ request[w] \in InReady
  <2>1. \A v \in Workers : ready[v] /\ v # w => request[v] # request[w]
    BY DEF Apart, HeldByWorker
  <2>2. \A v \in Workers : ready'[v] <=> ready[v] /\ v # w
    OBVIOUS
  <2> QED
    BY <2>1, <2>2 DEF InReady
<1>3. request[w] \notin InAdders \union InQueue
  BY DEF InAdders, InQueue, Apart, HeldByWorker
<1>4. PoolExecuting' = [PoolExecuting EXCEPT ![w] = request[w]] /\ PoolExecuting[w] = NoRequest
  BY DEF PoolExecuting
<1> QED
  BY <1>1, <1>2, <1>3, <1>4 DEF Pool!Start, PoolPending, PoolExecuting, InReady

LEMMA FinishStep ==
  ASSUME IndInv, NEW w \in Workers, Finish(w)
  PROVE  Pool!Finish(w)
<1> USE DEF Finish, WorkerGoes, adderVars, IndInv, TypeOK
<1>1. UNCHANGED <<InAdders, InQueue, InReady>>
  BY DEF InAdders, HeldByAdder, InQueue, InReady
<1>2. PoolExecuting' = [PoolExecuting EXCEPT ![w] = NoRequest]
  BY DEF PoolExecuting
<1>3. PoolExecuting[w] = request[w] /\ request[w] # NoRequest
  BY DispatcherAssumption DEF PoolExecuting, HeldInv, ReadyMeansRequest, HeldByWorker
<1> QED
  BY <1>1, <1>2, <1>3 DEF Pool!Finish, PoolPending, PoolExecuting, InReady

(* A request that changes hands before it is started stays pending. *)
LEMMA PassOnStep ==
  ASSUME IndInv,
         \/ \E a \in Adders : WriteRequest(a) \/ WriteReady(a) \/ PushRequest(a)
         \/ \E w \in Workers : TakeRequest(w)
  PROVE  Unseen
<1> USE DEF IndInv, TypeOK, workerVars, adderVars
<1>1. ASSUME NEW a \in Adders, WriteRequest(a) PROVE Unseen
  <2>1. target[a] \in Workers /\ ~ready[target[a]] /\ wpc[target[a]] # "busy"
    BY <1>1, TargetHoldsNothing DEF WriteRequest, HeldByWorker
  <2>2. UNCHANGED <<InAdders, InQueue, finished>>
    BY <1>1 DEF WriteRequest, InAdders, HeldByAdder, InQueue
  <2>3. InReady' = InReady /\ PoolExecuting' = PoolExecuting
    BY <1>1, <2>1 DEF WriteRequest, InReady, PoolExecuting
  <2> QED
    BY <2>2, <2>3 DEF Unseen, PoolPending
<1>2. ASSUME NEW a \in Adders, WriteReady(a) PROVE Unseen
  <2>1. target[a] \in Workers /\ request[target[a]] = areq[a]
    BY <1>2, TargetHoldsNothing DEF WriteReady, HeldInv
  <2>2. InAdders = InAdders' \union {areq[a]}
    <3>1. \A b \in Adders : HeldByAdder(b) <=> HeldByAdder(b)' \/ b = a
      BY <1>2 DEF WriteReady, HeldByAdder
    <3> QED
      BY <1>2, <3>1 DEF WriteReady, InAdders
  <2>3. InReady' = InReady \union {areq[a]}
    <3>1. \A w \in Workers : ready'[w] <=> ready[w] \/ w = target[a]
      BY <1>2, <2>1 DEF WriteReady
    <3> QED
      BY <1>2, <2>1, <3>1 DEF WriteReady, InReady
  <2>4. UNCHANGED <<InQueue, PoolExecuting, finished>>
    BY <1>2 DEF WriteReady, InQueue, PoolExecuting
  <2> QED
    BY <2>2, <2>3, <2>4 DEF Unseen, PoolPending
<1>3. ASSUME NEW a \in Adders, PushRequest(a) PROVE Unseen
  <2>1. areq[a] \in Requests
    BY <1>3 DEF PushRequest, HeldInv, HeldByAdder
  <2>2. InAdders = InAdders' \union {areq[a]}
    <3>1. \A b \in Adders : HeldByAdder(b) <=> HeldByAdder(b)' \/ b = a
      BY <1>3 DEF PushRequest, HeldByAdder
    <3>2. \A b \in Adders : b # a => areq'[b] = areq[b]
      BY <1>3 DEF PushRequest
    <3>3. ~HeldByAdder(a)'
      BY <1>3 DEF PushRequest, HeldByAdder
    <3> QED
      BY <3>1, <3>2, <3>3 DEF InAdders
  <2>3. InQueue' = InQueue \union {areq[a]}
    <3>1. /\ Len(requests') = Len(requests) + 1
          /\ \A i \in 1 .. Len(requests) : requests'[i] = requests[i]
          /\ requests'[Len(requests) + 1] = areq[a]
          /\ Len(requests) \in Nat
      BY <1>3, <2>1, AppendProperties, LenProperties DEF PushRequest
    <3>2. \A i : i \in 1 .. Len(requests') <=> i \in 1 .. Len(requests) \/ i = Len(requests) + 1
      BY <3>1
    <3>3. \A r : r \in InQueue' <=> r \in InQueue \/ r = areq[a]
      BY <3>1, <3>2 DEF InQueue
    <3> QED
      BY <3>3
  <2>4. UNCHANGED <<InReady, PoolExecuting, finished>>
    BY <1>3 DEF PushRequest, InReady, PoolExecuting
  <2> QED
    BY <2>2, <2>3, <2>4 DEF Unseen, PoolPending
<1>4. ASSUME NEW w \in Workers, TakeRequest(w) PROVE Unseen
  <2>1. ~ready[w]
    BY <1>4, OfferingHoldsNothing DEF TakeRequest, WorkerGoes, HeldByWorker
  <2>2. InQueue = InQueue' \union {Head(requests)}
    <3>1. /\ Len(requests') = Len(requests) - 1
          /\ \A i \in 1 .. Len(requests') : requests'[i] = requests[i + 1]
          /\ Len(requests) \in Nat \ {0}
      BY <1>4, HeadTailProperties, EmptySeq DEF TakeRequest
    <3>2. \A i \in 1 .. Len(requests) : i = 1 \/ (i - 1 \in 1 .. Len(requests') /\ i = (i - 1) + 1)
      BY <3>1
    <3>3. Head(requests) = requests[1]
      BY <1>4 DEF TakeRequest
    <3>4. \A r : r \in InQueue <=> r \in InQueue' \/ r = Head(requests)
      <4>1. ASSUME NEW r, r \in InQueue PROVE r \in InQueue' \/ r = Head(requests)
        <5> PICK i \in 1 .. Len(requests) : r = requests[i]
          BY <4>1 DEF InQueue
        <5>1. CASE i = 1
          BY <3>3, <5>1
        <5>2. CASE i # 1
          <6>1. i - 1 \in 1 .. Len(requests') /\ r = requests'[i - 1]
            BY <3>1, <3>2, <5>2
          <6> QED
            BY <6>1 DEF InQueue
        <5> QED
          BY <5>1, <5>2
      <4>2. ASSUME NEW r, r \in InQueue' PROVE r \in InQueue
        <5> PICK i \in 1 .. Len(requests') : r = requests'[i]
          BY <4>2 DEF InQueue
        <5>1. i + 1 \in 1 .. Len(requests) /\ r = requests[i + 1]
          BY <3>1
        <5> QED
          BY <5>1 DEF InQueue
      <4>3. Head(requests) \in InQueue
        BY <3>1, <3>3 DEF InQueue
      <4> QED
        BY <4>1, <4>2, <4>3
    <3> QED
      BY <3>4
  <2>3. InReady' = InReady \union {Head(requests)}
    <3>1. \A v \in Workers : ready'[v] <=> ready[v] \/ v = w
      BY <1>4 DEF TakeRequest
    <3>2. /\ request'[w] = Head(requests)
          /\ \A v \in Workers : v # w => request'[v] = request[v]
      BY <1>4 DEF TakeRequest
    <3> QED
      BY <2>1, <3>1, <3>2 DEF InReady
  <2>4. UNCHANGED <<InAdders, PoolExecuting, finished>>
    BY <1>4 DEF TakeRequest, WorkerGoes, InAdders, HeldByAdder, PoolExecuting
  <2> QED
    BY <2>2, <2>3, <2>4 DEF Unseen, PoolPending
<1> QED
  BY <1>1, <1>2, <1>3, <1>4

(* Steps that move no request. *)
LEMMA QuietStep ==
  ASSUME IndInv,
         \/ \E a \in Adders : LockWorkers(a) \/ NoIdleWorker(a) \/ NotifyAndPop(a)
         \/ \E w \in Workers :
              Exit(w) \/ NothingToExecute(w) \/ NoRequestWaiting(w) \/ Park(w)
                \/ StopWaiting(w) \/ KeepWaiting(w) \/ Sleep(w) \/ Wake(w) \/ StopWorker(w)
         \/ CallStop \/ JoinThreads \/ UNCHANGED vars
  PROVE  Unseen
<1> USE DEF IndInv, TypeOK, workerVars, adderVars
<1>1. ASSUME NEW a \in Adders, LockWorkers(a) \/ NoIdleWorker(a) \/ NotifyAndPop(a) PROVE Unseen
  <2>1. /\ \A b \in Adders : HeldByAdder(b)' <=> HeldByAdder(b)
        /\ \A b \in Adders : HeldByAdder(b) => areq'[b] = areq[b]
    BY <1>1 DEF LockWorkers, NoIdleWorker, NotifyAndPop, HeldByAdder
  <2>2. InAdders' = InAdders
    BY <2>1 DEF InAdders
  <2>3. UNCHANGED <<requests, request, ready, wpc, finished>>
    BY <1>1 DEF LockWorkers, NoIdleWorker, NotifyAndPop
  <2> QED
    BY <2>2, <2>3 DEF Unseen, PoolPending, PoolExecuting, InQueue, InReady
<1>2. ASSUME NEW w \in Workers,
             Exit(w) \/ NothingToExecute(w) \/ NoRequestWaiting(w) \/ Park(w)
               \/ StopWaiting(w) \/ KeepWaiting(w) \/ Sleep(w) \/ Wake(w) \/ StopWorker(w)
      PROVE  Unseen
  <2>1. UNCHANGED <<requests, request, ready, apc, areq, finished>>
    BY <1>2 DEF Exit, NothingToExecute, NoRequestWaiting, Park, StopWaiting, KeepWaiting,
                Sleep, Wake, StopWorker, WorkerGoes
  <2>2. \A v \in Workers : wpc'[v] = "busy" <=> wpc[v] = "busy"
    BY <1>2 DEF Exit, NothingToExecute, NoRequestWaiting, Park, StopWaiting, KeepWaiting,
                Sleep, Wake, StopWorker, WorkerGoes
  <2>3. PoolExecuting' = PoolExecuting
    BY <2>1, <2>2 DEF PoolExecuting
  <2> QED
    BY <2>1, <2>3 DEF Unseen, PoolPending, InAdders, HeldByAdder, InQueue, InReady
<1>3. ASSUME CallStop \/ JoinThreads \/ UNCHANGED vars PROVE Unseen
  BY <1>3 DEF CallStop, JoinThreads, vars, Unseen, PoolPending, PoolExecuting,
              InAdders, HeldByAdder, InQueue, InReady
<1> QED
  BY <1>1, <1>2, <1>3

(* addRequest, addWorker and Worker::run implement the abstract pool: every *)
(* step starts, finishes or takes in one request, or moves none.            *)
THEOREM DispatcherIsAPool == Spec => ImplementsPool
<1>1. Init => Pool!Init
  BY DEF Init, Pool!Init, InAdders, HeldByAdder, InQueue
<1>2. ASSUME IndInv, [Next]_vars PROVE [Pool!Next]_(Pool!poolVars)
  <2>1. CASE Unseen
    BY <2>1 DEF Unseen, PoolPending, PoolExecuting, InReady, Pool!poolVars
  <2>2. CASE \E a \in Adders, r \in Requests : CallAddRequest(a, r)
    BY <1>2, <2>2, SubmitStep DEF Pool!Next
  <2>3. CASE \E w \in Workers : Execute(w)
    <3> PICK w \in Workers : Execute(w)
      BY <2>3
    <3> PICK r \in Requests : r = request[w]
      BY <1>2 DEF Execute, IndInv, HeldInv, ReadyMeansRequest, HeldByWorker
    <3>1. Pool!Start(w, r)
      BY <1>2, StartStep
    <3> QED
      BY <3>1 DEF Pool!Next
  <2>4. CASE \E w \in Workers : Finish(w)
    BY <1>2, <2>4, FinishStep DEF Pool!Next
  <2>5. CASE \/ \E a \in Adders : WriteRequest(a) \/ WriteReady(a) \/ PushRequest(a)
             \/ \E w \in Workers : TakeRequest(w)
    <3> Unseen
      BY <1>2, <2>5, PassOnStep
    <3> QED
      BY <2>1
  <2>6. CASE \/ \E a \in Adders : LockWorkers(a) \/ NoIdleWorker(a) \/ NotifyAndPop(a)
             \/ \E w \in Workers :
                  Exit(w) \/ NothingToExecute(w) \/ NoRequestWaiting(w) \/ Park(w)
                    \/ StopWaiting(w) \/ KeepWaiting(w) \/ Sleep(w) \/ Wake(w) \/ StopWorker(w)
             \/ CallStop \/ JoinThreads \/ UNCHANGED vars
    <3> Unseen
      BY <1>2, <2>6, QuietStep
    <3> QED
      BY <2>1
  <2> QED
    BY <1>2, <2>2, <2>3, <2>4, <2>5, <2>6 DEF Next, AddRequestStep, WorkerStep
<1> QED
  BY Invariance, <1>1, <1>2, PTL DEF Spec, ImplementsPool, Pool!Spec
=============================================================================
