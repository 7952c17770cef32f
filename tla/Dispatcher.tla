------------------------------ MODULE Dispatcher ------------------------------
(***************************************************************************)
(* The Dispatcher (dispatcher.cpp) and its Worker threads (worker.cpp).    *)
(*                                                                         *)
(* Listener and session threads call addRequest; every worker thread runs  *)
(* Worker::run and offers itself with addWorker when it has nothing to do. *)
(* The steps are as fine as the locks of the code: what happens under      *)
(* requestsMutex, or under a worker's own mtx, touches nothing that is     *)
(* also read outside it and is one step; the hand-over under workersMutex  *)
(* writes request and ready, which the worker reads without any lock, and  *)
(* is one step per write.  The flags are plain bools: the build (-O0)      *)
(* loads and stores them where the source does, in program order.          *)
(*                                                                         *)
(* A worker that init has not created yet cannot be told from one that has *)
(* not taken its first step, so all of them exist initially.               *)
(***************************************************************************)
EXTENDS Naturals, Sequences

CONSTANTS Workers,    \* allWorkers: the workers that init creates
          Adders,     \* the threads that call addRequest
          Requests,   \* the request objects these threads create
          NoRequest,  \* a null AbstractRequest pointer
          NoThread    \* the value of workersMutex when nobody holds it

ASSUME DispatcherAssumption ==
  /\ NoRequest \notin Requests
  /\ NoThread \notin Adders

VARIABLES
  requests,      \* Dispatcher::requests
  workers,       \* Dispatcher::workers
  workersMutex,  \* the adder that holds Dispatcher::workersMutex, or NoThread
  request,       \* request[w]: Worker::request
  ready,         \* ready[w]: Worker::ready
  running,       \* running[w]: Worker::running
  notified,      \* workers asleep in cv.wait_for that were notified
  wpc,           \* wpc[w]: where worker w is in Worker::run
  apc,           \* apc[a]: where adder a is in addRequest
  areq,          \* areq[a]: the argument of a's addRequest
  target,        \* target[a]: the local variable `worker' of a's addRequest
  stopper,       \* where the caller of Dispatcher::stop is
  finished       \* requests whose process and finish calls have returned

workerVars == <<request, ready, running, notified, wpc>>
adderVars  == <<apc, areq, target>>
vars == <<requests, workers, workersMutex, workerVars, adderVars, stopper, finished>>

WorkerPC == {"loop", "busy", "offer", "park", "check", "sleep", "waiting", "exited"}
AdderPC  == {"idle", "lock", "request", "ready", "notify", "push"}

(* The type of every variable. *)
TypeOK ==
  /\ requests \in Seq(Requests)
  /\ workers \in Seq(Workers)
  /\ workersMutex \in Adders \union {NoThread}
  /\ request \in [Workers -> Requests \union {NoRequest}]
  /\ ready \in [Workers -> BOOLEAN]
  /\ running \in [Workers -> BOOLEAN]
  /\ notified \in SUBSET Workers
  /\ wpc \in [Workers -> WorkerPC]
  /\ apc \in [Adders -> AdderPC]
  /\ areq \in [Adders -> Requests \union {NoRequest}]
  /\ target \in [Adders -> Workers \union {NoThread}]
  /\ stopper \in {"none", "stopping", "joined"}
  /\ finished \in SUBSET Requests

Init ==
  /\ requests = <<>>
  /\ workers = <<>>
  /\ workersMutex = NoThread
  /\ request = [w \in Workers |-> NoRequest]
  /\ ready = [w \in Workers |-> FALSE]
  /\ running = [w \in Workers |-> TRUE]
  /\ notified = {}
  /\ wpc = [w \in Workers |-> "loop"]
  /\ apc = [a \in Adders |-> "idle"]
  /\ areq = [a \in Adders |-> NoRequest]
  /\ target = [a \in Adders |-> NoThread]
  /\ stopper = "none"
  /\ finished = {}

-----------------------------------------------------------------------------
(* Where a request is. *)

(* Adder a has been called with areq[a] and has not yet passed it on. *)
HeldByAdder(a) == apc[a] \in {"lock", "request", "ready", "push"}

(* Worker w was given request[w] and has not finished it. *)
HeldByWorker(w) == ready[w] \/ wpc[w] = "busy"

InAdders  == {areq[a] : a \in {b \in Adders : HeldByAdder(b)}}
InQueue   == {requests[i] : i \in 1 .. Len(requests)}
InWorkers == {request[w] : w \in {v \in Workers : HeldByWorker(v)}}

-----------------------------------------------------------------------------
(* addRequest, by adder a. *)

(* A listener allocates a request and calls addRequest with it. *)
CallAddRequest(a, r) ==
  /\ apc[a] = "idle"
  /\ r \notin InAdders \union InQueue \union InWorkers \union finished
  /\ apc' = [apc EXCEPT ![a] = "lock"]
  /\ areq' = [areq EXCEPT ![a] = r]
  /\ UNCHANGED <<requests, workers, workersMutex, workerVars, target, stopper, finished>>

(* Seeded fault: workersMutex is not taken for the hand-over. *)
LockWorkersUnguarded(a) ==
  /\ apc[a] = "lock"
  /\ workers # <<>>
  /\ apc' = [apc EXCEPT ![a] = "request"]
  /\ target' = [target EXCEPT ![a] = Head(workers)]
  /\ UNCHANGED <<requests, workers, workersMutex, workerVars, areq, stopper, finished>>

(* workersMutex is taken; an idle worker is there, and the lock is kept. *)
LockWorkers(a) ==
  /\ apc[a] = "lock"
  /\ workersMutex = NoThread
  /\ workers # <<>>
  /\ workersMutex' = a
  /\ apc' = [apc EXCEPT ![a] = "request"]
  /\ target' = [target EXCEPT ![a] = Head(workers)]
  /\ UNCHANGED <<requests, workers, workerVars, areq, stopper, finished>>

(* workersMutex is taken and released: no worker is idle. *)
NoIdleWorker(a) ==
  /\ apc[a] = "lock"
  /\ workersMutex = NoThread
  /\ workers = <<>>
  /\ apc' = [apc EXCEPT ![a] = "push"]
  /\ UNCHANGED <<requests, workers, workersMutex, workerVars, areq, target, stopper, finished>>

(* Seeded fault: setRequest sets the flag before it sets the pointer. *)
WriteReadyFirst(a) ==
  /\ apc[a] = "request"
  /\ ready' = [ready EXCEPT ![target[a]] = TRUE]
  /\ apc' = [apc EXCEPT ![a] = "ready"]
  /\ UNCHANGED <<requests, workers, workersMutex, request, running, notified, wpc,
                 areq, target, stopper, finished>>

(* Worker::setRequest, its first assignment. *)
WriteRequest(a) ==
  /\ apc[a] = "request"
  /\ request' = [request EXCEPT ![target[a]] = areq[a]]
  /\ apc' = [apc EXCEPT ![a] = "ready"]
  /\ UNCHANGED <<requests, workers, workersMutex, ready, running, notified, wpc,
                 areq, target, stopper, finished>>

(* Worker::setRequest, its second assignment. *)
WriteReady(a) ==
  /\ apc[a] = "ready"
  /\ ready' = [ready EXCEPT ![target[a]] = TRUE]
  /\ apc' = [apc EXCEPT ![a] = "notify"]
  /\ UNCHANGED <<requests, workers, workersMutex, request, running, notified, wpc,
                 areq, target, stopper, finished>>

(* The worker's mtx is taken, its cv notified (which only a worker asleep in
   wait_for feels), the front worker popped and both mutexes released. *)
NotifyAndPop(a) ==
  /\ apc[a] = "notify"
  /\ notified' = notified \union {w \in Workers : w = target[a] /\ wpc[w] = "waiting"}
  /\ workers' = Tail(workers)
  /\ workersMutex' = NoThread
  /\ apc' = [apc EXCEPT ![a] = "idle"]
  /\ areq' = [areq EXCEPT ![a] = NoRequest]
  /\ target' = [target EXCEPT ![a] = NoThread]
  /\ UNCHANGED <<requests, request, ready, running, wpc, stopper, finished>>

(* Seeded fault: a null pointer is appended in place of the argument. *)
PushNull(a) ==
  /\ apc[a] = "push"
  /\ requests' = Append(requests, NoRequest)
  /\ apc' = [apc EXCEPT ![a] = "idle"]
  /\ areq' = [areq EXCEPT ![a] = NoRequest]
  /\ UNCHANGED <<workers, workersMutex, workerVars, target, stopper, finished>>

(* The request is appended to the queue, under requestsMutex. *)
PushRequest(a) ==
  /\ apc[a] = "push"
  /\ requests' = Append(requests, areq[a])
  /\ apc' = [apc EXCEPT ![a] = "idle"]
  /\ areq' = [areq EXCEPT ![a] = NoRequest]
  /\ UNCHANGED <<workers, workersMutex, workerVars, target, stopper, finished>>

-----------------------------------------------------------------------------
(* Worker::run and addWorker, by worker w. *)

WorkerGoes(w, from, to) ==
  /\ wpc[w] = from
  /\ wpc' = [wpc EXCEPT ![w] = to]
  /\ UNCHANGED <<workersMutex, adderVars, stopper>>

(* The outer loop ends: stop was called. *)
Exit(w) ==
  /\ WorkerGoes(w, "loop", "exited")
  /\ ~running[w]
  /\ UNCHANGED <<requests, workers, request, ready, running, notified, finished>>

(* ready is cleared and the request's process is called. *)
Execute(w) ==
  /\ WorkerGoes(w, "loop", "busy")
  /\ running[w]
  /\ ready[w]
  /\ ready' = [ready EXCEPT ![w] = FALSE]
  /\ UNCHANGED <<requests, workers, request, running, notified, finished>>

NothingToExecute(w) ==
  /\ WorkerGoes(w, "loop", "offer")
  /\ running[w]
  /\ ~ready[w]
  /\ UNCHANGED <<requests, workers, request, ready, running, notified, finished>>

(* Seeded fault: a worker that has finished joins the idle queue at once,
   without looking for a waiting request. *)
FinishAndPark(w) ==
  /\ WorkerGoes(w, "busy", "park")
  /\ finished' = finished \union {request[w]}
  /\ UNCHANGED <<requests, workers, request, ready, running, notified>>

(* process and finish have returned. *)
Finish(w) ==
  /\ WorkerGoes(w, "busy", "offer")
  /\ finished' = finished \union {request[w]}
  /\ UNCHANGED <<requests, workers, request, ready, running, notified>>

(* Seeded fault: the request handed to the worker stays in the queue. *)
TakeRequestNoPop(w) ==
  /\ WorkerGoes(w, "offer", "loop")
  /\ requests # <<>>
  /\ request' = [request EXCEPT ![w] = Head(requests)]
  /\ ready' = [ready EXCEPT ![w] = TRUE]
  /\ UNCHANGED <<requests, workers, running, notified, finished>>

(* addWorker finds a waiting request, under requestsMutex. *)
TakeRequest(w) ==
  /\ WorkerGoes(w, "offer", "loop")
  /\ requests # <<>>
  /\ request' = [request EXCEPT ![w] = Head(requests)]
  /\ ready' = [ready EXCEPT ![w] = TRUE]
  /\ requests' = Tail(requests)
  /\ UNCHANGED <<workers, running, notified, finished>>

(* addWorker finds no request and releases requestsMutex. *)
NoRequestWaiting(w) ==
  /\ WorkerGoes(w, "offer", "park")
  /\ requests = <<>>
  /\ UNCHANGED <<requests, workers, request, ready, running, notified, finished>>

(* addWorker appends the worker to the idle queue, under workersMutex. *)
Park(w) ==
  /\ WorkerGoes(w, "park", "check")
  /\ workersMutex = NoThread
  /\ workers' = Append(workers, w)
  /\ UNCHANGED <<requests, request, ready, running, notified, finished>>

(* Seeded fault: the wait loop does not look at running. *)
StopWaitingIfReady(w) ==
  /\ WorkerGoes(w, "check", "loop")
  /\ ready[w]
  /\ UNCHANGED <<requests, workers, request, ready, running, notified, finished>>

(* The test of the wait loop, outside any lock: leave it... *)
StopWaiting(w) ==
  /\ WorkerGoes(w, "check", "loop")
  /\ ready[w] \/ ~running[w]
  /\ UNCHANGED <<requests, workers, request, ready, running, notified, finished>>

(* ... or go on to wait. *)
KeepWaiting(w) ==
  /\ WorkerGoes(w, "check", "sleep")
  /\ ~ready[w] /\ running[w]
  /\ UNCHANGED <<requests, workers, request, ready, running, notified, finished>>

(* mtx is locked and wait_for entered: what was notified before is missed. *)
Sleep(w) ==
  /\ WorkerGoes(w, "sleep", "waiting")
  /\ UNCHANGED <<requests, workers, request, ready, running, notified, finished>>

(* Seeded fault: an untimed wait, which ends only when notified. *)
WakeNotified(w) ==
  /\ WorkerGoes(w, "waiting", "check")
  /\ w \in notified
  /\ notified' = notified \ {w}
  /\ UNCHANGED <<requests, workers, request, ready, running, finished>>

(* Seeded fault: a worker that wakes up offers itself again. *)
WakeAndOffer(w) ==
  /\ WorkerGoes(w, "waiting", "offer")
  /\ notified' = notified \ {w}
  /\ UNCHANGED <<requests, workers, request, ready, running, finished>>

(* wait_for returns: notified, spuriously or because the second is over. *)
Wake(w) ==
  /\ WorkerGoes(w, "waiting", "check")
  /\ notified' = notified \ {w}
  /\ UNCHANGED <<requests, workers, request, ready, running, finished>>

-----------------------------------------------------------------------------
(* Dispatcher::stop. *)

CallStop ==
  /\ stopper = "none"
  /\ stopper' = "stopping"
  /\ UNCHANGED <<requests, workers, workersMutex, workerVars, adderVars, finished>>

StopWorker(w) ==
  /\ stopper = "stopping"
  /\ running[w]
  /\ running' = [running EXCEPT ![w] = FALSE]
  /\ UNCHANGED <<requests, workers, workersMutex, request, ready, notified, wpc,
                 adderVars, stopper, finished>>

(* Every worker was told to stop, and every thread has been joined. *)
JoinThreads ==
  /\ stopper = "stopping"
  /\ \A w \in Workers : ~running[w] /\ wpc[w] = "exited"
  /\ stopper' = "joined"
  /\ UNCHANGED <<requests, workers, workersMutex, workerVars, adderVars, finished>>

-----------------------------------------------------------------------------
AddRequestStep(a) ==
  \/ LockWorkers(a)
  \/ NoIdleWorker(a)
  \/ WriteRequest(a)
  \/ WriteReady(a)
  \/ NotifyAndPop(a)
  \/ PushRequest(a)

WorkerStep(w) ==
  \/ Exit(w)
  \/ Execute(w)
  \/ NothingToExecute(w)
  \/ Finish(w)
  \/ TakeRequest(w)
  \/ NoRequestWaiting(w)
  \/ Park(w)
  \/ StopWaiting(w)
  \/ KeepWaiting(w)
  \/ Sleep(w)
  \/ Wake(w)

Next ==
  \/ \E a \in Adders, r \in Requests : CallAddRequest(a, r)
  \/ \E a \in Adders : AddRequestStep(a)
  \/ \E w \in Workers : WorkerStep(w)
  \/ CallStop
  \/ \E w \in Workers : StopWorker(w)
  \/ JoinThreads

Spec == Init /\ [][Next]_vars

(* Threads that can run do run, and the handlers a request calls return.
   Nobody has to submit a request or to call stop. *)
Fairness ==
  /\ \A a \in Adders : WF_vars(AddRequestStep(a))
  /\ \A w \in Workers : WF_vars(WorkerStep(w))
  /\ \A w \in Workers : WF_vars(StopWorker(w))
  /\ WF_vars(JoinThreads)

FairSpec == Spec /\ Fairness

-----------------------------------------------------------------------------
(* Correctness. *)

(* No request object is ever reachable from two places: two threads that    *)
(* both execute it, or one that executes what another has deleted, would    *)
(* each reach it through a place of their own.                              *)
ExactlyOnePlace ==
  /\ \A a, b \in Adders :
       HeldByAdder(a) /\ HeldByAdder(b) /\ areq[a] = areq[b] => a = b
  /\ \A v, w \in Workers :
       HeldByWorker(v) /\ HeldByWorker(w) /\ request[v] = request[w] => v = w
  /\ \A i, j \in 1 .. Len(requests) : requests[i] = requests[j] => i = j
  /\ InAdders \intersect (InQueue \union InWorkers \union finished) = {}
  /\ InQueue \intersect (InWorkers \union finished) = {}
  /\ InWorkers \intersect finished = {}

(* A worker stands in the idle queue at most once, or it would be handed a  *)
(* second request while it executes the first.                              *)
IdleOnce ==
  \A i, j \in 1 .. Len(workers) : workers[i] = workers[j] => i = j

(* A worker that sees ready set finds a request to execute, although        *)
(* setRequest writes the two fields one after the other and run reads them  *)
(* without a lock.                                                          *)
ReadyMeansRequest ==
  \A w \in Workers : HeldByWorker(w) => request[w] \in Requests

(* setRequest, called by another thread or by the worker itself, never      *)
(* overwrites a request that the worker has not finished.                   *)
NeverOverwritten ==
  [][\A w \in Workers : request'[w] # request[w] => ~HeldByWorker(w)]_vars

(* What the pool of the abstract specification sees. *)
Pool == INSTANCE RequestPool WITH
  pending   <- InAdders \union InQueue \union {request[w] : w \in {v \in Workers : ready[v]}},
  executing <- [w \in Workers |-> IF wpc[w] = "busy" THEN request[w] ELSE NoRequest],
  done      <- finished

(* addRequest, addWorker and Worker::run together implement the pool: each  *)
(* request is executed once, by one worker, and none is dropped.            *)
ImplementsPool == Pool!Spec

(* A request that was handed to a worker is executed, even when the worker  *)
(* was about to sleep and missed the notification, unless stop is called.   *)
HandedIsExecuted ==
  \A r \in Requests :
    (\E w \in Workers : ready[w] /\ request[w] = r) ~> (r \in finished \/ stopper # "none")

(* A request that waits in the queue while some worker is executing will    *)
(* itself be executed, unless stop is called.                               *)
QueueDrainsBehindWork ==
  \A r \in Requests :
    (r \in InQueue /\ \E w \in Workers : wpc[w] = "busy")
       ~> (r \in finished \/ stopper # "none")

(* stop returns: a worker that sleeps is never notified by it, and still    *)
(* ends.                                                                    *)
StopReturns == stopper = "stopping" ~> stopper = "joined"

(* "Check whether there's a worker available in the workers queue, else add *)
(* the request to the requests queue", and a worker that finds a waiting    *)
(* request takes it: a request should not be left waiting when every worker *)
(* sits in the idle queue and no thread is about to hand anything over.     *)
NoStrandedRequest ==
  ~ /\ requests # <<>>
    /\ stopper = "none"
    /\ \A w \in Workers : wpc[w] = "waiting" /\ ~ready[w]
    /\ \A a \in Adders : apc[a] = "idle"

=============================================================================
