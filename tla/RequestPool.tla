----------------------------- MODULE RequestPool -----------------------------
(***************************************************************************)
(* What the Dispatcher promises to the threads that hand it requests.      *)
(*                                                                         *)
(* A pool of workers executes requests.  A request that was submitted is   *)
(* pending until one worker starts it; a worker executes one request at a  *)
(* time; a request is executed once and never dropped.  Nothing is         *)
(* promised about the order in which pending requests are started.         *)
(***************************************************************************)
CONSTANTS Requests,   \* the request objects that may be submitted
          Workers,    \* the worker threads
          NoRequest   \* the null request pointer

VARIABLES pending,    \* requests submitted and not yet started
          executing,  \* executing[w]: the request worker w is executing
          done        \* requests whose execution has ended

poolVars == <<pending, executing, done>>

Running == {executing[w] : w \in Workers} \ {NoRequest}

Init ==
  /\ pending = {}
  /\ executing = [w \in Workers |-> NoRequest]
  /\ done = {}

(* A thread hands in a request object that the pool has never seen. *)
Submit(r) ==
  /\ r \notin pending \union Running \union done
  /\ pending' = pending \union {r}
  /\ UNCHANGED <<executing, done>>

Start(w, r) ==
  /\ executing[w] = NoRequest
  /\ r \in pending
  /\ executing' = [executing EXCEPT ![w] = r]
  /\ pending' = pending \ {r}
  /\ UNCHANGED done

Finish(w) ==
  /\ executing[w] # NoRequest
  /\ done' = done \union {executing[w]}
  /\ executing' = [executing EXCEPT ![w] = NoRequest]
  /\ UNCHANGED pending

Next ==
  \/ \E r \in Requests : Submit(r)
  \/ \E w \in Workers, r \in Requests : Start(w, r)
  \/ \E w \in Workers : Finish(w)

Spec == Init /\ [][Next]_poolVars

=============================================================================
