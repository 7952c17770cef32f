----------------------------- MODULE ChronoTrigger -----------------------------
(***************************************************************************)
(* ChronoTrigger (chronotrigger.cpp), the restartable periodic timer that  *)
(* NmqttClient uses as its ping timer.                                     *)
(*                                                                         *)
(* The timer's own thread executes run.  Every load and store of one of    *)
(* the four atomic flags is a step, because no lock orders them: restart   *)
(* and stop set their flags and notify without taking the mutex that run   *)
(* waits with.  Any caller may call restart (sendMessage does, and so does *)
(* the callback, which sends a PINGREQ); one owner calls start, finish and *)
(* stop, as connect and disconnect do.                                     *)
(*                                                                         *)
(* Time is discrete and computation takes none of it: Tick is possible     *)
(* only while the timer's thread sleeps and nobody is inside a call, other *)
(* than in the join of stop.                                               *)
(***************************************************************************)
EXTENDS Naturals

CONSTANTS Callers,   \* the threads that use the timer
          Owner,     \* the one of them that starts, finishes and stops it
          Interval   \* the interval given to start, in ticks

ASSUME ChronoTriggerAssumption ==
  /\ Owner \in Callers
  /\ Interval \in Nat \ {0}

VARIABLES
  running, restarting, signaled, stopping,  \* the flags
  single,    \* the argument of start: fire once
  tpc,       \* where the thread is in run; "none": there is no thread to join
  notified,  \* the thread sleeps in wait_until and cv was notified
  elapsed,   \* time since startTime
  cpc,       \* cpc[c]: where caller c is in restart or stop
  age,       \* time since the last start, restart or callback
  fired      \* callbacks since the last start (0, 1 or more)

flags  == <<running, restarting, signaled, stopping>>
clocks == <<elapsed, age>>
vars   == <<flags, single, tpc, notified, clocks, cpc, fired>>

Resets   == {"reset1", "reset2", "reset3", "reset4"}
Waits    == {"waiting", "woken", "clear"}
TimerPC  == Resets \union Waits \union
            {"none", "arm", "flags", "stopping?", "callback", "ping1", "ping2", "after", "ended",
             "aborted"}
CallerPC == {"idle", "restart2", "restart3", "stop2", "stop3", "join", "aborted"}

(* The bound of age: enough to see KeepAlive violated. *)
MaxAge == 2 * Interval + 1

(* The type of every variable. *)
TypeOK ==
  /\ running \in BOOLEAN /\ restarting \in BOOLEAN
  /\ signaled \in BOOLEAN /\ stopping \in BOOLEAN
  /\ single \in BOOLEAN
  /\ tpc \in TimerPC
  /\ notified \in BOOLEAN
  /\ elapsed \in 0 .. Interval
  /\ cpc \in [Callers -> CallerPC]
  /\ age \in 0 .. MaxAge
  /\ fired \in 0 .. 2

(* The constructor leaves the flags uninitialised. *)
Init ==
  /\ running \in BOOLEAN /\ restarting \in BOOLEAN
  /\ signaled \in BOOLEAN /\ stopping \in BOOLEAN
  /\ single = FALSE
  /\ tpc = "none"
  /\ notified = FALSE
  /\ elapsed = 0
  /\ cpc = [c \in Callers |-> "idle"]
  /\ age = 0
  /\ fired = 0

-----------------------------------------------------------------------------
(* run, by the timer's thread. *)

TimerGoes(from, to) == tpc = from /\ tpc' = to

Others == <<single, cpc>>

(* The stores of lines 39-42, and again of lines 57-60. *)
ResetRunning ==
  /\ TimerGoes("reset1", "reset2")
  /\ running' = TRUE
  /\ UNCHANGED <<restarting, signaled, stopping, notified, clocks, fired, Others>>

ResetSignaled ==
  /\ TimerGoes("reset2", "reset3")
  /\ signaled' = FALSE
  /\ UNCHANGED <<running, restarting, stopping, notified, clocks, fired, Others>>

ResetRestarting ==
  /\ TimerGoes("reset3", "reset4")
  /\ restarting' = FALSE
  /\ UNCHANGED <<running, signaled, stopping, notified, clocks, fired, Others>>

ResetStopping ==
  /\ TimerGoes("reset4", "arm")
  /\ stopping' = FALSE
  /\ UNCHANGED <<running, restarting, signaled, notified, clocks, fired, Others>>

(* Seeded fault: the new interval begins where the last one should have
   ended, instead of now. *)
ArmFromEnd ==
  /\ TimerGoes("arm", "waiting")
  /\ elapsed' = elapsed - Interval
  /\ UNCHANGED <<flags, notified, age, fired, Others>>

(* startTime is taken and the thread begins to wait; a notification that
   came before finds nobody waiting. *)
Arm ==
  /\ TimerGoes("arm", "waiting")
  /\ elapsed' = 0
  /\ UNCHANGED <<flags, notified, age, fired, Others>>

(* wait_until returns before the end: notified or spuriously. *)
Wake ==
  /\ TimerGoes("waiting", "woken")
  /\ notified' = FALSE
  /\ UNCHANGED <<flags, clocks, fired, Others>>

(* Woken by a call: leave the wait loop, clearing signaled on the way. *)
SeeSignal ==
  /\ TimerGoes("woken", "clear")
  /\ signaled
  /\ UNCHANGED <<flags, notified, clocks, fired, Others>>

ClearSignal ==
  /\ TimerGoes("clear", "flags")
  /\ signaled' = FALSE
  /\ UNCHANGED <<running, restarting, stopping, notified, clocks, fired, Others>>

(* Seeded fault: a spurious wake-up begins the interval anew. *)
WaitFromNow ==
  /\ TimerGoes("woken", "waiting")
  /\ ~signaled /\ elapsed < Interval
  /\ elapsed' = 0
  /\ UNCHANGED <<flags, notified, age, fired, Others>>

(* Woken for nothing: wait on until endTime. *)
WaitOn ==
  /\ TimerGoes("woken", "waiting")
  /\ ~signaled /\ elapsed < Interval
  /\ UNCHANGED <<flags, notified, clocks, fired, Others>>

(* The wait times out, or the wait loop's test finds endTime reached. *)
TimeOut ==
  /\ \/ TimerGoes("waiting", "flags")
     \/ TimerGoes("woken", "flags") /\ ~signaled
  /\ elapsed = Interval
  /\ notified' = FALSE
  /\ UNCHANGED <<flags, clocks, fired, Others>>

SeeRestart ==
  /\ TimerGoes("flags", "reset1")
  /\ restarting
  /\ UNCHANGED <<flags, notified, clocks, fired, Others>>

NoRestart ==
  /\ TimerGoes("flags", "stopping?")
  /\ ~restarting
  /\ UNCHANGED <<flags, notified, clocks, fired, Others>>

SeeStop ==
  /\ TimerGoes("stopping?", "ended")
  /\ stopping
  /\ UNCHANGED <<flags, notified, clocks, fired, Others>>

(* Seeded fault: the callback is called without a look at stopping. *)
CallAlways ==
  /\ TimerGoes("stopping?", "callback")
  /\ age' = 0
  /\ fired' = IF fired < 2 THEN fired + 1 ELSE 2
  /\ UNCHANGED <<flags, notified, elapsed, Others>>

(* The callback is called: pingreqHandler, which calls sendMessage. *)
Call ==
  /\ TimerGoes("stopping?", "callback")
  /\ ~stopping
  /\ age' = 0
  /\ fired' = IF fired < 2 THEN fired + 1 ELSE 2
  /\ UNCHANGED <<flags, notified, elapsed, Others>>

(* sendMessage fails and does not restart the timer. *)
PingFails ==
  /\ TimerGoes("callback", "after")
  /\ UNCHANGED <<flags, notified, clocks, fired, Others>>

(* sendMessage sends the PINGREQ and calls restart: its stores, and a
   notification that finds nobody waiting. *)
PingSent ==
  /\ TimerGoes("callback", "ping1")
  /\ UNCHANGED <<flags, notified, clocks, fired, Others>>

PingRestarting ==
  /\ TimerGoes("ping1", "ping2")
  /\ restarting' = TRUE
  /\ UNCHANGED <<running, signaled, stopping, notified, clocks, fired, Others>>

PingSignaled ==
  /\ TimerGoes("ping2", "after")
  /\ signaled' = TRUE
  /\ UNCHANGED <<running, restarting, stopping, notified, clocks, fired, Others>>

(* The loop ends after a single shot, or because finish was called. *)
EndLoop ==
  /\ TimerGoes("after", "ended")
  /\ single \/ ~running
  /\ UNCHANGED <<flags, notified, clocks, fired, Others>>

(* Seeded fault: single is not looked at. *)
LoopAlways ==
  /\ TimerGoes("after", "arm")
  /\ running
  /\ UNCHANGED <<flags, notified, clocks, fired, Others>>

(* Seeded fault: running is not looked at. *)
LoopOn ==
  /\ TimerGoes("after", "arm")
  /\ ~single
  /\ UNCHANGED <<flags, notified, clocks, fired, Others>>

Loop ==
  /\ TimerGoes("after", "arm")
  /\ ~single /\ running
  /\ UNCHANGED <<flags, notified, clocks, fired, Others>>

TimerStep ==
  \/ ResetRunning \/ ResetSignaled \/ ResetRestarting \/ ResetStopping
  \/ Arm
  \/ SeeSignal \/ ClearSignal \/ WaitOn \/ TimeOut
  \/ SeeRestart \/ NoRestart \/ SeeStop \/ Call
  \/ PingFails \/ PingSent \/ PingRestarting \/ PingSignaled
  \/ EndLoop \/ Loop

-----------------------------------------------------------------------------
(* The callers. *)

CallerGoes(c, from, to) == cpc[c] = from /\ cpc' = [cpc EXCEPT ![c] = to]

Notify == notified' = (notified \/ tpc = "waiting")

(* start creates the thread, which begins with the resets of run. *)
Start(c, s) ==
  /\ c = Owner /\ cpc[c] = "idle"
  /\ tpc = "none"
  /\ tpc' = "reset1"
  /\ single' = s
  /\ age' = 0
  /\ fired' = 0
  /\ UNCHANGED <<flags, notified, elapsed, cpc>>

(* start assigns to a thread that was not joined: std::terminate ends the
   process. *)
StartTwice(c) ==
  /\ c = Owner /\ cpc[c] = "idle"
  /\ tpc # "none"
  /\ tpc' = "aborted"
  /\ cpc' = [d \in Callers |-> "aborted"]
  /\ UNCHANGED <<flags, single, notified, clocks, fired>>

RestartCalled(c) ==
  /\ CallerGoes(c, "idle", "restart2")
  /\ restarting' = TRUE
  /\ age' = 0
  /\ UNCHANGED <<running, signaled, stopping, single, tpc, notified, elapsed, fired>>

RestartSignaled(c) ==
  /\ CallerGoes(c, "restart2", "restart3")
  /\ signaled' = TRUE
  /\ UNCHANGED <<running, restarting, stopping, single, tpc, notified, clocks, fired>>

RestartNotifies(c) ==
  /\ CallerGoes(c, "restart3", "idle")
  /\ Notify
  /\ UNCHANGED <<flags, single, tpc, clocks, fired>>

Finish(c) ==
  /\ c = Owner /\ cpc[c] = "idle"
  /\ running' = FALSE
  /\ UNCHANGED <<restarting, signaled, stopping, single, tpc, notified, clocks, cpc, fired>>

StopCalled(c) ==
  /\ c = Owner
  /\ CallerGoes(c, "idle", "stop2")
  /\ signaled' = TRUE
  /\ UNCHANGED <<running, restarting, stopping, single, tpc, notified, clocks, fired>>

StopStopping(c) ==
  /\ CallerGoes(c, "stop2", "stop3")
  /\ stopping' = TRUE
  /\ UNCHANGED <<running, restarting, signaled, single, tpc, notified, clocks, fired>>

StopNotifies(c) ==
  /\ CallerGoes(c, "stop3", "join")
  /\ Notify
  /\ UNCHANGED <<flags, single, tpc, clocks, fired>>

(* Seeded fault: the thread is detached, not joined. *)
Detach(c) ==
  /\ CallerGoes(c, "join", "idle")
  /\ tpc' = "none"
  /\ UNCHANGED <<flags, single, notified, clocks, fired>>

(* join returns when the thread has ended, and throws when there is none. *)
Join(c) ==
  /\ CallerGoes(c, "join", "idle")
  /\ tpc \in {"ended", "none"}
  /\ tpc' = "none"
  /\ UNCHANGED <<flags, single, notified, clocks, fired>>

(* A call that was begun goes on. *)
CallStep(c) ==
  \/ RestartSignaled(c) \/ RestartNotifies(c)
  \/ StopStopping(c) \/ StopNotifies(c) \/ Join(c)

-----------------------------------------------------------------------------
(* Nobody can compute: the timer sleeps, has ended or was not started, and
   the callers are outside the timer or wait for its thread. *)
Quiet ==
  /\ \/ tpc \in {"none", "ended"}
     \/ tpc = "waiting" /\ ~notified /\ elapsed < Interval
  /\ \A c \in Callers : cpc[c] = "idle" \/ (cpc[c] = "join" /\ tpc = "waiting")

Tick ==
  /\ Quiet
  /\ elapsed' = IF tpc = "waiting" THEN elapsed + 1 ELSE elapsed
  /\ age' = IF age < MaxAge THEN age + 1 ELSE age
  /\ UNCHANGED <<flags, single, tpc, notified, cpc, fired>>

Next ==
  \/ TimerStep
  \/ Wake
  \/ Tick
  \/ \E c \in Callers :
       \/ CallStep(c)
       \/ \E s \in BOOLEAN : Start(c, s)
       \/ StartTwice(c)
       \/ RestartCalled(c)
       \/ Finish(c)
       \/ StopCalled(c)

Spec == Init /\ [][Next]_vars

(* The threads run and time passes; a thread that was notified wakes up.
   Spurious wake-ups may come at any time but cannot stop the clock. *)
Fairness ==
  /\ WF_vars(TimerStep)
  /\ WF_vars(notified /\ Wake)
  /\ SF_vars(Tick)
  /\ \A c \in Callers : WF_vars(CallStep(c))

FairSpec == Spec /\ Fairness

-----------------------------------------------------------------------------
(* Correctness. *)

(* While the timer runs, no more than two intervals pass without a call of  *)
(* the callback or of restart: what keeps the connection alive.  (Two, not  *)
(* one: the callback's own restart makes run wait once more.)               *)
KeepAlive == tpc \notin {"none", "ended", "aborted"} => age <= 2 * Interval

(* A single-shot timer calls the callback once, however often it is         *)
(* restarted.                                                               *)
SingleShot == single => fired <= 1

Timer == INSTANCE PingTimer WITH
  phase <- CASE tpc \in {"none", "aborted"} -> tpc
             [] tpc \in {"callback", "ping1", "ping2", "after"} -> "calling"
             [] OTHER -> "on",
  owner <- IF cpc[Owner] \in {"stop2", "stop3", "join"} THEN "stopping" ELSE "idle"

(* The timer keeps what PingTimer promises: when stop returns, wherever it  *)
(* has found the thread and whatever other callers restart meanwhile, no    *)
(* callback is running and none comes before the next start.                *)
ImplementsTimer == Timer!Spec

(* The thread is past its first stores and nobody's restart is under way. *)
Settled ==
  /\ tpc \in Waits \union {"arm", "flags", "stopping?"}
  /\ ~restarting
  /\ \A c \in Callers : cpc[c] \notin {"restart2", "restart3"}

(* A stop that finds the timer settled ends it, unless another restart is   *)
(* called meanwhile, even when its notification comes too early.            *)
SettledStopEnds == (Settled /\ stopping) ~> (tpc \in {"ended", "none", "aborted"} \/ restarting)

(* After finish the timer ends by itself, if nobody restarts it.            *)
FinishEnds == (Settled /\ ~running) ~> (tpc \in {"ended", "none", "aborted"} \/ restarting)

(* "Signal the condition variable, end the timer": stop returns.            *)
StopReturns == (cpc[Owner] = "stop2") ~> (cpc[Owner] \in {"idle", "aborted"})

=============================================================================
