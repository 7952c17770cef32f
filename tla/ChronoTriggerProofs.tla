-------------------------- MODULE ChronoTriggerProofs --------------------------
(***************************************************************************)
(* Proofs about ChronoTrigger, for any callers and any interval.           *)
(*                                                                         *)
(* KeepAlive is a bound on real time, so the invariant that proves it says *)
(* how age and elapsed are related wherever the thread can be: a pending   *)
(* restart is never older than the wait that will notice it, and the wait  *)
(* that follows it starts when age is at most one interval.                *)
(***************************************************************************)
EXTENDS ChronoTrigger, TLAPS

Calling == {"callback", "ping1", "ping2", "after"}
Idle    == {"none", "ended", "aborted"}

AgeInv ==
  /\ tpc \in Waits \union {"flags"} =>
       /\ age <= elapsed + Interval
       /\ restarting => age <= elapsed
  /\ tpc = "stopping?" => age <= 2 * Interval
  /\ tpc \in Resets \union {"arm"} => age <= Interval
  /\ tpc \in {"reset4", "arm"} /\ restarting => age = 0
  /\ tpc \in Calling => age = 0

(* A single-shot timer has not called the callback before it does. *)
FiredInv ==
  single => /\ tpc \notin Idle \union Calling => fired = 0
            /\ fired <= 1

(* TypeOK in two parts, because no one prover does both well. *)
FlagsOK ==
  /\ running \in BOOLEAN /\ restarting \in BOOLEAN
  /\ signaled \in BOOLEAN /\ stopping \in BOOLEAN
  /\ single \in BOOLEAN /\ notified \in BOOLEAN

RestOK ==
  /\ tpc \in TimerPC
  /\ elapsed \in 0 .. Interval
  /\ cpc \in [Callers -> CallerPC]
  /\ age \in 0 .. MaxAge
  /\ fired \in 0 .. 2

IndInv == RestOK /\ AgeInv /\ FiredInv

(* No thread, no age and no shot initially. *)
LEMMA InitIndInv == Init => IndInv
<1> SUFFICES ASSUME Init PROVE IndInv
  OBVIOUS
<1> USE ChronoTriggerAssumption DEF Init
<1>1. RestOK
  BY DEF RestOK, TimerPC, CallerPC, Resets, Waits, MaxAge
<1>2. AgeInv
  BY DEF AgeInv, Waits, Resets, Calling
<1>3. FiredInv
  BY DEF FiredInv
<1> QED
  BY <1>1, <1>2, <1>3 DEF IndInv

(* The steps of the timer's thread. *)
LEMMA TimerInv == ASSUME IndInv, TimerStep \/ Wake PROVE IndInv'
<1> USE ChronoTriggerAssumption
    DEF IndInv, RestOK, TimerPC, Resets, Waits, MaxAge, AgeInv, FiredInv, Calling, Idle,
        TimerGoes, flags, clocks, Others
<1>1. CASE ResetRunning \/ ResetSignaled \/ ResetRestarting \/ ResetStopping
  BY <1>1 DEF ResetRunning, ResetSignaled, ResetRestarting, ResetStopping
<1>2. CASE Arm
  BY <1>2 DEF Arm
<1>3. CASE Wake \/ SeeSignal \/ ClearSignal \/ WaitOn \/ TimeOut
  BY <1>3 DEF Wake, SeeSignal, ClearSignal, WaitOn, TimeOut
<1>4. CASE SeeRestart \/ NoRestart \/ SeeStop
  BY <1>4 DEF SeeRestart, NoRestart, SeeStop
<1>5. CASE Call
  BY <1>5 DEF Call
<1>6. CASE PingFails \/ PingSent \/ PingRestarting \/ PingSignaled
  BY <1>6 DEF PingFails, PingSent, PingRestarting, PingSignaled
<1>7. CASE EndLoop \/ Loop
  BY <1>7 DEF EndLoop, Loop
<1> QED
  BY <1>1, <1>2, <1>3, <1>4, <1>5, <1>6, <1>7 DEF TimerStep

(* The steps of a caller. *)
LEMMA CallerInv ==
  ASSUME IndInv, NEW c \in Callers,
         \/ CallStep(c)
         \/ \E s \in BOOLEAN : Start(c, s)
         \/ StartTwice(c) \/ RestartCalled(c) \/ Finish(c) \/ StopCalled(c)
  PROVE  IndInv'
<1> USE ChronoTriggerAssumption
    DEF IndInv, RestOK, TimerPC, CallerPC, Resets, Waits, MaxAge, AgeInv, FiredInv, Calling,
        Idle, CallerGoes, Notify, flags, clocks
<1>1. CASE RestartSignaled(c) \/ RestartNotifies(c) \/ StopStopping(c) \/ StopNotifies(c)
  BY <1>1 DEF RestartSignaled, RestartNotifies, StopStopping, StopNotifies
<1>2. CASE Join(c)
  BY <1>2 DEF Join
<1>3. ASSUME NEW s \in BOOLEAN, Start(c, s) PROVE IndInv'
  BY <1>3 DEF Start
<1>4. CASE StartTwice(c)
  BY <1>4 DEF StartTwice
<1>5. CASE RestartCalled(c)
  BY <1>5 DEF RestartCalled
<1>6. CASE Finish(c) \/ StopCalled(c)
  BY <1>6 DEF Finish, StopCalled
<1> QED
  BY <1>1, <1>2, <1>3, <1>4, <1>5, <1>6 DEF CallStep

(* Time passes only while the thread waits with time left, or is not there. *)
LEMMA TickInv == ASSUME IndInv, Tick PROVE IndInv'
<1> USE ChronoTriggerAssumption
    DEF IndInv, RestOK, TimerPC, Resets, Waits, MaxAge, AgeInv, FiredInv, Calling, Idle,
        Tick, Quiet, flags
<1>1. CASE tpc = "waiting"
  BY <1>1
<1>2. CASE tpc \in {"none", "ended"}
  BY <1>2
<1> QED
  BY <1>1, <1>2

(* Age and shots stay within what the position of the thread allows.        *)
THEOREM Invariance == Spec => []IndInv
<1>1. ASSUME IndInv, [Next]_vars PROVE IndInv'
  <2>1. CASE UNCHANGED vars
    BY <1>1, <2>1 DEF vars, flags, clocks, IndInv, RestOK, AgeInv, FiredInv
  <2> QED
    BY <1>1, <2>1, TimerInv, CallerInv, TickInv DEF Next
<1> QED
  BY InitIndInv, <1>1, PTL DEF Spec

(* Every store to a flag stores a Boolean. *)
LEMMA FlagsStep == ASSUME FlagsOK, [Next]_vars PROVE FlagsOK'
<1> USE DEF FlagsOK, flags, clocks, Others
<1>1. CASE TimerStep
  BY <1>1 DEF TimerStep, ResetRunning, ResetSignaled, ResetRestarting, ResetStopping, Arm,
     SeeSignal, ClearSignal, WaitOn, TimeOut, SeeRestart, NoRestart, SeeStop, Call, PingFails,
     PingSent, PingRestarting, PingSignaled, EndLoop, Loop
<1>2. CASE Wake \/ Tick \/ UNCHANGED vars
  BY <1>2 DEF Wake, Tick, vars
<1>3. ASSUME NEW c \in Callers,
             CallStep(c) \/ StartTwice(c) \/ RestartCalled(c) \/ Finish(c) \/ StopCalled(c)
      PROVE  FlagsOK'
  BY <1>3 DEF CallStep, RestartSignaled, RestartNotifies, StopStopping, StopNotifies, Join,
     StartTwice, RestartCalled, Finish, StopCalled, Notify
<1>4. ASSUME NEW c \in Callers, NEW s \in BOOLEAN, Start(c, s) PROVE FlagsOK'
  BY <1>4 DEF Start
<1> QED
  BY <1>1, <1>2, <1>3, <1>4 DEF Next

(* The variables keep their types. *)
THEOREM TypeCorrect == Spec => []TypeOK
<1>1. Init => FlagsOK
  BY DEF Init, FlagsOK
<1>2. FlagsOK /\ RestOK => TypeOK
  BY DEF FlagsOK, RestOK, TypeOK
<1> QED
  BY <1>1, <1>2, FlagsStep, Invariance, PTL DEF IndInv, Spec

(* Two intervals never pass without a ping or a restart while the timer     *)
(* runs, whatever the senders, spurious wake-ups and lost notifications do. *)
THEOREM KeepsAlive == Spec => []KeepAlive
<1>1. IndInv => KeepAlive
  BY ChronoTriggerAssumption
     DEF IndInv, RestOK, TimerPC, AgeInv, Calling, KeepAlive, Waits, Resets, MaxAge
<1> QED
  BY Invariance, <1>1, PTL

(* A single-shot timer calls the callback at most once. *)
THEOREM FiresOnce == Spec => []SingleShot
<1>1. IndInv => SingleShot
  BY DEF IndInv, FiredInv, SingleShot
<1> QED
  BY Invariance, <1>1, PTL
-----------------------------------------------------------------------------
(* ChronoTrigger implements PingTimer. *)

(* The refinement mapping. *)
Phase == CASE tpc \in {"none", "aborted"} -> tpc
           [] tpc \in {"callback", "ping1", "ping2", "after"} -> "calling"
           [] OTHER -> "on"
Stopping == cpc[Owner] \in {"stop2", "stop3", "join"}

(* Only the owner stops the timer. *)
OwnerInv ==
  /\ cpc \in [Callers -> CallerPC]
  /\ \A c \in Callers : cpc[c] \in {"stop2", "stop3", "join"} => c = Owner

(* What a step does that PingTimer sees. *)
Seen ==
  \/ Phase' = Phase /\ Stopping' = Stopping
  \/ Phase = "none" /\ Phase' = "on" /\ ~Stopping /\ ~Stopping'
  \/ Phase = "on" /\ Phase' = "calling" /\ Stopping' = Stopping
  \/ Phase = "calling" /\ Phase' = "on" /\ Stopping' = Stopping
  \/ Phase' = Phase /\ ~Stopping /\ Stopping'
  \/ Phase \in {"none", "on"} /\ Phase' = "none" /\ Stopping /\ ~Stopping'
  \/ Phase' = "aborted" /\ ~Stopping'

(* A call that PingTimer sees or not is one of its steps. *)
LEMMA SeenSteps == ASSUME Seen PROVE [Timer!Next]_(Timer!timerVars)
BY DEF Seen, Phase, Stopping, Timer!Next, Timer!Start, Timer!Call, Timer!CallEnds,
       Timer!CallStop, Timer!StopReturns, Timer!Abort, Timer!timerVars

(* The thread calls back from nowhere but "stopping?", and not twice.       *)
LEMMA ThreadSeen == ASSUME TimerStep \/ Wake \/ Tick \/ UNCHANGED vars PROVE Seen
<1>1. Stopping' = Stopping
  BY DEF TimerStep, Wake, Tick, vars, ResetRunning, ResetSignaled, ResetRestarting,
         ResetStopping, Arm, SeeSignal, ClearSignal, WaitOn, TimeOut, SeeRestart, NoRestart,
         SeeStop, Call, PingFails, PingSent, PingRestarting, PingSignaled, EndLoop, Loop,
         Others, Stopping
<1>2. \/ Phase' = Phase
      \/ Phase = "on" /\ Phase' = "calling"
      \/ Phase = "calling" /\ Phase' = "on"
  BY DEF TimerStep, Wake, Tick, vars, ResetRunning, ResetSignaled, ResetRestarting,
         ResetStopping, Arm, SeeSignal, ClearSignal, WaitOn, TimeOut, SeeRestart, NoRestart,
         SeeStop, Call, PingFails, PingSent, PingRestarting, PingSignaled, EndLoop, Loop,
         TimerGoes, Phase
<1> QED
  BY <1>1, <1>2 DEF Seen

(* Callers start, stop and abort. *)
LEMMA CallerSeen ==
  ASSUME OwnerInv, NEW c \in Callers,
         \/ CallStep(c)
         \/ \E s \in BOOLEAN : Start(c, s)
         \/ StartTwice(c) \/ RestartCalled(c) \/ Finish(c) \/ StopCalled(c)
  PROVE  OwnerInv' /\ Seen
<1> USE ChronoTriggerAssumption DEF OwnerInv, CallerPC, CallerGoes
<1>1. CASE RestartSignaled(c) \/ RestartNotifies(c) \/ RestartCalled(c)
           \/ StopStopping(c) \/ StopNotifies(c)
  <2>1. tpc' = tpc
    BY <1>1 DEF RestartSignaled, RestartNotifies, RestartCalled, StopStopping, StopNotifies
  <2>2. OwnerInv' /\ Stopping' = Stopping
    BY <1>1 DEF RestartSignaled, RestartNotifies, RestartCalled, StopStopping, StopNotifies,
                Stopping
  <2>3. Phase' = Phase
    BY <2>1 DEF Phase
  <2> QED
    BY <2>2, <2>3 DEF Seen
<1>2. CASE StopCalled(c)
  <2>1. OwnerInv' /\ ~Stopping /\ Stopping' /\ tpc' = tpc
    BY <1>2 DEF StopCalled, Stopping
  <2> QED
    BY <2>1 DEF Seen, Phase
<1>3. CASE Join(c)
  <2>1. OwnerInv' /\ Stopping /\ ~Stopping' /\ tpc \in {"ended", "none"} /\ tpc' = "none"
    BY <1>3 DEF Join, Stopping
  <2> QED
    BY <2>1 DEF Seen, Phase
<1>4. ASSUME NEW s \in BOOLEAN, Start(c, s) PROVE OwnerInv' /\ Seen
  <2>1. cpc' = cpc /\ ~Stopping /\ tpc = "none" /\ tpc' = "reset1"
    BY <1>4 DEF Start, Stopping
  <2> QED
    BY <2>1 DEF Seen, Phase, Stopping
<1>5. CASE StartTwice(c)
  <2>1. OwnerInv' /\ ~Stopping' /\ tpc' = "aborted"
    BY <1>5 DEF StartTwice, Stopping
  <2> QED
    BY <2>1 DEF Seen, Phase
<1>6. CASE Finish(c)
  <2>1. cpc' = cpc /\ tpc' = tpc
    BY <1>6 DEF Finish
  <2> QED
    BY <2>1 DEF Seen, Phase, Stopping
<1> QED
  BY <1>1, <1>2, <1>3, <1>4, <1>5, <1>6 DEF CallStep

(* When stop returns no callback runs, and none comes before the next       *)
(* start: ChronoTrigger implements PingTimer for any callers and interval.  *)
THEOREM TimerImplemented == Spec => ImplementsTimer
<1>1. Init => OwnerInv /\ Timer!Init
  BY ChronoTriggerAssumption DEF Init, OwnerInv, CallerPC, Timer!Init
<1>2. OwnerInv /\ [Next]_vars => OwnerInv' /\ [Timer!Next]_(Timer!timerVars)
  <2> SUFFICES ASSUME OwnerInv, [Next]_vars PROVE OwnerInv' /\ Seen
    BY SeenSteps
  <2>1. CASE TimerStep \/ Wake \/ Tick \/ UNCHANGED vars
    <3>1. cpc' = cpc
      BY <2>1 DEF TimerStep, Wake, Tick, vars, ResetRunning, ResetSignaled, ResetRestarting,
         ResetStopping, Arm, SeeSignal, ClearSignal, WaitOn, TimeOut, SeeRestart, NoRestart,
         SeeStop, Call, PingFails, PingSent, PingRestarting, PingSignaled, EndLoop, Loop, Others
    <3> QED
      BY <2>1, <3>1, ThreadSeen DEF OwnerInv
  <2> QED
    BY <2>1, CallerSeen DEF Next
<1> QED
  BY <1>1, <1>2, PTL DEF Spec, ImplementsTimer, Timer!Spec

=============================================================================
