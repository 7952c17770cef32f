------------------------------ MODULE PingTimer ------------------------------
(***************************************************************************)
(* What ChronoTrigger promises to NmqttClient, and what NmqttClient may    *)
(* ask of it.                                                              *)
(*                                                                         *)
(* One owner starts and stops a timer that calls back, one call at a time, *)
(* whenever it likes.  stop may be called while a call is under way, and   *)
(* returns when none is; from then until the next start there is no call.  *)
(* Whoever starts a timer that was not stopped ends the process, which     *)
(* others may do as well.  Nothing is promised about when it calls.        *)
(***************************************************************************)
VARIABLES phase,  \* the timer: "none", "on", "calling" back, or "aborted"
          owner   \* the owner: "idle", or "stopping" the timer

timerVars == <<phase, owner>>

Init == phase = "none" /\ owner = "idle"

Start ==
  /\ owner = "idle" /\ phase = "none"
  /\ phase' = "on"
  /\ UNCHANGED owner

Call ==
  /\ phase = "on"
  /\ phase' = "calling"
  /\ UNCHANGED owner

CallEnds ==
  /\ phase = "calling"
  /\ phase' = "on"
  /\ UNCHANGED owner

CallStop ==
  /\ owner = "idle"
  /\ owner' = "stopping"
  /\ UNCHANGED phase

StopReturns ==
  /\ owner = "stopping" /\ phase \in {"none", "on"}
  /\ owner' = "idle"
  /\ phase' = "none"

Abort ==
  /\ phase' = "aborted"
  /\ owner' = "idle"

Next == Start \/ Call \/ CallEnds \/ CallStop \/ StopReturns \/ Abort

Spec == Init /\ [][Next]_timerVars

=============================================================================
