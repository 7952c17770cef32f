------------------------------ MODULE MCFraming ------------------------------
(* Instances of Framing for TLC. *)
EXTENDS Framing

(* One of the packets that may be sent, and whole in one digit. *)
MCOverrunning == {Serialize([command |-> 4, length |-> 2])}
=============================================================================
