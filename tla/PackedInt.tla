------------------------------ MODULE PackedInt ------------------------------
(***************************************************************************)
(* The packed integers of ByteBauble (bytebauble.cpp): digits, the lowest  *)
(* first, in bytes whose top bit says that another byte follows.  A byte   *)
(* is a number below 2 * Base, and at least Base if its top bit is set.    *)
(***************************************************************************)
EXTENDS Naturals

CONSTANT Base  \* the number of values of a digit: 128

ASSUME PackedIntAssumption == Base \in Nat /\ Base > 1

Byte    == 0 .. 2 * Base - 1
More(b) == b >= Base

(* What a digit counts for, from the lowest on. *)
Weight == <<1, Base, Base * Base, Base * Base * Base, Base * Base * Base * Base>>

(* The bytes that n takes, or 0 if it is out of range.  The code compares   *)
(* with <=: a power of Base is written a byte too short.                    *)
PackedLen(n) ==
  IF n > Weight[5] THEN 0
  ELSE CHOOSE i \in 1 .. 4 : n <= Weight[i + 1] /\ \A j \in 1 .. i - 1 : n > Weight[j + 1]

WritePackedInt(n) ==
  [i \in 1 .. PackedLen(n) |->
    ((n \div Weight[i]) % Base) + (IF i < PackedLen(n) THEN Base ELSE 0)]

(* The bytes that the packed integer in b takes, up to the first without a  *)
(* top bit; 5 if none of the four is without.                               *)
ReadLen(b) ==
  CHOOSE i \in 1 .. 5 : (i = 5 \/ ~More(b[i])) /\ \A j \in 1 .. i - 1 : More(b[j])

ReadPackedInt(b) ==
  LET Digit(i) == IF i <= ReadLen(b) THEN (b[i] % Base) * Weight[i] ELSE 0
  IN  Digit(1) + Digit(2) + Digit(3) + Digit(4)
=============================================================================
