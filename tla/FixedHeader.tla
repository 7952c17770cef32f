----------------------------- MODULE FixedHeader -----------------------------
(***************************************************************************)
(* The fixed header of a packet, as message.cpp writes it in serialize and *)
(* reads it twice: in parseHeader, to know how much to receive, and again  *)
(* in parseMessage.                                                        *)
(***************************************************************************)
EXTENDS Naturals, Sequences, PackedInt

(* A packet: its first byte, the length of what follows, what follows. *)
Packet(b0, rest) == <<b0>> \o WritePackedInt(Len(rest)) \o rest

(* parseHeader(h, 5): the remaining length, and how many bytes of h belong  *)
(* to the header.  With a top bit in the fourth byte of the length it       *)
(* returns -1, which its callers take for success: length 0, index 5.       *)
ParseHeader(h) ==
  LET packed == Tail(h) IN
  IF ReadLen(packed) = 5 THEN [length |-> 0, idx |-> 5]
  ELSE [length |-> ReadPackedInt(packed), idx |-> ReadLen(packed) + 1]

(* parseMessage reads the length from one byte only, a char, whose sign     *)
(* fills the other three...                                                 *)
LengthWord(b) == <<b>> \o [i \in 1 .. 3 |-> IF More(b) THEN 2 * Base - 1 ELSE 0]

(* Seeded fault: the length is not compared. *)
AnyLength(m) == Len(m) >= 2

(* ... and refuses a message that is longer or shorter. *)
Valid(m) ==
  /\ Len(m) >= 2
  /\ ReadLen(LengthWord(m[2])) + 1 + ReadPackedInt(LengthWord(m[2])) = Len(m)
=============================================================================
