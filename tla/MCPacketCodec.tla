---------------------------- MODULE MCPacketCodec ----------------------------
(* Instances of PacketCodec for TLC. *)
EXTENDS PacketCodec

Text(n) == [i \in 1 .. n |-> 96 + i]

MCTopics == {Text(0), Text(2)}
MCNames  == {Text(3)}
MCIds    == {<<0, 7>>, <<200, 1>>}

(* Empty, one byte, two, and the two sides of a length of one byte. *)
MCPayloads == {Text(0), Text(1), Text(2)} \union {[i \in 1 .. n |-> 0] : n \in {123, 124}}
=============================================================================
