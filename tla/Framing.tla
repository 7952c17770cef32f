------------------------------- MODULE Framing -------------------------------
(***************************************************************************)
(* How listener and session cut packets out of the byte stream: the loop   *)
(* of NmqttClientListener::run, which NmqttSession::run repeats line by    *)
(* line, with NmqttMessage::parseHeader and the length check of            *)
(* parseMessage (FixedHeader), against what NmqttMessage::serialize writes. *)
(*                                                                         *)
(* The peer sends packets; the stream delivers any number of the bytes     *)
(* that were sent; the peer may close it, with a packet sent in part.      *)
(* The loop reads two bytes of the fixed header, but parseHeader is given  *)
(* all five of the buffer, of which the others are never written.          *)
(***************************************************************************)
EXTENDS SequencesExt, FixedHeader

CONSTANTS Commands,    \* first bytes of packets
          Lengths,     \* remaining lengths of packets
          Stale,       \* what the uninitialised bytes of the buffer may be
          Overrunning, \* messages of which parseMessage seeks a part behind their end
          MaxPackets   \* bound on the packets that are sent

ASSUME FramingAssumption ==
  /\ Commands \subseteq Byte /\ Stale \subseteq Byte
  /\ Lengths \subseteq Nat /\ MaxPackets \in Nat
  /\ Overrunning \subseteq Seq(Byte)
  /\ \A m \in Overrunning : Valid(m)   \* parseMessage checks the length first

VARIABLES
  sent,      \* the packets of the peer, in order
  wire,      \* the bytes that were sent and not read
  closed,    \* the peer has closed the connection
  pc,        \* where run is: "header", "body", "ended", or "thrown"
  header,    \* headerBuff
  msg,       \* binMsg
  unread,    \* the bytes that msg still needs
  received,  \* the messages that were made requests of
  split      \* a byte was dropped

vars == <<sent, wire, closed, pc, header, msg, unread, received, split>>

Packets == [command : Commands, length : Lengths]

(* The bytes of packet p; those after the header can be told apart. *)
Serialize(p) ==
  Packet(p.command, [i \in 1 .. p.length |-> i % (2 * Base)])

(* The type of every variable; the fixed header stays within its buffer,    *)
(* and a message that is read lacks at least one byte.                      *)
TypeOK ==
  /\ sent \in Seq(Packets)
  /\ wire \in Seq(Byte)
  /\ closed \in BOOLEAN /\ split \in BOOLEAN
  /\ pc \in {"header", "body", "ended", "thrown"}
  /\ header \in [1 .. 5 -> Byte]
  /\ msg \in Seq(Byte)
  /\ unread \in Nat /\ (pc = "body" <=> unread > 0)
  /\ received \in Seq(Seq(Byte))

Init ==
  /\ sent = <<>> /\ wire = <<>> /\ closed = FALSE
  /\ pc = "header"
  /\ header \in [1 .. 5 -> Stale]
  /\ msg = <<>> /\ unread = 0
  /\ received = <<>> /\ split = FALSE

-----------------------------------------------------------------------------
(* The peer. *)

SendPacket(p) ==
  /\ ~closed /\ Len(sent) < MaxPackets
  /\ sent' = Append(sent, p)
  /\ wire' = wire \o Serialize(p)
  /\ UNCHANGED <<closed, pc, header, msg, unread, received, split>>

(* The peer closes; the last k bytes were never sent. *)
Close(k) ==
  /\ ~closed
  /\ closed' = TRUE
  /\ wire' = SubSeq(wire, 1, Len(wire) - k)
  /\ UNCHANGED <<sent, pc, header, msg, unread, received, split>>

-----------------------------------------------------------------------------
(* run.  A read returns between one byte and what was asked for, or nothing *)
(* when the peer has closed.                                                *)

(* A request is made of message m, whatever parseMessage returns; when its
   substr throws there is none, and nobody catches it in the loop. *)
Deliver(m) ==
  /\ msg' = <<>> /\ unread' = 0
  /\ \/ /\ m \notin Overrunning
        /\ received' = Append(received, m)
        /\ pc' = "header"
     \/ /\ m \in Overrunning
        /\ pc' = "thrown"
        /\ UNCHANGED received

(* Seeded fault: the header is read behind what the buffer holds. *)
AppendHeader ==
  /\ pc = "header" /\ Len(wire) >= 2
  /\ header' = header \o SubSeq(wire, 1, 2)
  /\ wire' = SubSeq(wire, 3, Len(wire))
  /\ Deliver(header')
  /\ UNCHANGED <<sent, closed, split>>

ReadHeader ==
  /\ pc = "header" /\ Len(wire) >= 2
  /\ header' = SubSeq(wire, 1, 2) \o SubSeq(header, 3, 5)
  /\ wire' = SubSeq(wire, 3, Len(wire))
  /\ LET h == ParseHeader(header') IN
       \/ /\ h.length = 0
          /\ Deliver(SubSeq(header', 1, h.idx))
       \/ /\ h.length > 0
          /\ pc' = "body" /\ unread' = h.length
          /\ msg' = SubSeq(header', 1, h.idx)
          /\ UNCHANGED received
  /\ UNCHANGED <<sent, closed, split>>

(* One byte comes alone: it is dropped, and the next read begins behind it. *)
ReadOne ==
  /\ pc = "header" /\ wire # <<>>
  /\ header' = [header EXCEPT ![1] = Head(wire)]
  /\ wire' = Tail(wire)
  /\ split' = TRUE
  /\ UNCHANGED <<sent, closed, pc, msg, unread, received>>

HeaderEOF ==
  /\ pc = "header" /\ closed /\ wire = <<>>
  /\ pc' = "ended"
  /\ UNCHANGED <<sent, wire, closed, header, msg, unread, received, split>>

(* Seeded fault: unread is not counted down. *)
ReadTooMuch(k) ==
  /\ pc = "body" /\ k <= unread
  /\ wire' = SubSeq(wire, k + 1, Len(wire))
  /\ \/ k = unread /\ Deliver(msg \o SubSeq(wire, 1, k))
     \/ /\ k < unread
        /\ msg' = msg \o SubSeq(wire, 1, k)
        /\ UNCHANGED <<pc, unread, received>>
  /\ UNCHANGED <<sent, closed, header, split>>

(* Seeded fault: the loop goes on when the message is complete. *)
ReadOn(k) ==
  /\ pc = "body" /\ k <= unread
  /\ wire' = SubSeq(wire, k + 1, Len(wire))
  /\ msg' = msg \o SubSeq(wire, 1, k)
  /\ unread' = unread - k
  /\ UNCHANGED <<sent, closed, pc, header, received, split>>

ReadBody(k) ==
  /\ pc = "body" /\ k <= unread
  /\ wire' = SubSeq(wire, k + 1, Len(wire))
  /\ \/ k = unread /\ Deliver(msg \o SubSeq(wire, 1, k))
     \/ /\ k < unread
        /\ msg' = msg \o SubSeq(wire, 1, k)
        /\ unread' = unread - k
        /\ UNCHANGED <<pc, received>>
  /\ UNCHANGED <<sent, closed, header, split>>

(* The connection is closed in the middle of a message. *)
BodyEOF ==
  /\ pc = "body" /\ closed /\ wire = <<>>
  /\ Deliver(msg)
  /\ UNCHANGED <<sent, wire, closed, header, split>>

Run ==
  \/ ReadHeader \/ ReadOne \/ HeaderEOF \/ BodyEOF
  \/ \E k \in 1 .. Len(wire) : ReadBody(k)

Next ==
  \/ \E p \in Packets : SendPacket(p)
  \/ \E k \in 0 .. Len(wire) : Close(k)
  \/ Run

Spec == Init /\ [][Next]_vars

(* The listener's thread runs; the peer need not do anything. *)
FairSpec == Spec /\ WF_vars(Run)

-----------------------------------------------------------------------------
(* Correctness. *)

(* The packets have a length of one digit, and no header came in parts. *)
Clean == ~split /\ \A i \in 1 .. Len(sent) : sent[i].length < Base

(* However the stream is cut into reads, every packet becomes one message,  *)
(* byte for byte and in order; only the last of a connection that the peer  *)
(* has closed may lack its end.  The packet that ends the loop by making    *)
(* parseMessage throw is the next one, and one that does so when whole: no  *)
(* cut and no close makes a packet throw.                                   *)
FramesIntact ==
  Clean =>
    /\ Len(received) <= Len(sent)
    /\ \A i \in 1 .. Len(received) :
         LET whole == Serialize(sent[i]) IN
         \/ received[i] = whole
         \/ closed /\ i = Len(received) /\ wire = <<>> /\ IsPrefix(received[i], whole)
    /\ pc = "thrown" =>
         Len(received) < Len(sent) /\ Serialize(sent[Len(received) + 1]) \in Overrunning

(* parseMessage, which reads the length again and in another way, accepts   *)
(* exactly the messages that are whole packets.                             *)
ValidMeansWhole ==
  Clean => \A i \in 1 .. Len(received) :
             Valid(received[i]) <=> received[i] = Serialize(sent[i])

(* A packet becomes a message if neither it nor one before it is one that   *)
(* parseMessage throws on: the loop does not wait for bytes that are not    *)
(* owed to it, as it would after a wrong count.                             *)
EverythingArrives ==
  \A n \in 1 .. MaxPackets :
    Len(sent) >= n /\ (\A i \in 1 .. n : Serialize(sent[i]) \notin Overrunning)
      ~> Len(received) >= n \/ closed \/ ~Clean

(* "Attempt to receive the entire message ... MQTT's message length is a    *)
(* variable length integer, spanning 1-4 bytes ... read that in, and so     *)
(* on": also a packet whose length takes two bytes becomes the message that *)
(* was sent, as long as no header comes in parts and nobody closes.         *)
EntireMessages ==
  ~split /\ ~closed =>
    \A i \in 1 .. Len(received) : i <= Len(sent) /\ received[i] = Serialize(sent[i])
=============================================================================
