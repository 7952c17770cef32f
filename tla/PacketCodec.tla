----------------------------- MODULE PacketCodec -----------------------------
(***************************************************************************)
(* NmqttMessage (message.cpp): a message is made by the calls of its       *)
(* interface, serialize writes it, and parseMessage reads the packet into  *)
(* a fresh message, as session and listener do.                            *)
(*                                                                         *)
(* serialize puts what CONNECT, SUBSCRIBE and UNSUBSCRIBE have to say into *)
(* the member payload, and so writes it again when it is called again.     *)
(* Packet identifiers are never set: they are whatever was in memory.      *)
(* Hosts are little-endian, and char is signed.                            *)
(***************************************************************************)
EXTENDS FixedHeader

CONSTANTS Topics,     \* topics to publish and to subscribe
          Payloads,   \* payloads to publish
          Names,      \* client identifiers, user names, passwords, wills
          Ids,        \* what an uninitialised packet identifier may be
          MaxTimes    \* bound on the calls of serialize for one message

ASSUME PacketCodecAssumption ==
  /\ Base = 128
  /\ Topics \subseteq Seq(Byte) /\ Payloads \subseteq Seq(Byte) /\ Names \subseteq Seq(Byte)
  /\ Ids \subseteq Byte \X Byte
  /\ MaxTimes \in Nat

CONNECT   == 16
CONNACK   == 32
PUBLISH   == 48
SUBSCRIBE == 128
UNSUBSCRIBE == 160
Bare == {64, 80, 96, 112, 144, 176, 192, 208, 224}  \* the packets without fields
Commands == {CONNECT, CONNACK, PUBLISH, SUBSCRIBE, UNSUBSCRIBE} \union Bare
Versions == {4, 5}

VARIABLES
  out,    \* the message that is made
  times,  \* how often it was serialized
  wire,   \* the packet that serialize has written, or <<>>
  in      \* what parseMessage has made of it

vars == <<out, times, wire, in>>

(* A message as its constructor leaves it.  The outcome of parseMessage is  *)
(* "good" if it sets parseGood, "bad" if not, and "throws" if it asks       *)
(* substr for what lies behind the end.                                     *)
NoMessage ==
  [command |-> 0, version |-> 4, outcome |-> "none",
   dup |-> FALSE, qos |-> 0, retain |-> FALSE, packetID |-> <<>>,
   topic |-> <<>>, payload |-> <<>>,
   clientId |-> <<>>, will |-> FALSE, willQoS |-> {}, willRetain |-> FALSE,
   willTopic |-> <<>>, willText |-> <<>>,
   credentials |-> FALSE, username |-> <<>>, password |-> <<>>,
   sessionPresent |-> FALSE, reasonCode |-> 0]

-----------------------------------------------------------------------------
(* serialize *)

(* Seeded fault: a length in the order of the host. *)
U16Host(n) == <<n % 256, (n \div 256) % 256>>

(* A number of two bytes: of a longer one the lower sixteen bits are kept.  *)
U16(n) == <<(n \div 256) % 256, n % 256>>

(* A string with its length before it, given to toGlobal as uint16_t... *)
Counted(s) == U16(Len(s)) \o s

(* ... or as the size_t that length() returns: all its eight bytes are      *)
(* swapped, and of the result the two that are kept are 0.                  *)
Miscounted(s) == <<0, 0>> \o s

Flag(b, value) == IF b THEN value ELSE 0
When(b, bytes) == IF b THEN bytes ELSE <<>>

FirstByte(m) ==
  m.command +
  CASE m.command = PUBLISH -> Flag(m.dup, 8) + 2 * m.qos + Flag(m.retain, 1)
    [] m.command \in {SUBSCRIBE, UNSUBSCRIBE} -> 2
    [] OTHER -> 0

(* Seeded fault: two bits of the will exchanged. *)
ConnectFlagsSwapped(m) ==
  2 + Flag(m.will, 4) + Flag(1 \in m.willQoS, 8) + Flag(m.willRetain, 16)
    + Flag(2 \in m.willQoS, 32) + Flag(m.credentials, 64 + 128)

(* Clean session is always set: createMessage sets it, and nothing else.    *)
(* setWill leaves the bit of an earlier quality of service as it is.  What  *)
(* is written is complete; ParseConnect loses the bit of value 16.          *)
ConnectFlags(m) ==
  2 + Flag(m.will, 4) + Flag(1 \in m.willQoS, 8) + Flag(2 \in m.willQoS, 16)
    + Flag(m.willRetain, 32) + Flag(m.credentials, 64 + 128)

ProtocolName == <<77, 81, 84, 84>>  \* MQTT

VarHeader(m) ==
  CASE m.command = CONNECT ->
         U16(4) \o ProtocolName \o <<m.version, ConnectFlags(m)>> \o U16(60)
           \o When(m.version = 5, <<5, 17, 10, 0, 0, 0>>)
    [] m.command = CONNACK -> <<0, 0>>
    [] m.command = PUBLISH ->
         Counted(m.topic) \o When(m.qos # 0, m.packetID) \o When(m.version = 5, <<0>>)
    [] m.command = SUBSCRIBE -> U16(10) \o When(m.version = 5, <<0>>)
    [] m.command = UNSUBSCRIBE -> U16(10) \o m.packetID
    [] OTHER -> <<>>

Payload(m) ==
  m.payload \o
  CASE m.command = CONNECT ->
         Counted(m.clientId)
           \o When(m.will, Miscounted(m.willTopic) \o Miscounted(m.willText))
           \o When(m.credentials, Miscounted(m.username) \o Miscounted(m.password))
    [] m.command = SUBSCRIBE   -> Counted(m.topic) \o <<0>>
    [] m.command = UNSUBSCRIBE -> Miscounted(m.topic)
    [] OTHER -> <<>>

Serialize(m) == Packet(FirstByte(m), VarHeader(m) \o Payload(m))

-----------------------------------------------------------------------------
(* parseMessage.  Positions count from 1.  A byte behind the end reads as 0: *)
(* the one at the end does, and behind it substr throws whatever was read.  *)

Bit(byte, i) == (byte \div <<1, 2, 4, 8, 16, 32, 64, 128>>[i + 1]) % 2 = 1
At(b, p) == IF p <= Len(b) THEN b[p] ELSE 0

(* substr, from p to q or to the end. *)
Slice(b, p, q) == SubSeq(b, p, IF q < Len(b) THEN q ELSE Len(b))

(* Seeded fault: the flags are left in the command. *)
ParseUnmasked(b, version) == [NoMessage EXCEPT !.version = version, !.command = b[1]]

(* The first byte, read into a fresh message of this version.  The bits of  *)
(* the two qualities of service are the other way round than in serialize;  *)
(* both together stand for none.                                            *)
ParseFirstByte(b, version) ==
  LET atLeastOnce == Bit(b[1], 2)  exactlyOnce == Bit(b[1], 1) IN
  [NoMessage EXCEPT
     !.version = version,
     !.command = 16 * (b[1] \div 16),
     !.dup = Bit(b[1], 3),
     !.qos = CASE atLeastOnce /\ ~exactlyOnce -> 1
               [] exactlyOnce /\ ~atLeastOnce -> 2
               [] OTHER -> 0,
     !.retain = Bit(b[1], 0)]

(* A string of CONNECT at p.  Only the first byte of its length is read,    *)
(* and a top bit makes it longer than any packet.                           *)
StringAt(b, p) ==
  LET end == p + 1 + (IF More(At(b, p)) THEN Len(b) ELSE At(b, p))
  IN  [text |-> Slice(b, p + 2, end), next |-> end + 1, ok |-> p + 2 <= Len(b) + 1]

StringIf(flag, b, prev) ==
  IF flag THEN [StringAt(b, prev.next) EXCEPT !.ok = @ /\ prev.ok]
  ELSE [prev EXCEPT !.text = <<>>]

(* A message for version 5 leaves the version of the receiver as it is, and *)
(* its properties are read as the client identifier.  Of the two bits of    *)
(* the will's quality of service the upper is lost: & binds less than +.    *)
ParseConnect(b, version) ==
  LET flags    == At(b, 10)
      id       == StringAt(b, 13)
      topic    == StringIf(Bit(flags, 2), b, id)
      text     == StringIf(Bit(flags, 2), b, topic)
      user     == StringIf(Bit(flags, 7), b, text)
      password == StringIf(Bit(flags, 6), b, user)
  IN
  IF Slice(b, 3, 8) # <<0, 4>> \o ProtocolName \/ At(b, 9) \notin Versions \/ Bit(flags, 0)
  THEN [ParseFirstByte(b, version) EXCEPT !.outcome = "bad"]
  ELSE IF ~password.ok THEN [ParseFirstByte(b, version) EXCEPT !.outcome = "throws"]
  ELSE [ParseFirstByte(b, version) EXCEPT
          !.outcome = "good", !.clientId = id.text,
          !.version = IF At(b, 9) = 4 THEN 4 ELSE version,
          !.will = Bit(flags, 2), !.willQoS = IF Bit(flags, 3) THEN {1} ELSE {},
          !.willRetain = Bit(flags, 5),
          !.willTopic = topic.text, !.willText = text.text,
          !.credentials = Bit(flags, 7) /\ Bit(flags, 6),
          !.username = user.text, !.password = password.text]

(* The topic, an identifier if a bit of the quality of service is set, a    *)
(* byte for the properties in version 5, and the rest, but not one byte.    *)
ParsePublish(b, version) ==
  LET end  == 4 + 256 * At(b, 3) + At(b, 4)
      id   == Bit(b[1], 1) \/ Bit(b[1], 2)
      rest == end + 1 + Flag(id, 2) + Flag(version = 5, 1)
  IN
  IF Len(b) < 4 \/ rest > Len(b) + 1
  THEN [ParseFirstByte(b, version) EXCEPT !.outcome = "throws"]
  ELSE [ParseFirstByte(b, version) EXCEPT
          !.outcome = "good", !.topic = Slice(b, 5, end),
          !.packetID = When(id, <<At(b, end + 1), At(b, end + 2)>>),
          !.payload = When(rest # Len(b), Slice(b, rest, Len(b)))]

(* Of a CONNACK two bytes are read, and of other packets only the first.    *)
Parse(b, version) ==
  LET m == ParseFirstByte(b, version) IN
  CASE ~Valid(b) -> [m EXCEPT !.outcome = "bad"]
    [] Valid(b) /\ m.command = CONNECT -> ParseConnect(b, version)
    [] Valid(b) /\ m.command = PUBLISH -> ParsePublish(b, version)
    [] Valid(b) /\ m.command = CONNACK ->
         [m EXCEPT !.outcome = "good", !.sessionPresent = At(b, 3) # 0, !.reasonCode = At(b, 4)]
    [] OTHER -> [m EXCEPT !.outcome = "good"]

-----------------------------------------------------------------------------
(* The calls. *)

Init == out = NoMessage /\ times = 0 /\ wire = <<>> /\ in = NoMessage

(* What was sent before is no longer of interest. *)
Set(m) == out' = m /\ wire' = <<>> /\ in' = NoMessage

(* The constructor, with createMessage.  What it does not set is not used   *)
(* for that command, but for the packet identifier.                         *)
Create(c, id) ==
  /\ out.command = 0
  /\ Set([NoMessage EXCEPT !.command = c, !.packetID = id])
  /\ UNCHANGED times

SetProtocolVersion ==
  /\ out.command # 0
  /\ Set([out EXCEPT !.version = 5])
  /\ UNCHANGED times

(* "For Connect message." *)
SetConnect ==
  /\ out.command = CONNECT
  /\ \/ \E s \in Names : Set([out EXCEPT !.clientId = s])
     \/ \E s, t \in Names :
          Set([out EXCEPT !.credentials = TRUE, !.username = s, !.password = t])
     \/ \E s, t \in Names, qos \in 0 .. 2, retain \in BOOLEAN :
          Set([out EXCEPT !.will = TRUE, !.willTopic = s, !.willText = t, !.willRetain = retain,
                          !.willQoS = @ \union ({qos} \ {0})])
  /\ UNCHANGED times

(* "For Publish message", and the topic of SUBSCRIBE and UNSUBSCRIBE. *)
SetPublish ==
  /\ \/ /\ out.command \in {PUBLISH, SUBSCRIBE, UNSUBSCRIBE}
        /\ \E s \in Topics : Set([out EXCEPT !.topic = s])
     \/ /\ out.command = PUBLISH
        /\ \/ \E s \in Payloads : Set([out EXCEPT !.payload = s])
           \/ \E qos \in 0 .. 2, retain, dup \in BOOLEAN :
                Set([out EXCEPT !.qos = qos, !.retain = retain, !.dup = dup])
  /\ UNCHANGED times

(* The message is serialized, and the packet parsed into a fresh message.   *)
Transmit(version) ==
  /\ out.command # 0 /\ times < MaxTimes
  /\ times' = times + 1
  /\ wire' = Serialize(out)
  /\ out' = [out EXCEPT !.payload = Payload(out)]
  /\ in' = Parse(wire', version)

Next ==
  \/ \E c \in Commands, id \in Ids : Create(c, id)
  \/ SetProtocolVersion \/ SetConnect \/ SetPublish
  \/ \E version \in Versions : Transmit(version)

Spec == Init /\ [][Next]_vars

-----------------------------------------------------------------------------
(* Correctness. *)

(* The length of what was sent fits into one byte. *)
Short == Len(wire) > 0 /\ Len(wire) < Base + 2

(* The type of every variable: what is written are bytes.                   *)
TypeOK ==
  /\ out.command \in Commands \union {0} /\ in.command \in Commands \union {0}
  /\ out.version \in Versions /\ in.version \in Versions
  /\ in.outcome \in {"none", "good", "bad", "throws"}
  /\ out.qos \in 0 .. 2 /\ in.qos \in 0 .. 2
  /\ times \in 0 .. MaxTimes
  /\ wire \in Seq(Byte)

(* A PUBLISH between sides of one version arrives with its topic, payload,  *)
(* flags and identifier, however often it was sent and changed before; of   *)
(* the quality of service it arrives whether there is one.  Excluded are    *)
(* payloads of one byte and packets of 128 bytes and more.                  *)
PublishArrives ==
  Short /\ out.command = PUBLISH /\ in.version = out.version /\ Len(out.payload) # 1 =>
    /\ in.outcome = "good" /\ in.command = PUBLISH
    /\ in.topic = out.topic /\ in.payload = out.payload
    /\ in.retain = out.retain /\ in.dup = out.dup
    /\ in.qos = 0 <=> out.qos = 0
    /\ out.qos # 0 => in.packetID = out.packetID

(* The lengths that serialize computes and the two that parseMessage        *)
(* compares agree: no short packet of this library is refused by it, and it *)
(* is taken for what it is.  Only a CONNECT with strings behind the client  *)
(* identifier, or a PUBLISH for another version, can run over its end.      *)
OwnPacketsAccepted ==
  Short =>
    /\ in.command = out.command
    /\ in.outcome # "bad"
    /\ in.outcome = "throws" =>
         \/ out.command = CONNECT /\ (out.will \/ out.credentials \/ times > 1)
         \/ out.command = PUBLISH /\ in.version # out.version

(* Of the flags of a CONNECT that is accepted the broker knows all but one: *)
(* whether there is a will, to be retained, at least once, and whether      *)
(* there are a name and a password.  That the will is to come exactly once, *)
(* flag 0x10, is always lost, as the bits are added up before the last of   *)
(* them is taken.                                                           *)
ConnectFlagsButOneArrive ==
  Short /\ out.command = CONNECT /\ in.outcome = "good" =>
    /\ in.will = out.will /\ in.willRetain = out.willRetain
    /\ in.credentials = out.credentials
    /\ in.willQoS = out.willQoS \ {2}

(* "UTF-8 strings in MQTT have a big-endian, two-byte length header": the   *)
(* one string of an UNSUBSCRIBE that was sent once is the counted topic.    *)
StringsAreCounted ==
  Short /\ out.command = UNSUBSCRIBE /\ times = 1 /\ out.version = 4 =>
    \E p \in 3 .. Len(wire) : SubSeq(wire, p, Len(wire)) = Counted(out.topic)
=============================================================================
