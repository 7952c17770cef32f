--------------------------- MODULE PacketCodecProofs --------------------------
(***************************************************************************)
(* What serialize writes is bytes, for every topic, payload, name and      *)
(* identifier; and of a packet of less than 128 bytes behind its fixed     *)
(* header parseMessage makes what PacketCodec says: a PUBLISH arrives, no  *)
(* packet of the library is refused, a CONNECT keeps all flags but one.    *)
(*                                                                         *)
(* The argument: each part of a packet has its place (Has), the same one   *)
(* that parseMessage computes from the lengths it reads.  The invariant    *)
(* says of the state that what was received was parsed from the packet of  *)
(* the message as it was before serialize added to its payload.            *)
(***************************************************************************)
EXTENDS PacketCodec, FixedHeaderProofs

(* The sequence s stands in b, from position p on.                          *)
Has(b, p, s) ==
  /\ p - 1 + Len(s) <= Len(b)
  /\ \A i \in 1 .. Len(s) : b[p - 1 + i] = s[i]

-----------------------------------------------------------------------------
(* What is written. *)

(* The messages that the calls of the interface can make.                   *)
Message ==
  [command : Commands \union {0}, version : Versions, outcome : {"none"},
   dup : BOOLEAN, qos : 0 .. 2, retain : BOOLEAN, packetID : Seq(Byte),
   topic : Seq(Byte), payload : Seq(Byte),
   clientId : Seq(Byte), will : BOOLEAN, willQoS : SUBSET {1, 2}, willRetain : BOOLEAN,
   willTopic : Seq(Byte), willText : Seq(Byte),
   credentials : BOOLEAN, username : Seq(Byte), password : Seq(Byte),
   sessionPresent : BOOLEAN, reasonCode : {0}]

(* A byte is one of eight bits.                                             *)
LEMMA ByteType == Base = 128 /\ Byte = 0 .. 255
BY PacketCodecAssumption DEF Byte

(* Two sequences, one behind the other.                                     *)
LEMMA Parts ==
  ASSUME NEW s \in Seq(Byte), NEW t \in Seq(Byte)
  PROVE  /\ s \o t \in Seq(Byte) /\ Len(s \o t) = Len(s) + Len(t)
         /\ \A i \in 1 .. Len(s) : (s \o t)[i] = s[i]
         /\ \A i \in 1 .. Len(t) : (s \o t)[Len(s) + i] = t[i]
<1>1. /\ s \o t \in Seq(Byte) /\ Len(s \o t) = Len(s) + Len(t)
      /\ \A i \in 1 .. Len(s) + Len(t) :
           (s \o t)[i] = IF i <= Len(s) THEN s[i] ELSE t[i - Len(s)]
  BY ConcatProperties
<1>2. Len(s) \in Nat /\ Len(t) \in Nat
  OBVIOUS
<1> QED
  BY <1>1, <1>2

(* A sequence of two parts, but for its elements.                           *)
LEMMA ConcatType ==
  ASSUME NEW s \in Seq(Byte), NEW t \in Seq(Byte)
  PROVE  s \o t \in Seq(Byte) /\ Len(s \o t) = Len(s) + Len(t)
BY Parts

(* Numbers of two bytes, and strings with one before them.                  *)
LEMMA U16Type ==
  ASSUME NEW n \in Nat
  PROVE  /\ U16(n) \in Seq(Byte) /\ Len(U16(n)) = 2
         /\ n < 256 => U16(n)[1] = 0 /\ U16(n)[2] = n
<1>1. (n \div 256) % 256 \in Byte /\ n % 256 \in Byte
  BY ByteType
<1>2. n < 256 => (n \div 256) % 256 = 0 /\ n % 256 = n
  OBVIOUS
<1> QED
  BY <1>1, <1>2 DEF U16

LEMMA CountedType ==
  ASSUME NEW s \in Seq(Byte)
  PROVE  /\ Counted(s) \in Seq(Byte) /\ Len(Counted(s)) = 2 + Len(s)
         /\ Len(s) < 256 => Counted(s)[1] = 0 /\ Counted(s)[2] = Len(s)
         /\ \A i \in 1 .. Len(s) : Counted(s)[2 + i] = s[i]
<1> DEFINE u == U16(Len(s))
<1>1. /\ u \in Seq(Byte) /\ Len(u) = 2 /\ Len(s) \in Nat
      /\ Len(s) < 256 => u[1] = 0 /\ u[2] = Len(s)
  BY U16Type
<1> HIDE DEF u
<1>2. /\ u \o s \in Seq(Byte) /\ Len(u \o s) = 2 + Len(s)
      /\ (u \o s)[1] = u[1] /\ (u \o s)[2] = u[2]
      /\ \A i \in 1 .. Len(s) : (u \o s)[2 + i] = s[i]
  <2>1. /\ u \o s \in Seq(Byte) /\ Len(u \o s) = Len(u) + Len(s)
        /\ \A i \in 1 .. Len(u) : (u \o s)[i] = u[i]
        /\ \A i \in 1 .. Len(s) : (u \o s)[Len(u) + i] = s[i]
    BY <1>1, Parts
  <2> DEFINE v == u \o s
  <2> HIDE DEF v
  <2> QED
    BY <1>1, <2>1 DEF v
<1>3. Counted(s) = u \o s
  BY DEF Counted, u
<1> QED
  BY <1>1, <1>2, <1>3

LEMMA MiscountedType ==
  ASSUME NEW s \in Seq(Byte)
  PROVE  Miscounted(s) \in Seq(Byte)
<1>1. <<0, 0>> \in Seq(Byte)
  BY ByteType
<1> QED
  BY <1>1 DEF Miscounted

LEMMA WhenType ==
  ASSUME NEW c \in BOOLEAN, NEW s \in Seq(Byte)
  PROVE  When(c, s) \in Seq(Byte) /\ When(c, s) = IF c THEN s ELSE <<>>
BY DEF When

(* The first byte: the command, and under it the flags.                     *)
LEMMA FirstByteType ==
  ASSUME NEW m \in Message
  PROVE  /\ FirstByte(m) \in Byte
         /\ 16 * (FirstByte(m) \div 16) = m.command
         /\ m.command = PUBLISH =>
              /\ Bit(FirstByte(m), 0) <=> m.retain
              /\ Bit(FirstByte(m), 1) <=> m.qos = 1
              /\ Bit(FirstByte(m), 2) <=> m.qos = 2
              /\ Bit(FirstByte(m), 3) <=> m.dup
<1>1. /\ m.command \in Commands \union {0} /\ m.qos \in 0 .. 2
      /\ m.dup \in BOOLEAN /\ m.retain \in BOOLEAN
  BY DEF Message
<1>2. m.command \in {0, 16, 32, 48, 128, 160, 64, 80, 96, 112, 144, 176, 192, 208, 224}
  BY <1>1 DEF Commands, Bare, CONNECT, CONNACK, PUBLISH, SUBSCRIBE, UNSUBSCRIBE
<1>3. CASE m.command = 48
  <2> DEFINE d == Flag(m.dup, 8)
             r == Flag(m.retain, 1)
  <2>1. FirstByte(m) = 48 + (d + 2 * m.qos + r)
    BY <1>3 DEF FirstByte, PUBLISH, SUBSCRIBE, UNSUBSCRIBE
  <2>2. /\ d \in {0, 8} /\ (d = 8 <=> m.dup)
        /\ r \in {0, 1} /\ (r = 1 <=> m.retain)
    BY <1>1 DEF Flag
  <2> DEFINE x == FirstByte(m)
             q == m.qos
  <2>3. q \in {0, 1, 2}
    BY <1>1
  <2> HIDE DEF d, r, x, q
  <2>4. x = 48 + d + 2 * q + r
    BY <2>1, <2>2, <2>3 DEF x, q
  <2>5. /\ x \in 0 .. 255 /\ 16 * (x \div 16) = 48
        /\ (x \div 1) % 2 = 1 <=> r = 1
        /\ (x \div 2) % 2 = 1 <=> q = 1
        /\ (x \div 4) % 2 = 1 <=> q = 2
        /\ (x \div 8) % 2 = 1 <=> d = 8
    BY <2>2, <2>3, <2>4
  <2>6. /\ Bit(x, 0) <=> r = 1
        /\ Bit(x, 1) <=> q = 1
        /\ Bit(x, 2) <=> q = 2
        /\ Bit(x, 3) <=> d = 8
    BY <2>5 DEF Bit
  <2> QED
    BY <1>3, <2>2, <2>5, <2>6, ByteType DEF x, q
<1>4. CASE m.command \in {128, 160}
  <2>1. FirstByte(m) = m.command + 2
    BY <1>4 DEF FirstByte, PUBLISH, SUBSCRIBE, UNSUBSCRIBE
  <2> QED
    BY <1>4, <2>1, ByteType DEF PUBLISH
<1>5. CASE m.command \notin {48, 128, 160}
  <2>1. FirstByte(m) = m.command + 0
    BY <1>5 DEF FirstByte, PUBLISH, SUBSCRIBE, UNSUBSCRIBE
  <2> QED
    BY <1>2, <1>5, <2>1, ByteType DEF PUBLISH
<1> QED
  BY <1>3, <1>4, <1>5

(* The flags of a CONNECT.                                                  *)
LEMMA ConnectFlagsType ==
  ASSUME NEW m \in Message
  PROVE  /\ ConnectFlags(m) \in Byte /\ ~Bit(ConnectFlags(m), 0)
         /\ Bit(ConnectFlags(m), 2) <=> m.will
         /\ Bit(ConnectFlags(m), 3) <=> 1 \in m.willQoS
         /\ Bit(ConnectFlags(m), 5) <=> m.willRetain
         /\ Bit(ConnectFlags(m), 6) <=> m.credentials
         /\ Bit(ConnectFlags(m), 7) <=> m.credentials
<1> DEFINE x == ConnectFlags(m)
           w == Flag(m.will, 4)
           q1 == Flag(1 \in m.willQoS, 8)
           q2 == Flag(2 \in m.willQoS, 16)
           r == Flag(m.willRetain, 32)
           c == Flag(m.credentials, 64 + 128)
<1>1. m.will \in BOOLEAN /\ m.willRetain \in BOOLEAN /\ m.credentials \in BOOLEAN
  BY DEF Message
<1>2. /\ w \in {0, 4} /\ (w = 4 <=> m.will)
      /\ q1 \in {0, 8} /\ (q1 = 8 <=> 1 \in m.willQoS)
      /\ q2 \in {0, 16}
      /\ r \in {0, 32} /\ (r = 32 <=> m.willRetain)
      /\ c \in {0, 192} /\ (c = 192 <=> m.credentials)
  BY <1>1 DEF Flag
<1>3. x = 2 + w + q1 + q2 + r + c
  BY DEF ConnectFlags
<1> HIDE DEF x, w, q1, q2, r, c
<1>4. /\ x \in 0 .. 255 /\ ~((x \div 1) % 2 = 1)
      /\ (x \div 4) % 2 = 1 <=> w = 4
      /\ (x \div 8) % 2 = 1 <=> q1 = 8
      /\ (x \div 32) % 2 = 1 <=> r = 32
      /\ (x \div 64) % 2 = 1 <=> c = 192
      /\ (x \div 128) % 2 = 1 <=> c = 192
  BY <1>2, <1>3
<1>5. /\ ~Bit(x, 0)
      /\ Bit(x, 2) <=> w = 4
      /\ Bit(x, 3) <=> q1 = 8
      /\ Bit(x, 5) <=> r = 32
      /\ Bit(x, 6) <=> c = 192
      /\ Bit(x, 7) <=> c = 192
  BY <1>4 DEF Bit
<1> QED
  BY <1>2, <1>4, <1>5, ByteType DEF x

(* Every part of a packet is made of bytes.                                 *)
LEMMA BodyType ==
  ASSUME NEW m \in Message
  PROVE  /\ VarHeader(m) \in Seq(Byte) /\ Payload(m) \in Seq(Byte)
         /\ \E x \in Seq(Byte) : Payload(m) = m.payload \o x
<1>1. /\ m.version \in Versions /\ m.will \in BOOLEAN /\ m.credentials \in BOOLEAN
      /\ m.packetID \in Seq(Byte) /\ m.topic \in Seq(Byte) /\ m.payload \in Seq(Byte)
      /\ m.clientId \in Seq(Byte) /\ m.willTopic \in Seq(Byte) /\ m.willText \in Seq(Byte)
      /\ m.username \in Seq(Byte) /\ m.password \in Seq(Byte)
  BY DEF Message
<1>2. /\ ProtocolName \in Seq(Byte) /\ <<0>> \in Seq(Byte) /\ <<0, 0>> \in Seq(Byte)
      /\ <<5, 17, 10, 0, 0, 0>> \in Seq(Byte) /\ <<>> \in Seq(Byte)
      /\ U16(4) \in Seq(Byte) /\ U16(10) \in Seq(Byte) /\ U16(60) \in Seq(Byte)
  BY ByteType, U16Type DEF ProtocolName
<1>3. <<m.version, ConnectFlags(m)>> \in Seq(Byte)
  <2>1. m.version \in Byte /\ ConnectFlags(m) \in Byte
    BY <1>1, ByteType, ConnectFlagsType DEF Versions
  <2> QED
    BY <2>1
<1>4. \A c \in BOOLEAN, s \in Seq(Byte) : When(c, s) \in Seq(Byte)
  BY <1>2 DEF When
<1>5. \A s \in Seq(Byte) : Counted(s) \in Seq(Byte) /\ Miscounted(s) \in Seq(Byte)
  BY CountedType, MiscountedType
<1>6. \A s, t \in Seq(Byte) : s \o t \in Seq(Byte)
  OBVIOUS
<1>7. VarHeader(m) \in Seq(Byte)
  <2>1. U16(4) \o ProtocolName \o <<m.version, ConnectFlags(m)>> \o U16(60)
           \o When(m.version = 5, <<5, 17, 10, 0, 0, 0>>) \in Seq(Byte)
    BY <1>2, <1>3, <1>4, <1>6
  <2>2. Counted(m.topic) \o When(m.qos # 0, m.packetID) \o When(m.version = 5, <<0>>)
          \in Seq(Byte)
    BY <1>1, <1>2, <1>4, <1>5, <1>6
  <2>3. /\ U16(10) \o When(m.version = 5, <<0>>) \in Seq(Byte)
        /\ U16(10) \o m.packetID \in Seq(Byte)
    BY <1>1, <1>2, <1>4, <1>6
  <2> QED
    BY <1>2, <2>1, <2>2, <2>3
    DEF VarHeader, CONNECT, CONNACK, PUBLISH, SUBSCRIBE, UNSUBSCRIBE
<1>8. \E x \in Seq(Byte) : Payload(m) = m.payload \o x
  <2> DEFINE x == Counted(m.clientId)
                    \o When(m.will, Miscounted(m.willTopic) \o Miscounted(m.willText))
                    \o When(m.credentials, Miscounted(m.username) \o Miscounted(m.password))
             y == Counted(m.topic) \o <<0>>
             z == Miscounted(m.topic)
  <2>1. x \in Seq(Byte)
    BY <1>1, <1>4, <1>5, <1>6
  <2>2. y \in Seq(Byte) /\ z \in Seq(Byte) /\ <<>> \in Seq(Byte)
    BY <1>1, <1>2, <1>5, <1>6
  <2> HIDE DEF x, y, z
  <2>3. CONNECT = 16 /\ SUBSCRIBE = 128 /\ UNSUBSCRIBE = 160
    BY DEF CONNECT, SUBSCRIBE, UNSUBSCRIBE
  <2>4. Payload(m) = m.payload \o CASE m.command = CONNECT -> x
                                    [] m.command = SUBSCRIBE -> y
                                    [] m.command = UNSUBSCRIBE -> z
                                    [] OTHER -> <<>>
    BY DEF Payload, x, y, z
  <2> QED
    BY <2>1, <2>2, <2>3, <2>4
<1>9. Payload(m) \in Seq(Byte)
  BY <1>1, <1>6, <1>8
<1> QED
  BY <1>7, <1>8, <1>9

(* A packet starts with its first byte, and a short one has its length and  *)
(* its fields behind it, and passes the check of parseMessage.              *)
LEMMA SerializeType ==
  ASSUME NEW m \in Message, NEW b, b = Serialize(m)
  PROVE  /\ b \in Seq(Byte) /\ Len(b) > 0 /\ b[1] = FirstByte(m)
         /\ Len(b) < Base + 2 =>
              /\ Has(b, 3, VarHeader(m) \o Payload(m))
              /\ Len(b) = 2 + Len(VarHeader(m) \o Payload(m))
              /\ Valid(b)
<1> DEFINE rest == VarHeader(m) \o Payload(m)
           n == Len(rest)
           k == PackedLen(n)
           x == FirstByte(m)
<1>1. rest \in Seq(Byte) /\ n \in Nat /\ x \in Byte
  BY BodyType, FirstByteType
<1> HIDE DEF rest, x
<1>2. b = Packet(x, rest)
  BY DEF Serialize, rest, x
<1>3. /\ Packet(x, rest) \in Seq(Byte) /\ Len(Packet(x, rest)) = 1 + k + n
      /\ Packet(x, rest)[1] = x
      /\ \A i \in 1 .. n : Packet(x, rest)[1 + k + i] = rest[i]
  BY <1>1, PacketType
<1>4. /\ k \in 0 .. 4 /\ (n < Base => k = 1)
      /\ n <= Weight[5] => k # 0
      /\ Base = 128 /\ Weight[5] \in Nat /\ Weight[5] > 200
  <2>1. Weight[5] = 128 * 128 * 128 * 128
    BY ByteType DEF Weight
  <2>2. Base = 128
    BY ByteType
  <2> HIDE DEF Weight
  <2> QED
    BY <1>1, <2>1, <2>2, PackedLenType, PackedLenBound
<1>5. ASSUME Len(b) < Base + 2 PROVE n < Base /\ k = 1
  <2> HIDE DEF n, k, Weight
  <2>1. 1 + k + n < 130
    BY <1>2, <1>3, <1>4, <1>5
  <2>2. n <= Weight[5]
    BY <1>1, <1>4, <2>1
  <2> QED
    BY <1>1, <1>4, <2>1, <2>2
<1> HIDE DEF Weight
<1>6. ASSUME Len(b) < Base + 2 PROVE Has(b, 3, rest) /\ Len(b) = 2 + n /\ Valid(b)
  <2>1. /\ Len(b) = 2 + n /\ \A i \in 1 .. n : b[2 + i] = rest[i]
    BY <1>2, <1>3, <1>5, <1>6
  <2>2. Has(b, 3, rest)
    BY <1>1, <2>1 DEF Has
  <2>3. n <= Weight[5]
    BY <1>1, <1>4, <1>5, <1>6
  <2>4. Valid(b)
    BY <1>1, <1>2, <1>5, <1>6, <2>3, ValidMeansOneDigit
  <2> QED
    BY <2>1, <2>2, <2>4
<1>7. b \in Seq(Byte) /\ Len(b) > 0 /\ b[1] = x
  <2> HIDE DEF n, k
  <2> QED
    BY <1>1, <1>2, <1>3, <1>4
<1> QED
  BY <1>6, <1>7 DEF rest, x

-----------------------------------------------------------------------------
(* What is read. *)

(* Of a sequence in two parts, each has its place.                          *)
LEMMA HasParts ==
  ASSUME NEW b \in Seq(Byte), NEW p \in Nat \ {0},
         NEW s \in Seq(Byte), NEW t \in Seq(Byte), Has(b, p, s \o t)
  PROVE  Has(b, p, s) /\ Has(b, p + Len(s), t)
<1>1. /\ Len(s \o t) = Len(s) + Len(t) /\ Len(s) \in Nat /\ Len(t) \in Nat /\ Len(b) \in Nat
      /\ \A i \in 1 .. Len(s) : (s \o t)[i] = s[i]
      /\ \A i \in 1 .. Len(t) : (s \o t)[Len(s) + i] = t[i]
  BY Parts
<1> DEFINE u == s \o t
<1> HIDE DEF u
<1>2. /\ p - 1 + Len(u) <= Len(b)
      /\ \A i \in 1 .. Len(u) : b[p - 1 + i] = u[i]
  BY DEF Has, u
<1>3. Has(b, p, s)
  <2>1. ASSUME NEW i \in 1 .. Len(s) PROVE b[p - 1 + i] = s[i]
    <3>1. i \in 1 .. Len(u) /\ u[i] = s[i]
      BY <1>1 DEF u
    <3> QED
      BY <1>2, <3>1
  <2> QED
    BY <1>1, <1>2, <2>1 DEF Has, u
<1>4. ASSUME NEW i \in 1 .. Len(t) PROVE b[p + Len(s) - 1 + i] = t[i]
  <2>1. Len(s) + i \in 1 .. Len(u) /\ u[Len(s) + i] = t[i]
    BY <1>1 DEF u
  <2>2. b[p - 1 + (Len(s) + i)] = u[Len(s) + i]
    BY <1>2, <2>1
  <2>3. p - 1 + (Len(s) + i) = p + Len(s) - 1 + i
    BY <1>1
  <2> QED
    BY <2>1, <2>2, <2>3
<1>5. Has(b, p + Len(s), t)
  BY <1>1, <1>2, <1>4 DEF Has, u
<1> QED
  BY <1>3, <1>5

(* Of five parts, too.                                                      *)
Five(s, t, u, v, w) == (((s \o t) \o u) \o v) \o w

FiveAt(b, p, s, t, u, v, w) ==
  /\ Has(b, p, s) /\ Has(b, p + Len(s), t) /\ Has(b, p + Len(s) + Len(t), u)
  /\ Has(b, p + Len(s) + Len(t) + Len(u), v)
  /\ Has(b, p + Len(s) + Len(t) + Len(u) + Len(v), w)
  /\ Len(Five(s, t, u, v, w)) = Len(s) + Len(t) + Len(u) + Len(v) + Len(w)

(* Each of five parts has its place.                                        *)
LEMMA HasFiveParts ==
  ASSUME NEW b \in Seq(Byte), NEW p \in Nat \ {0},
         NEW s \in Seq(Byte), NEW t \in Seq(Byte), NEW u \in Seq(Byte),
         NEW v \in Seq(Byte), NEW w \in Seq(Byte),
         Has(b, p, Five(s, t, u, v, w))
  PROVE  FiveAt(b, p, s, t, u, v, w)
<1>1. s \o t \in Seq(Byte) /\ Len(s \o t) = Len(s) + Len(t)
  BY ConcatType
<1> DEFINE st == s \o t
<1> HIDE DEF st
<1>2. st \o u \in Seq(Byte) /\ Len(st \o u) = Len(st) + Len(u)
  BY <1>1, ConcatType DEF st
<1> DEFINE stu == st \o u
<1> HIDE DEF stu
<1>3. stu \o v \in Seq(Byte) /\ Len(stu \o v) = Len(stu) + Len(v)
  BY <1>2, ConcatType DEF stu
<1> DEFINE stuv == stu \o v
<1> HIDE DEF stuv
<1>4. Five(s, t, u, v, w) = stuv \o w /\ Has(b, p, stuv \o w)
  BY DEF Five, stuv, stu, st
<1>5. /\ st \in Seq(Byte) /\ stu \in Seq(Byte) /\ stuv \in Seq(Byte)
      /\ Len(st) = Len(s) + Len(t) /\ Len(stu) = Len(st) + Len(u)
      /\ Len(stuv) = Len(stu) + Len(v) /\ Len(stuv \o w) = Len(stuv) + Len(w)
  <2>1. stuv \in Seq(Byte)
    BY <1>3 DEF stuv
  <2> QED
    BY <1>1, <1>2, <1>3, <2>1, ConcatType DEF st, stu, stuv
<1>6. Has(b, p, stuv) /\ Has(b, p + Len(stuv), w)
  BY <1>4, <1>5, HasParts
<1>7. Has(b, p, stu) /\ Has(b, p + Len(stu), v)
  BY <1>5, <1>6, HasParts DEF stuv
<1>8. Has(b, p, st) /\ Has(b, p + Len(st), u)
  BY <1>5, <1>7, HasParts DEF stu
<1>9. Has(b, p, s) /\ Has(b, p + Len(s), t)
  BY <1>5, <1>8, HasParts DEF st
<1>10. Len(s) \in Nat /\ Len(t) \in Nat /\ Len(u) \in Nat /\ Len(v) \in Nat /\ Len(w) \in Nat
  OBVIOUS
<1>11. /\ p + Len(st) = p + Len(s) + Len(t)
       /\ p + Len(stu) = p + Len(s) + Len(t) + Len(u)
       /\ p + Len(stuv) = p + Len(s) + Len(t) + Len(u) + Len(v)
       /\ Len(Five(s, t, u, v, w)) = Len(s) + Len(t) + Len(u) + Len(v) + Len(w)
  BY <1>4, <1>5, <1>10
<1> QED
  BY <1>6, <1>7, <1>8, <1>9, <1>11 DEF FiveAt

(* What has its place is what substr finds there.                           *)
LEMMA HasSlice ==
  ASSUME NEW b \in Seq(Byte), NEW p \in Nat \ {0}, NEW s \in Seq(Byte), Has(b, p, s)
  PROVE  Slice(b, p, p + Len(s) - 1) = s
<1>1. Len(s) \in Nat /\ Len(b) \in Nat /\ p + Len(s) - 1 \in Int
  OBVIOUS
<1>2. p + Len(s) - 1 <= Len(b) /\ \A i \in 1 .. Len(s) : b[p - 1 + i] = s[i]
  BY <1>1 DEF Has
<1> DEFINE q == p + Len(s) - 1
           t == SubSeq(b, p, q)
<1>3. Slice(b, p, q) = t
  BY <1>1, <1>2 DEF Slice
<1>4. \A i \in p .. q : b[i] \in Byte
  BY <1>1, <1>2, ElementOfSeq
<1>5. /\ t \in Seq(Byte) /\ Len(t) = IF p <= q THEN q - p + 1 ELSE 0
      /\ \A i \in 1 .. q - p + 1 : t[i] = b[p + i - 1]
  BY <1>1, <1>4, SubSeqProperties
<1> HIDE DEF t
<1>6. Len(t) = Len(s)
  BY <1>1, <1>5
<1>7. ASSUME NEW i \in 1 .. Len(t) PROVE t[i] = s[i]
  <2>1. i \in 1 .. Len(s) /\ i \in 1 .. q - p + 1 /\ p + i - 1 = p - 1 + i
    BY <1>1, <1>6
  <2>2. t[i] = b[p + i - 1] /\ b[p - 1 + i] = s[i]
    BY <1>2, <1>5, <2>1
  <2> QED
    BY <2>1, <2>2
<1>8. t = s
  BY <1>5, <1>6, <1>7, SeqEqual
<1> QED
  BY <1>3, <1>8

(* The fields of a message. *)
Fields ==
  {"command", "version", "outcome", "dup", "qos", "retain", "packetID", "topic", "payload",
   "clientId", "will", "willQoS", "willRetain", "willTopic", "willText",
   "credentials", "username", "password", "sessionPresent", "reasonCode"}

(* What the first byte says is read as it was written, but that the         *)
(* quality of service may be another.                                       *)
LEMMA FirstByteRead ==
  ASSUME NEW m \in Message, NEW b, b[1] = FirstByte(m), NEW v \in Versions,
         NEW r, r = ParseFirstByte(b, v)
  PROVE  /\ DOMAIN r = Fields
         /\ r.command = m.command /\ r.version = v /\ r.qos \in 0 .. 2
         /\ m.command = PUBLISH =>
              r.dup = m.dup /\ r.retain = m.retain /\ (r.qos = 0 <=> m.qos = 0)
<1> DEFINE x == b[1]
<1>1. DOMAIN r = Fields
  BY DEF ParseFirstByte, NoMessage, Fields
<1>2. /\ r.command = 16 * (x \div 16) /\ r.version = v
      /\ r.dup = Bit(x, 3) /\ r.retain = Bit(x, 0)
      /\ r.qos = CASE Bit(x, 2) /\ ~Bit(x, 1) -> 1
                   [] Bit(x, 1) /\ ~Bit(x, 2) -> 2
                   [] OTHER -> 0
  BY DEF ParseFirstByte, NoMessage
<1>3. m.qos \in 0 .. 2 /\ m.dup \in BOOLEAN /\ m.retain \in BOOLEAN
  BY DEF Message
<1>4. /\ r.qos \in 0 .. 2
      /\ r.qos = 0 <=> (Bit(x, 2) <=> Bit(x, 1))
  <2>1. CASE Bit(x, 2) /\ ~Bit(x, 1)
    BY <1>2, <2>1
  <2>2. CASE Bit(x, 1) /\ ~Bit(x, 2)
    BY <1>2, <2>2
  <2>3. CASE Bit(x, 2) <=> Bit(x, 1)
    BY <1>2, <2>3
  <2> QED
    BY <2>1, <2>2, <2>3
<1>5. /\ 16 * (x \div 16) = m.command
      /\ m.command = PUBLISH =>
           /\ Bit(x, 0) <=> m.retain
           /\ Bit(x, 1) <=> m.qos = 1
           /\ Bit(x, 2) <=> m.qos = 2
           /\ Bit(x, 3) <=> m.dup
  BY FirstByteType
<1>6. ASSUME m.command = PUBLISH
      PROVE  r.dup = m.dup /\ r.retain = m.retain /\ (r.qos = 0 <=> m.qos = 0)
  <2>1. Bit(x, 0) \in BOOLEAN /\ Bit(x, 3) \in BOOLEAN
    BY DEF Bit
  <2>2. r.dup = m.dup /\ r.retain = m.retain
    BY <1>2, <1>3, <1>5, <1>6, <2>1
  <2>3. r.qos = 0 <=> m.qos = 0
    BY <1>3, <1>4, <1>5, <1>6
  <2> QED
    BY <2>2, <2>3
<1> QED
  BY <1>1, <1>2, <1>4, <1>5, <1>6

(* Whatever else parseMessage finds, the command is the one that was sent.  *)
LEMMA ParseType ==
  ASSUME NEW m \in Message, NEW b, b = Serialize(m), NEW v \in Versions,
         NEW r, r = Parse(b, v)
  PROVE  /\ r.command = m.command /\ r.version \in Versions /\ r.qos \in 0 .. 2
         /\ r.outcome \in {"good", "bad", "throws"}
         /\ m.command # CONNECT => r.version = v
<1> DEFINE f == ParseFirstByte(b, v)
<1>1. /\ DOMAIN f = Fields /\ f.command = m.command /\ f.version = v
      /\ f.qos \in 0 .. 2
  BY SerializeType, FirstByteRead
<1> HIDE DEF f
<1> DEFINE Good(x) ==
             /\ x.command = m.command /\ x.version \in Versions /\ x.qos \in 0 .. 2
             /\ x.outcome \in {"good", "bad", "throws"}
             /\ m.command # CONNECT => x.version = v
<1>2. ASSUME m.command = CONNECT PROVE  Good(ParseConnect(b, v))
  <2> DEFINE g == ParseConnect(b, v)
  <2>1. /\ g.command = f.command /\ g.qos = f.qos
        /\ g.version \in {f.version, v, 4}
        /\ g.outcome \in {"good", "bad", "throws"}
    BY <1>1 DEF ParseConnect, f, Fields
  <2> QED
    BY <1>1, <1>2, <2>1 DEF Versions
<1>3. Good(ParsePublish(b, v))
  <2> DEFINE g == ParsePublish(b, v)
  <2>1. /\ g.command = f.command /\ g.qos = f.qos /\ g.version = f.version
        /\ g.outcome \in {"good", "throws"}
    BY <1>1 DEF ParsePublish, f, Fields
  <2> QED
    BY <1>1, <2>1
<1>4. Good([f EXCEPT !.outcome = "bad"]) /\ Good([f EXCEPT !.outcome = "good"])
  BY <1>1 DEF Fields
<1>5. Good([f EXCEPT !.outcome = "good", !.sessionPresent = At(b, 3) # 0,
                     !.reasonCode = At(b, 4)])
  BY <1>1 DEF Fields
<1> HIDE DEF Good
<1>6. Good(r)
  BY <1>1, <1>2, <1>3, <1>4, <1>5 DEF Parse, f
<1> QED
  BY <1>6 DEF Good

(* The fields of a PUBLISH, and where they are found: topic t, identifier i *)
(* if there is one, n bytes of properties, payload p.                       *)
Placed(b, t, i, n, p) ==
  /\ 4 + 256 * At(b, 3) + At(b, 4) = 4 + Len(t)
  /\ Slice(b, 5, 4 + Len(t)) = t
  /\ Len(i) = 2 => <<At(b, 5 + Len(t)), At(b, 6 + Len(t))>> = i
  /\ Slice(b, 5 + Len(t) + Len(i) + n, Len(b)) = p
  /\ Len(b) = 4 + Len(t) + Len(i) + n + Len(p)

(* Where they stand in what serialize writes.                               *)
LEMMA PublishPlaces ==
  ASSUME NEW b \in Seq(Byte), Len(b) < 130,
         NEW u \in Seq(Byte), NEW t \in Seq(Byte), NEW i \in Seq(Byte),
         NEW v \in Seq(Byte), NEW p \in Seq(Byte),
         Len(u) = 2, Len(t) < 256 => u[1] = 0 /\ u[2] = Len(t),
         Has(b, 3, Five(u, t, i, v, p)), Len(b) = 2 + Len(Five(u, t, i, v, p))
  PROVE  Placed(b, t, i, Len(v), p)
<1>1. /\ Len(b) \in Nat /\ Len(t) \in Nat /\ Len(i) \in Nat /\ Len(v) \in Nat /\ Len(p) \in Nat
  OBVIOUS
<1>3. /\ Has(b, 3, u) /\ Has(b, 3 + Len(u), t) /\ Has(b, 3 + Len(u) + Len(t), i)
      /\ Has(b, 3 + Len(u) + Len(t) + Len(i) + Len(v), p)
      /\ Len(Five(u, t, i, v, p)) = Len(u) + Len(t) + Len(i) + Len(v) + Len(p)
  <2>1. 3 \in Nat \ {0}
    OBVIOUS
  <2>2. FiveAt(b, 3, u, t, i, v, p)
    BY <2>1, HasFiveParts
  <2> QED
    BY <2>2 DEF FiveAt
<1> DEFINE rest == 5 + Len(t) + Len(i) + Len(v)
<1>4. /\ 3 + Len(u) = 5 /\ 3 + Len(u) + Len(t) = 5 + Len(t)
      /\ 3 + Len(u) + Len(t) + Len(i) + Len(v) = rest /\ rest \in Nat \ {0}
      /\ Len(b) = rest + Len(p) - 1 /\ Len(t) < 256
      /\ Len(b) = 4 + Len(t) + Len(i) + Len(v) + Len(p)
  BY <1>1, <1>3
<1> HIDE DEF rest
<1>5. Has(b, 5, t) /\ Has(b, 5 + Len(t), i) /\ Has(b, rest, p)
  BY <1>3, <1>4
<1>6. At(b, 3) = 0 /\ At(b, 4) = Len(t)
  <2>1. 3 - 1 + Len(u) <= Len(b) /\ \A j \in 1 .. Len(u) : b[3 - 1 + j] = u[j]
    BY <1>3 DEF Has
  <2>2. 4 <= Len(b) /\ b[3 - 1 + 1] = u[1] /\ b[3 - 1 + 2] = u[2]
    BY <2>1
  <2> QED
    BY <1>1, <1>4, <2>2 DEF At
<1>7. Slice(b, 5, 4 + Len(t)) = t
  <2>1. 5 + Len(t) - 1 = 4 + Len(t)
    BY <1>1
  <2> QED
    BY <1>5, <2>1, HasSlice
<1>8. Slice(b, rest, Len(b)) = p
  <2>1. Slice(b, rest, rest + Len(p) - 1) = p
    BY <1>4, <1>5, HasSlice
  <2> QED
    BY <1>4, <2>1
<1>9. ASSUME Len(i) = 2 PROVE <<At(b, 5 + Len(t)), At(b, 6 + Len(t))>> = i
  <2> DEFINE k == 5 + Len(t)
  <2>1. k \in Nat /\ k + 1 = 6 + Len(t) /\ k + 1 <= Len(b) /\ k - 1 + 1 = k /\ k - 1 + 2 = k + 1
    BY <1>1, <1>4, <1>9
  <2>2. \A j \in 1 .. 2 : b[k - 1 + j] = i[j]
    BY <1>5, <1>9 DEF Has
  <2> HIDE DEF k
  <2>3. At(b, k) = i[1] /\ At(b, k + 1) = i[2]
    BY <1>1, <2>1, <2>2 DEF At
  <2>4. i = <<i[1], i[2]>>
    BY <1>9
  <2> QED
    BY <2>1, <2>3, <2>4 DEF k
<1>10. 4 + 256 * At(b, 3) + At(b, 4) = 4 + Len(t)
  BY <1>1, <1>6
<1> QED
  BY <1>4, <1>7, <1>8, <1>9, <1>10 DEF Placed, rest

(* The parts of a PUBLISH.                                                  *)
LEMMA PublishBody ==
  ASSUME NEW m \in Message, m.command = PUBLISH, Len(m.packetID) = 2,
         NEW u, u = U16(Len(m.topic)), NEW i, i = When(m.qos # 0, m.packetID),
         NEW v, v = When(m.version = 5, << 0 >>)
  PROVE  /\ VarHeader(m) \o Payload(m) =
              Five(u, m.topic, i, v, m.payload)
         /\ u \in Seq(Byte) /\ Len(u) = 2
         /\ Len(m.topic) < 256 => u[1] = 0 /\ u[2] = Len(m.topic)
         /\ i \in Seq(Byte) /\ Len(i) = Flag(m.qos # 0, 2) /\ (m.qos # 0 => i = m.packetID)
         /\ v \in Seq(Byte) /\ Len(v) = Flag(m.version = 5, 1)
<1>1. m.packetID \in Seq(Byte) /\ m.payload \in Seq(Byte) /\ <<0>> \in Seq(Byte)
  BY ByteType DEF Message
<1>2. m.payload \o <<>> = m.payload
  BY <1>1, ConcatEmptySeq
<1>3. VarHeader(m) = ((u \o m.topic) \o i) \o v
  <2>1. VarHeader(m) = (Counted(m.topic) \o i) \o v
    BY DEF VarHeader, CONNECT, CONNACK, PUBLISH, SUBSCRIBE, UNSUBSCRIBE
  <2> QED
    BY <2>1 DEF Counted
<1>4. Payload(m) = m.payload
  BY <1>2 DEF Payload, CONNECT, PUBLISH, SUBSCRIBE, UNSUBSCRIBE
<1>5. i \in Seq(Byte) /\ Len(i) = Flag(m.qos # 0, 2) /\ (m.qos # 0 => i = m.packetID)
  <2>1. CASE m.qos # 0
    BY <1>1, <2>1 DEF When, Flag
  <2>2. CASE m.qos = 0
    BY <2>2 DEF When, Flag
  <2> QED
    BY <2>1, <2>2
<1>6. v \in Seq(Byte) /\ Len(v) = Flag(m.version = 5, 1)
  <2>1. CASE m.version = 5
    BY <1>1, <2>1 DEF When, Flag
  <2>2. CASE m.version # 5
    BY <2>2 DEF When, Flag
  <2> QED
    BY <2>1, <2>2
<1>7. /\ u \in Seq(Byte) /\ Len(u) = 2
      /\ Len(m.topic) < 256 => u[1] = 0 /\ u[2] = Len(m.topic)
  <2>1. Len(m.topic) \in Nat
    BY DEF Message
  <2> QED
    BY <2>1, U16Type
<1> QED
  BY <1>3, <1>4, <1>5, <1>6, <1>7 DEF Five

(* A PUBLISH whose places are known: what is made of it.                    *)
LEMMA PublishFields ==
  ASSUME NEW b \in Seq(Byte), NEW version, NEW t \in Seq(Byte), NEW p \in Seq(Byte),
         NEW i \in Seq(Byte), Len(i) = Flag(Bit(b[1], 1) \/ Bit(b[1], 2), 2),
         Placed(b, t, i, Flag(version = 5, 1), p),
         NEW f, f = ParseFirstByte(b, version), DOMAIN f = Fields,
         NEW r, r = ParsePublish(b, version)
  PROVE  /\ r.outcome = "good" /\ r.topic = t
         /\ r.dup = f.dup /\ r.retain = f.retain /\ r.qos = f.qos
         /\ Bit(b[1], 1) \/ Bit(b[1], 2) => r.packetID = i
         /\ Len(p) # 1 => r.payload = p
<1> DEFINE id == Bit(b[1], 1) \/ Bit(b[1], 2)
           end == 4 + Len(t)
           n == Flag(id, 2)
           five == Flag(version = 5, 1)
           rest == end + 1 + n + five
<1>1. Len(t) \in Nat /\ Len(p) \in Nat /\ end \in Nat /\ end >= 4
  OBVIOUS
<1>2. five \in {0, 1} /\ n \in {0, 2} /\ (id => n = 2) /\ Len(i) = n
  BY DEF Flag
<1>3. 4 + 256 * At(b, 3) + At(b, 4) = end /\ Slice(b, 5, end) = t
  BY DEF Placed
<1>4. Slice(b, 5 + Len(t) + Len(i) + five, Len(b)) = p
  BY DEF Placed
<1>5. Len(b) = 4 + Len(t) + Len(i) + five + Len(p)
  BY DEF Placed
<1>6. end + 1 = 5 + Len(t) /\ end + 2 = 6 + Len(t)
  OBVIOUS
<1>7. ASSUME id PROVE <<At(b, end + 1), At(b, end + 2)>> = i
  BY <1>2, <1>6, <1>7 DEF Placed
<1> HIDE DEF five, n
<1>8. /\ 5 + Len(t) + Len(i) + five = rest
      /\ ~(Len(b) < 4 \/ rest > Len(b) + 1)
      /\ Len(p) # 1 => rest # Len(b)
  <2> DEFINE lt == Len(t)
             li == Len(i)
             lp == Len(p)
             lb == Len(b)
  <2>1. /\ lt \in Nat /\ lp \in Nat /\ li = n /\ rest = 4 + lt + 1 + n + five
        /\ lb = 4 + lt + li + five + lp
    BY <1>1, <1>2, <1>5
  <2> HIDE DEF lt, li, lp, lb, rest
  <2>2. /\ 5 + lt + li + five = rest
        /\ ~(lb < 4 \/ rest > lb + 1)
        /\ lp # 1 => rest # lb
    BY <1>2, <2>1
  <2> QED
    BY <2>2 DEF lt, li, lp, lb
<1> HIDE DEF end, rest
<1>9. r = [f EXCEPT !.outcome = "good", !.topic = Slice(b, 5, end),
                    !.packetID = When(id, <<At(b, end + 1), At(b, end + 2)>>),
                    !.payload = When(rest # Len(b), Slice(b, rest, Len(b)))]
  <2> DEFINE Good(x, y) ==
               [ParseFirstByte(b, version) EXCEPT
                  !.outcome = "good", !.topic = Slice(b, 5, x),
                  !.packetID = When(id, <<At(b, x + 1), At(b, x + 2)>>),
                  !.payload = When(y # Len(b), Slice(b, y, Len(b)))]
             Throws == [ParseFirstByte(b, version) EXCEPT !.outcome = "throws"]
             x0 == 4 + 256 * At(b, 3) + At(b, 4)
             y0 == x0 + 1 + Flag(id, 2) + Flag(version = 5, 1)
  <2>1. r = IF Len(b) < 4 \/ y0 > Len(b) + 1 THEN Throws ELSE Good(x0, y0)
    BY Zenon DEF ParsePublish
  <2>2. x0 = end
    BY <1>3
  <2>3. y0 = end + 1 + n + five
    BY <2>2 DEF n, five
  <2> HIDE DEF Good, Throws, x0, y0
  <2>4. y0 = rest
    BY <2>3 DEF rest
  <2>5. r = Good(end, rest)
    BY <1>8, <2>1, <2>2, <2>4
  <2> QED
    BY <2>5 DEF Good
<1>10. /\ r.outcome = "good" /\ r.topic = Slice(b, 5, end)
       /\ r.dup = f.dup /\ r.retain = f.retain /\ r.qos = f.qos
       /\ r.packetID = When(id, <<At(b, end + 1), At(b, end + 2)>>)
       /\ r.payload = When(rest # Len(b), Slice(b, rest, Len(b)))
  BY <1>9 DEF Fields
<1>11. ASSUME id PROVE r.packetID = i
  BY <1>7, <1>10, <1>11 DEF When
<1>12. ASSUME Len(p) # 1 PROVE r.payload = p
  BY <1>4, <1>8, <1>10, <1>12 DEF When
<1> HIDE DEF id
<1>13. Bit(b[1], 1) \/ Bit(b[1], 2) => id
  BY DEF id
<1> QED
  BY <1>3, <1>10, <1>11, <1>12, <1>13

(* A short PUBLISH is read by a side of its own version as it was written.  *)
LEMMA PublishRead ==
  ASSUME NEW m \in Message, m.command = PUBLISH, Len(m.packetID) = 2,
         NEW b, b = Serialize(m), Len(b) < Base + 2, NEW r, r = Parse(b, m.version)
  PROVE  /\ r.outcome = "good" /\ r.topic = m.topic
         /\ r.dup = m.dup /\ r.retain = m.retain /\ (r.qos = 0 <=> m.qos = 0)
         /\ m.qos # 0 => r.packetID = m.packetID
         /\ Len(m.payload) # 1 => r.payload = m.payload
<1> DEFINE u == U16(Len(m.topic))
           i == When(m.qos # 0, m.packetID)
           v == When(m.version = 5, <<0>>)
           body == VarHeader(m) \o Payload(m)
           f == ParseFirstByte(b, m.version)
           id == m.qos # 0
<1>1. /\ m.version \in Versions /\ m.qos \in 0 .. 2
      /\ m.topic \in Seq(Byte) /\ m.payload \in Seq(Byte)
  BY DEF Message
<1>2. Len(b) < 130
  BY ByteType
<1>3. /\ b \in Seq(Byte) /\ b[1] = FirstByte(m) /\ Valid(b)
      /\ Has(b, 3, body) /\ Len(b) = 2 + Len(body)
  BY SerializeType
<1>4. /\ body = Five(u, m.topic, i, v, m.payload)
      /\ u \in Seq(Byte) /\ Len(u) = 2
      /\ Len(m.topic) < 256 => u[1] = 0 /\ u[2] = Len(m.topic)
      /\ i \in Seq(Byte) /\ Len(i) = Flag(id, 2) /\ (id => i = m.packetID)
      /\ v \in Seq(Byte) /\ Len(v) = Flag(m.version = 5, 1)
  <2> HIDE DEF u, i, v
  <2> QED
    BY PublishBody DEF u, i, v
<1>5. id <=> Bit(b[1], 1) \/ Bit(b[1], 2)
  BY <1>1, <1>3, FirstByteType
<1>6. /\ DOMAIN f = Fields /\ f.command = PUBLISH
      /\ f.dup = m.dup /\ f.retain = m.retain /\ (f.qos = 0 <=> m.qos = 0)
  BY <1>1, <1>3, FirstByteRead
<1>7. r = ParsePublish(b, m.version)
  BY <1>3, <1>6 DEF Parse, CONNECT, CONNACK, PUBLISH
<1> HIDE DEF u, i, v, body, f
<1>8. Placed(b, m.topic, i, Len(v), m.payload)
  <2>1. Has(b, 3, Five(u, m.topic, i, v, m.payload))
        /\ Len(b) = 2 + Len(Five(u, m.topic, i, v, m.payload))
    BY <1>3, <1>4
  <2>2. \A t, p \in Seq(Byte) :
           /\ Len(t) < 256 => u[1] = 0 /\ u[2] = Len(t)
           /\ Has(b, 3, Five(u, t, i, v, p)) /\ Len(b) = 2 + Len(Five(u, t, i, v, p))
           => Placed(b, t, i, Len(v), p)
    BY <1>2, <1>3, <1>4, PublishPlaces
  <2> QED
    BY <1>1, <1>4, <2>1, <2>2
<1>9. Len(i) = Flag(Bit(b[1], 1) \/ Bit(b[1], 2), 2)
  BY <1>4, <1>5 DEF Flag
<1>10. /\ r.outcome = "good" /\ r.topic = m.topic
       /\ r.dup = f.dup /\ r.retain = f.retain /\ r.qos = f.qos
       /\ Bit(b[1], 1) \/ Bit(b[1], 2) => r.packetID = i
       /\ Len(m.payload) # 1 => r.payload = m.payload
  <2>1. Placed(b, m.topic, i, Flag(m.version = 5, 1), m.payload)
    BY <1>4, <1>8
  <2>2. f = ParseFirstByte(b, m.version)
    BY DEF f
  <2> QED
    BY <1>1, <1>3, <1>4, <1>6, <1>7, <1>9, <2>1, <2>2, PublishFields
<1> QED
  BY <1>4, <1>5, <1>6, <1>10

(* The parts of a CONNECT. *)
LEMMA ConnectBody ==
  ASSUME NEW m \in Message, m.command = CONNECT,
         NEW w, w = When(m.version = 5, <<5, 17, 10, 0, 0, 0>>)
  PROVE  /\ VarHeader(m) \o Payload(m) =
              Five(<<0, 4>> \o ProtocolName, <<m.version, ConnectFlags(m)>>, U16(60), w,
                   Payload(m))
         /\ <<0, 4>> \o ProtocolName \in Seq(Byte) /\ Len(<<0, 4>> \o ProtocolName) = 6
         /\ <<m.version, ConnectFlags(m)>> \in Seq(Byte)
         /\ U16(60) \in Seq(Byte) /\ Len(U16(60)) = 2
         /\ w \in Seq(Byte) /\ Payload(m) \in Seq(Byte)
         /\ m.payload = <<>> => Len(Payload(m)) >= 2
<1>1. /\ m.version \in Versions /\ m.will \in BOOLEAN /\ m.credentials \in BOOLEAN
      /\ m.clientId \in Seq(Byte) /\ m.willTopic \in Seq(Byte) /\ m.willText \in Seq(Byte)
      /\ m.username \in Seq(Byte) /\ m.password \in Seq(Byte)
  BY DEF Message
<1>2. /\ ProtocolName \in Seq(Byte) /\ Len(ProtocolName) = 4
      /\ <<0, 4>> \in Seq(Byte) /\ Len(<<0, 4>>) = 2
      /\ <<5, 17, 10, 0, 0, 0>> \in Seq(Byte)
  BY ByteType DEF ProtocolName
<1>3. U16(4) = <<0, 4>>
  BY DEF U16
<1>4. VarHeader(m) =
        (((<<0, 4>> \o ProtocolName) \o <<m.version, ConnectFlags(m)>>) \o U16(60)) \o w
  <2> DEFINE u == U16(4)
             x == <<m.version, ConnectFlags(m)>>
  <2>1. VarHeader(m) = (((u \o ProtocolName) \o x) \o U16(60)) \o w
    BY DEF VarHeader, CONNECT, CONNACK, PUBLISH, SUBSCRIBE, UNSUBSCRIBE
  <2> HIDE DEF x, u
  <2>2. u = <<0, 4>>
    BY <1>3 DEF u
  <2> QED
    BY <2>1, <2>2 DEF x
<1>5. <<m.version, ConnectFlags(m)>> \in Seq(Byte)
  <2>1. m.version \in Byte /\ ConnectFlags(m) \in Byte
    BY <1>1, ByteType, ConnectFlagsType DEF Versions
  <2> QED
    BY <2>1
<1>6. <<0, 4>> \o ProtocolName \in Seq(Byte) /\ Len(<<0, 4>> \o ProtocolName) = 6
  <2> DEFINE x == <<0, 4>>
  <2>1. x \in Seq(Byte) /\ Len(x) = 2
    BY <1>2
  <2> HIDE DEF x
  <2>2. /\ x \o ProtocolName \in Seq(Byte)
        /\ Len(x \o ProtocolName) = Len(x) + Len(ProtocolName)
    BY <1>2, <2>1, ConcatType
  <2>3. Len(x \o ProtocolName) = 6
    BY <1>2, <2>1, <2>2
  <2> QED
    BY <2>2, <2>3 DEF x
<1>7. U16(60) \in Seq(Byte) /\ Len(U16(60)) = 2
  BY U16Type
<1>8. w \in Seq(Byte)
  BY <1>2, WhenType
<1>9. ASSUME m.payload = <<>> PROVE Len(Payload(m)) >= 2
  <2> DEFINE c == Counted(m.clientId)
             x == When(m.will, Miscounted(m.willTopic) \o Miscounted(m.willText))
             y == When(m.credentials, Miscounted(m.username) \o Miscounted(m.password))
  <2>1. c \in Seq(Byte) /\ Len(c) = 2 + Len(m.clientId)
    BY <1>1, CountedType
  <2>2. x \in Seq(Byte) /\ y \in Seq(Byte)
    <3>1. \A s, t \in Seq(Byte) : Miscounted(s) \o Miscounted(t) \in Seq(Byte)
      BY MiscountedType, ConcatType
    <3> QED
      BY <1>1, <3>1, WhenType
  <2>3. Payload(m) = <<>> \o ((c \o x) \o y)
    BY <1>9 DEF Payload, CONNECT, SUBSCRIBE, UNSUBSCRIBE
  <2> HIDE DEF c, x, y
  <2>4. c \o x \in Seq(Byte) /\ Len(c \o x) = Len(c) + Len(x)
    BY <2>1, <2>2, ConcatType
  <2> DEFINE cx == c \o x
  <2> HIDE DEF cx
  <2>5. cx \o y \in Seq(Byte) /\ Len(cx \o y) = Len(c) + Len(x) + Len(y)
    BY <2>1, <2>2, <2>4, ConcatType DEF cx
  <2>6. Payload(m) = cx \o y
    BY <2>3, <2>5, ConcatEmptySeq DEF cx
  <2>7. Len(m.clientId) \in Nat /\ Len(x) \in Nat /\ Len(y) \in Nat
    BY <1>1, <2>2
  <2> QED
    BY <2>1, <2>5, <2>6, <2>7
<1>10. VarHeader(m) \o Payload(m) =
              Five(<<0, 4>> \o ProtocolName, <<m.version, ConnectFlags(m)>>, U16(60), w,
                   Payload(m))
  BY <1>4 DEF Five
<1> QED
  BY <1>5, <1>6, <1>7, <1>8, <1>9, <1>10, BodyType

(* What the checks of parseMessage and its flags are compared with.         *)
LEMMA ConnectPlaces ==
  ASSUME NEW b \in Seq(Byte), NEW s \in Seq(Byte), Len(s) = 6,
         NEW version, NEW flags, <<version, flags>> \in Seq(Byte),
         NEW k \in Seq(Byte), Len(k) = 2, NEW w \in Seq(Byte), NEW p \in Seq(Byte),
         Has(b, 3, Five(s, <<version, flags>>, k, w, p)),
         Len(b) = 2 + Len(Five(s, <<version, flags>>, k, w, p))
  PROVE  /\ Slice(b, 3, 8) = s /\ At(b, 9) = version /\ At(b, 10) = flags
         /\ Len(p) >= 2 => Len(b) >= 14
<1> DEFINE u == <<version, flags>>
<1>1. u \in Seq(Byte) /\ Len(u) = 2 /\ u[1] = version /\ u[2] = flags
  OBVIOUS
<1> HIDE DEF u
<1>2. FiveAt(b, 3, s, u, k, w, p)
  <2>1. Has(b, 3, Five(s, u, k, w, p)) /\ 3 \in Nat \ {0}
    BY DEF u
  <2> QED
    BY <1>1, <2>1, HasFiveParts
<1>3. /\ Has(b, 3, s) /\ Has(b, 3 + Len(s), u)
      /\ Len(Five(s, u, k, w, p)) = Len(s) + Len(u) + Len(k) + Len(w) + Len(p)
  BY <1>2 DEF FiveAt
<1>4. Slice(b, 3, 8) = s
  <2>1. 3 + Len(s) - 1 = 8
    OBVIOUS
  <2>2. 3 \in Nat \ {0} /\ Has(b, 3, s)
    BY <1>3
  <2>3. Slice(b, 3, 3 + Len(s) - 1) = s
    BY ONLY b \in Seq(Byte), s \in Seq(Byte), <2>2, HasSlice
  <2> QED
    BY ONLY <2>1, <2>3
<1>5. At(b, 9) = version /\ At(b, 10) = flags
  <2>1. Has(b, 9, u)
    <3>1. 3 + Len(s) = 9
      OBVIOUS
    <3> QED
      BY <1>3, <3>1
  <2>2. Len(b) \in Nat /\ 10 <= Len(b) /\ b[9] = u[1] /\ b[10] = u[2]
    <3>1. 9 - 1 + 2 <= Len(b) /\ \A i \in 1 .. 2 : b[9 - 1 + i] = u[i]
      BY <1>1, <2>1 DEF Has
    <3>2. b[9 - 1 + 1] = u[1] /\ b[9 - 1 + 2] = u[2]
      BY <3>1
    <3> QED
      BY <3>1, <3>2
  <2> QED
    BY <1>1, <2>2 DEF At
<1>6. ASSUME Len(p) >= 2 PROVE Len(b) >= 14
  <2>1. Len(w) \in Nat /\ Len(p) \in Nat
    OBVIOUS
  <2>2. Len(b) = 2 + (6 + 2 + 2 + Len(w) + Len(p))
    BY <1>1, <1>3 DEF u
  <2> QED
    BY <1>6, <2>1, <2>2
<1> QED
  BY <1>4, <1>5, <1>6

(* A CONNECT that passes the checks: what is made of it.                    *)
FlagsRead(r, flags, n) ==
  /\ r.outcome \in {"good", "throws"}
  /\ r.outcome = "good" =>
       /\ r.will = Bit(flags, 2) /\ r.willQoS = IF Bit(flags, 3) THEN {1} ELSE {}
       /\ r.willRetain = Bit(flags, 5)
       /\ r.credentials = (Bit(flags, 7) /\ Bit(flags, 6))
  /\ ~Bit(flags, 2) /\ ~Bit(flags, 6) /\ ~Bit(flags, 7) /\ n >= 14 => r.outcome = "good"

(* What parseMessage keeps of a CONNECT that passes its checks.             *)
LEMMA ConnectFields ==
  ASSUME NEW b \in Seq(Byte), NEW version,
         Slice(b, 3, 8) = <<0, 4>> \o ProtocolName, At(b, 9) \in Versions,
         ~Bit(At(b, 10), 0), DOMAIN ParseFirstByte(b, version) = Fields,
         NEW r, r = ParseConnect(b, version)
  PROVE  FlagsRead(r, At(b, 10), Len(b))
<1> DEFINE flags == At(b, 10)
           f == ParseFirstByte(b, version)
           id       == StringAt(b, 13)
           topic    == StringIf(Bit(flags, 2), b, id)
           text     == StringIf(Bit(flags, 2), b, topic)
           user     == StringIf(Bit(flags, 7), b, text)
           password == StringIf(Bit(flags, 6), b, user)
           Good == [f EXCEPT
                      !.outcome = "good", !.clientId = id.text,
                      !.version = IF At(b, 9) = 4 THEN 4 ELSE version,
                      !.will = Bit(flags, 2), !.willQoS = IF Bit(flags, 3) THEN {1} ELSE {},
                      !.willRetain = Bit(flags, 5),
                      !.willTopic = topic.text, !.willText = text.text,
                      !.credentials = Bit(flags, 7) /\ Bit(flags, 6),
                      !.username = user.text, !.password = password.text]
           Throws == [f EXCEPT !.outcome = "throws"]
<1>1. r = IF ~password.ok THEN Throws ELSE Good
  BY DEF ParseConnect
<1>2. Throws.outcome = "throws"
  BY DEF Fields
<1>3. /\ Good.outcome = "good"
      /\ Good.will = Bit(flags, 2) /\ Good.willQoS = IF Bit(flags, 3) THEN {1} ELSE {}
      /\ Good.willRetain = Bit(flags, 5)
      /\ Good.credentials = (Bit(flags, 7) /\ Bit(flags, 6))
  <2> HIDE DEF f, id, topic, text, user, password
  <2> QED
    BY DEF Fields, f
<1>4. ASSUME ~Bit(flags, 2), ~Bit(flags, 6), ~Bit(flags, 7), Len(b) >= 14
      PROVE  password.ok
  <2>1. 13 + 2 <= Len(b) + 1
    <3>1. Len(b) \in Nat
      OBVIOUS
    <3> QED
      BY <1>4, <3>1
  <2>2. DOMAIN id = {"text", "next", "ok"} /\ id.ok
    BY <2>1 DEF StringAt
  <2> HIDE DEF id
  <2>3. topic = [id EXCEPT !.text = <<>>]
    BY <1>4 DEF StringIf
  <2>4. DOMAIN topic = {"text", "next", "ok"} /\ topic.ok
    BY <2>1, <2>2, <2>3
  <2> HIDE DEF topic
  <2>5. text = [topic EXCEPT !.text = <<>>]
    BY <1>4 DEF StringIf
  <2>6. DOMAIN text = {"text", "next", "ok"} /\ text.ok
    BY <2>4, <2>5
  <2> HIDE DEF text
  <2>7. user = [text EXCEPT !.text = <<>>]
    BY <1>4 DEF StringIf
  <2>8. DOMAIN user = {"text", "next", "ok"} /\ user.ok
    BY <2>6, <2>7
  <2> HIDE DEF user
  <2>9. password = [user EXCEPT !.text = <<>>]
    BY <1>4 DEF StringIf
  <2> QED
    BY <2>8, <2>9
<1> HIDE DEF Good, Throws, password
<1> QED
  BY <1>1, <1>2, <1>3, <1>4 DEF FlagsRead

(* A short CONNECT is not refused; if it is accepted it keeps its flags; and *)
(* it is accepted if nothing follows the client identifier.                  *)
LEMMA ConnectRead ==
  ASSUME NEW m \in Message, m.command = CONNECT, NEW v \in Versions,
         NEW b, b = Serialize(m), Len(b) < Base + 2, NEW r, r = Parse(b, v)
  PROVE  /\ r.outcome \in {"good", "throws"}
         /\ r.outcome = "good" =>
              /\ r.will = m.will /\ r.willRetain = m.willRetain
              /\ r.credentials = m.credentials
              /\ r.willQoS = m.willQoS \ {2}
         /\ ~m.will /\ ~m.credentials /\ m.payload = <<>> => r.outcome = "good"
<1> DEFINE body == VarHeader(m) \o Payload(m)
           f == ParseFirstByte(b, v)
           s == <<0, 4>> \o ProtocolName
           u == <<m.version, ConnectFlags(m)>>
           k == U16(60)
           w == When(m.version = 5, <<5, 17, 10, 0, 0, 0>>)
           p == Payload(m)
           flags == ConnectFlags(m)
<1>1. /\ m.version \in Versions /\ m.will \in BOOLEAN /\ m.willRetain \in BOOLEAN
      /\ m.credentials \in BOOLEAN
  BY DEF Message
<1>2. /\ b \in Seq(Byte) /\ b[1] = FirstByte(m) /\ Valid(b)
      /\ Has(b, 3, body) /\ Len(b) = 2 + Len(body)
  BY SerializeType
<1>3. /\ body = Five(s, u, k, w, p)
      /\ s \in Seq(Byte) /\ Len(s) = 6 /\ u \in Seq(Byte)
      /\ k \in Seq(Byte) /\ Len(k) = 2 /\ w \in Seq(Byte) /\ p \in Seq(Byte)
      /\ m.payload = <<>> => Len(p) >= 2
  BY ConnectBody
<1>4. DOMAIN f = Fields /\ f.command = CONNECT
  BY <1>2, FirstByteRead
<1>5. r = ParseConnect(b, v)
  BY <1>2, <1>4 DEF Parse, CONNECT, CONNACK, PUBLISH
<1>6. /\ ~Bit(flags, 0)
      /\ Bit(flags, 2) <=> m.will
      /\ Bit(flags, 3) <=> 1 \in m.willQoS
      /\ Bit(flags, 5) <=> m.willRetain
      /\ Bit(flags, 6) <=> m.credentials
      /\ Bit(flags, 7) <=> m.credentials
  BY ConnectFlagsType
<1>7. /\ Slice(b, 3, 8) = s /\ At(b, 9) = m.version /\ At(b, 10) = flags
      /\ Len(p) >= 2 => Len(b) >= 14
  <2>1. Has(b, 3, Five(s, u, k, w, p)) /\ Len(b) = 2 + Len(Five(s, u, k, w, p))
    BY <1>2, <1>3
  <2> HIDE DEF s, k, w, p, flags
  <2> QED
    BY <1>2, <1>3, <2>1, ConnectPlaces DEF flags
<1> HIDE DEF k, w, p, flags
<1>8. FlagsRead(r, flags, Len(b))
  <2>1. DOMAIN ParseFirstByte(b, v) = Fields /\ ~Bit(At(b, 10), 0) /\ At(b, 9) \in Versions
    BY <1>1, <1>4, <1>6, <1>7
  <2>2. FlagsRead(r, At(b, 10), Len(b))
    BY <1>2, <1>5, <1>7, <2>1, ConnectFields
  <2> QED
    BY <1>7, <2>2
<1>9. ASSUME r.outcome = "good"
      PROVE  /\ r.will = m.will /\ r.willRetain = m.willRetain
             /\ r.credentials = m.credentials
             /\ r.willQoS = m.willQoS \ {2}
  <2>1. /\ r.will = Bit(flags, 2) /\ r.willQoS = IF Bit(flags, 3) THEN {1} ELSE {}
        /\ r.willRetain = Bit(flags, 5)
        /\ r.credentials = (Bit(flags, 7) /\ Bit(flags, 6))
    BY <1>8, <1>9 DEF FlagsRead
  <2>2. \A i \in 0 .. 7 : Bit(flags, i) \in BOOLEAN
    BY DEF Bit
  <2>3. r.will = m.will
    BY <1>1, <1>6, <2>1, <2>2
  <2>4. r.willRetain = m.willRetain
    BY <1>1, <1>6, <2>1, <2>2
  <2>5. r.credentials = m.credentials
    BY <1>1, <1>6, <2>1, <2>2
  <2>6. r.willQoS = m.willQoS \ {2}
    <3>1. m.willQoS \subseteq {1, 2} /\ (Bit(flags, 3) <=> 1 \in m.willQoS)
      BY <1>6 DEF Message
    <3> QED
      BY <2>1, <3>1
  <2> QED
    BY <2>3, <2>4, <2>5, <2>6
<1>10. ASSUME ~m.will, ~m.credentials, m.payload = <<>> PROVE r.outcome = "good"
  BY <1>3, <1>6, <1>7, <1>8, <1>10 DEF FlagsRead
<1> QED
  BY <1>8, <1>9, <1>10 DEF FlagsRead

(* No other short packet is refused.                                        *)
LEMMA OthersRead ==
  ASSUME NEW m \in Message, m.command # CONNECT, NEW v \in Versions,
         NEW b, b = Serialize(m), Len(b) < Base + 2, NEW r, r = Parse(b, v)
  PROVE  /\ r.outcome # "bad"
         /\ m.command # PUBLISH => r.outcome = "good"
<1> DEFINE f == ParseFirstByte(b, v)
<1>1. Valid(b) /\ DOMAIN f = Fields /\ f.command = m.command
  BY SerializeType, FirstByteRead
<1> HIDE DEF f
<1>2. CASE m.command = PUBLISH
  <2>1. r = ParsePublish(b, v)
    BY <1>1, <1>2 DEF Parse, f, CONNECT, CONNACK, PUBLISH
  <2>2. ParsePublish(b, v).outcome \in {"good", "throws"}
    BY <1>1 DEF ParsePublish, f, Fields
  <2> QED
    BY <1>2, <2>1, <2>2
<1>3. CASE m.command # PUBLISH
  <2>1. \/ r = [f EXCEPT !.outcome = "good", !.sessionPresent = At(b, 3) # 0,
                         !.reasonCode = At(b, 4)]
        \/ r = [f EXCEPT !.outcome = "good"]
    BY <1>1, <1>3 DEF Parse, f
  <2> QED
    BY <1>1, <1>3, <2>1 DEF Fields
<1> QED
  BY <1>2, <1>3

-----------------------------------------------------------------------------
(* The invariant. *)

(* Before the first call of serialize, only a PUBLISH has a payload.        *)
Made ==
  /\ out \in Message /\ times \in 0 .. MaxTimes
  /\ out.command # 0 => Len(out.packetID) = 2
  /\ times = 0 /\ out.command # PUBLISH => out.payload = <<>>

(* The packet is that of the message as it was before serialize wrote it:   *)
(* its payload was the first n bytes of what is the payload now.            *)
WrittenFrom(n) == [out EXCEPT !.payload = SubSeq(@, 1, n)]

Sent ==
  \E n \in 0 .. Len(out.payload), version \in Versions :
    /\ out.command # 0 /\ times > 0
    /\ times = 1 /\ out.command # PUBLISH => n = 0
    /\ out.payload = Payload(WrittenFrom(n))
    /\ wire = Serialize(WrittenFrom(n))
    /\ in = Parse(wire, version)

CodecInv == Made /\ ((wire = <<>> /\ in = NoMessage) \/ Sent)

(* Packet identifiers have two bytes.                                       *)
LEMMA IdType ==
  ASSUME NEW id \in Ids
  PROVE  id \in Seq(Byte) /\ Len(id) = 2
<1>1. PICK x \in Byte, y \in Byte : id = <<x, y>>
  BY PacketCodecAssumption
<1> QED
  BY <1>1

(* The message of the constructor is one.                                   *)
LEMMA NoMessageType == NoMessage \in Message /\ DOMAIN NoMessage = Fields
<1>1. <<>> \in Seq(Byte)
  OBVIOUS
<1> QED
  BY <1>1 DEF NoMessage, Message, Versions, Fields

(* What was written before, of what is the payload now.                     *)
LEMMA PayloadGrows ==
  ASSUME NEW m \in Message
  PROVE  Payload(m) \in Seq(Byte) /\ Len(m.payload) <= Len(Payload(m))
         /\ SubSeq(Payload(m), 1, Len(m.payload)) = m.payload
<1>1. PICK x \in Seq(Byte) : Payload(m) = m.payload \o x
  BY BodyType
<1> DEFINE p == m.payload
           b == p \o x
<1>2. p \in Seq(Byte)
  BY DEF Message
<1> HIDE DEF p
<1>3. /\ b \in Seq(Byte) /\ Len(b) = Len(p) + Len(x) /\ Len(p) \in Nat /\ Len(x) \in Nat
      /\ \A i \in 1 .. Len(p) : b[i] = p[i]
  BY <1>2, Parts
<1> HIDE DEF b
<1>4. Has(b, 1, p)
  BY <1>3 DEF Has
<1>5. Slice(b, 1, Len(p)) = p
  <2>1. 1 + Len(p) - 1 = Len(p) /\ 1 \in Nat \ {0}
    BY <1>3
  <2> QED
    BY <1>2, <1>3, <1>4, <2>1, HasSlice
<1>6. SubSeq(b, 1, Len(p)) = p
  <2>1. CASE Len(p) < Len(b)
    BY <1>5, <2>1 DEF Slice
  <2>2. CASE Len(p) = Len(b)
    BY <1>3, <1>5, <2>2 DEF Slice
  <2> QED
    BY <1>3, <2>1, <2>2
<1> QED
  BY <1>1, <1>3, <1>6 DEF b, p

(* The invariant holds at the start...                                      *)
LEMMA InitHolds == Init => CodecInv
<1> SUFFICES ASSUME Init PROVE CodecInv
  OBVIOUS
<1>1. out = NoMessage /\ times = 0 /\ wire = <<>> /\ in = NoMessage
  BY DEF Init
<1>2. out.command = 0 /\ out.payload = <<>>
  BY <1>1 DEF NoMessage
<1>3. 0 \in 0 .. MaxTimes
  BY PacketCodecAssumption
<1> QED
  BY <1>1, <1>2, <1>3, NoMessageType DEF CodecInv, Made

(* ... and every call keeps it.                                             *)
LEMMA StepKeeps == CodecInv /\ [Next]_vars => CodecInv'
<1> SUFFICES ASSUME CodecInv, [Next]_vars PROVE CodecInv'
  OBVIOUS
<1>1. /\ out \in Message /\ times \in 0 .. MaxTimes
      /\ out.command # 0 => Len(out.packetID) = 2
      /\ times = 0 /\ out.command # PUBLISH => out.payload = <<>>
  BY DEF CodecInv, Made
(* Every setter leaves a message that was not written yet. *)
<1>2. ASSUME NEW m \in Message, Set(m), times' = times,
             m.command # 0 => Len(m.packetID) = 2,
             times = 0 /\ m.command # PUBLISH => m.payload = <<>>
      PROVE  CodecInv'
  BY <1>1, <1>2 DEF CodecInv, Made, Set
<1>3. ASSUME NEW c \in Commands, NEW id \in Ids, Create(c, id) PROVE CodecInv'
  <2> DEFINE m == [NoMessage EXCEPT !.command = c, !.packetID = id]
  <2>1. m \in Message /\ m.packetID = id /\ m.payload = <<>>
    BY NoMessageType, IdType DEF Message, NoMessage
  <2>2. Set(m) /\ times' = times
    BY <1>3 DEF Create
  <2> HIDE DEF m
  <2> QED
    BY <1>2, <2>1, <2>2, IdType
<1>4. CASE SetProtocolVersion
  <2> DEFINE m == [out EXCEPT !.version = 5]
  <2>1. /\ m \in Message /\ m.packetID = out.packetID /\ m.payload = out.payload
        /\ m.command = out.command
    BY <1>1 DEF Message, Versions
  <2>2. Set(m) /\ times' = times
    BY <1>4 DEF SetProtocolVersion
  <2> HIDE DEF m
  <2> QED
    BY <1>1, <1>2, <2>1, <2>2
<1>5. CASE SetConnect
  <2>1. times' = times /\ out.command = CONNECT
    BY <1>5 DEF SetConnect
  <2>2. Names \subseteq Seq(Byte)
    BY PacketCodecAssumption
  <2>3. ASSUME NEW s \in Names, Set([out EXCEPT !.clientId = s]) PROVE CodecInv'
    <3> DEFINE m == [out EXCEPT !.clientId = s]
    <3>1. /\ m \in Message /\ m.packetID = out.packetID /\ m.payload = out.payload
          /\ m.command = out.command
      BY <1>1, <2>2 DEF Message
    <3> HIDE DEF m
    <3>2. Set(m)
      BY <2>3 DEF m
    <3> QED
      BY <1>1, <1>2, <2>1, <3>1, <3>2
  <2>4. ASSUME NEW s \in Names, NEW t \in Names,
               Set([out EXCEPT !.credentials = TRUE, !.username = s, !.password = t])
        PROVE  CodecInv'
    <3> DEFINE m == [out EXCEPT !.credentials = TRUE, !.username = s, !.password = t]
    <3>1. /\ m \in Message /\ m.packetID = out.packetID /\ m.payload = out.payload
          /\ m.command = out.command
      BY <1>1, <2>2 DEF Message
    <3> HIDE DEF m
    <3>2. Set(m)
      BY <2>4 DEF m
    <3> QED
      BY <1>1, <1>2, <2>1, <3>1, <3>2
  <2>5. ASSUME NEW s \in Names, NEW t \in Names, NEW qos \in 0 .. 2, NEW retain \in BOOLEAN,
               Set([out EXCEPT !.will = TRUE, !.willTopic = s, !.willText = t,
                               !.willRetain = retain, !.willQoS = @ \union ({qos} \ {0})])
        PROVE  CodecInv'
    <3> DEFINE q == out.willQoS \union ({qos} \ {0})
               m == [out EXCEPT !.will = TRUE, !.willTopic = s, !.willText = t,
                                !.willRetain = retain, !.willQoS = q]
    <3>1. q \in SUBSET {1, 2}
      BY <1>1 DEF Message
    <3> HIDE DEF q
    <3>2. /\ m \in Message /\ m.packetID = out.packetID /\ m.payload = out.payload
          /\ m.command = out.command
      BY <1>1, <2>2, <3>1 DEF Message
    <3> HIDE DEF m
    <3>3. Set(m)
      BY <2>5 DEF m, q
    <3> QED
      BY <1>1, <1>2, <2>1, <3>2, <3>3
  <2> QED
    BY <1>5, <2>3, <2>4, <2>5 DEF SetConnect
<1>6. CASE SetPublish
  <2>1. times' = times
    BY <1>6 DEF SetPublish
  <2>2. Topics \subseteq Seq(Byte) /\ Payloads \subseteq Seq(Byte)
    BY PacketCodecAssumption
  <2>3. ASSUME NEW s \in Topics, Set([out EXCEPT !.topic = s]) PROVE CodecInv'
    <3> DEFINE m == [out EXCEPT !.topic = s]
    <3>1. /\ m \in Message /\ m.packetID = out.packetID /\ m.payload = out.payload
          /\ m.command = out.command
      BY <1>1, <2>2 DEF Message
    <3> HIDE DEF m
    <3>2. Set(m)
      BY <2>3 DEF m
    <3> QED
      BY <1>1, <1>2, <2>1, <3>1, <3>2
  <2>4. ASSUME out.command = PUBLISH, NEW s \in Payloads, Set([out EXCEPT !.payload = s])
        PROVE  CodecInv'
    <3> DEFINE m == [out EXCEPT !.payload = s]
    <3>1. m \in Message /\ m.packetID = out.packetID /\ m.command = out.command
      BY <1>1, <2>2 DEF Message
    <3> HIDE DEF m
    <3>2. Set(m)
      BY <2>4 DEF m
    <3> QED
      BY <1>1, <1>2, <2>1, <2>4, <3>1, <3>2
  <2>5. ASSUME NEW qos \in 0 .. 2, NEW retain \in BOOLEAN, NEW dup \in BOOLEAN,
               Set([out EXCEPT !.qos = qos, !.retain = retain, !.dup = dup])
        PROVE  CodecInv'
    <3> DEFINE m == [out EXCEPT !.qos = qos, !.retain = retain, !.dup = dup]
    <3>1. /\ m \in Message /\ m.packetID = out.packetID /\ m.payload = out.payload
          /\ m.command = out.command
      BY <1>1 DEF Message
    <3> HIDE DEF m
    <3>2. Set(m)
      BY <2>5 DEF m
    <3> QED
      BY <1>1, <1>2, <2>1, <3>1, <3>2
  <2> QED
    BY <1>6, <2>3, <2>4, <2>5 DEF SetPublish
<1>7. ASSUME NEW version \in Versions, Transmit(version) PROVE CodecInv'
  <2> DEFINE p == Payload(out)
             n == Len(out.payload)
  <2>1. /\ out.command # 0 /\ times < MaxTimes /\ times' = times + 1
        /\ wire' = Serialize(out) /\ out' = [out EXCEPT !.payload = p]
        /\ in' = Parse(wire', version)
    BY <1>7 DEF Transmit
  <2>2. p \in Seq(Byte) /\ n \in Nat /\ Len(p) \in Nat /\ n <= Len(p)
        /\ SubSeq(p, 1, n) = out.payload
    <3>1. out.payload \in Seq(Byte)
      BY <1>1 DEF Message
    <3> QED
      BY <1>1, <3>1, PayloadGrows
  <2> HIDE DEF p
  <2>3. /\ out' \in Message /\ out'.command = out.command /\ out'.packetID = out.packetID
        /\ out'.payload = p
    BY <1>1, <2>1, <2>2 DEF Message
  <2>4. times' \in 0 .. MaxTimes /\ times' > 0 /\ (times' = 1 => times = 0)
    BY <1>1, <2>1, PacketCodecAssumption
  <2>5. Made'
    BY <1>1, <2>1, <2>3, <2>4 DEF Made
  <2>6. [out' EXCEPT !.payload = SubSeq(@, 1, n)] = out
    <3>1. [out' EXCEPT !.payload = SubSeq(@, 1, n)] = [out' EXCEPT !.payload = out.payload]
      BY <2>2, <2>3
    <3> QED
      BY <1>1, <2>1, <2>3, <3>1 DEF Message
  <2>7. times' = 1 /\ out'.command # PUBLISH => n = 0
    BY <1>1, <2>3, <2>4
  <2>8. n \in 0 .. Len(out'.payload)
    BY <2>2, <2>3
  <2>9. Sent'
    BY <2>1, <2>3, <2>4, <2>6, <2>7, <2>8 DEF Sent, WrittenFrom, p
  <2> QED
    BY <2>5, <2>9 DEF CodecInv
<1>8. CASE UNCHANGED vars
  BY <1>8 DEF CodecInv, Made, Sent, WrittenFrom, vars
<1> QED
  BY <1>3, <1>4, <1>5, <1>6, <1>7, <1>8 DEF Next

-----------------------------------------------------------------------------
(* The theorems. *)

(* The invariant holds always: what was received is what parseMessage makes *)
(* of serialize's packet for the message as it was before.                  *)
THEOREM Invariance == Spec => []CodecInv
BY InitHolds, StepKeeps, PTL DEF Spec

(* The message as it was before serialize.                                  *)
LEMMA WrittenType ==
  ASSUME out \in Message, NEW n \in 0 .. Len(out.payload),
         NEW m, m = WrittenFrom(n)
  PROVE  /\ m \in Message /\ m.command = out.command /\ m.packetID = out.packetID
         /\ out = [m EXCEPT !.payload = out.payload]
         /\ n = 0 => m.payload = <<>>
<1> DEFINE p == SubSeq(out.payload, 1, n)
<1>1. p \in Seq(Byte) /\ (n = 0 => p = <<>>)
  <2>1. out.payload \in Seq(Byte) /\ Len(out.payload) \in Nat
    BY DEF Message
  <2>2. \A i \in 1 .. n : out.payload[i] \in Byte
    BY <2>1, ElementOfSeq
  <2>3. p \in Seq(Byte) /\ Len(p) = IF 1 <= n THEN n - 1 + 1 ELSE 0
    BY <2>1, <2>2, SubSeqProperties
  <2> QED
    BY <2>3, EmptySeq
<1>2. m = [out EXCEPT !.payload = p]
  BY DEF WrittenFrom
<1> HIDE DEF p
<1>3. m \in Message /\ m.command = out.command /\ m.packetID = out.packetID /\ m.payload = p
  BY <1>1, <1>2 DEF Message
<1>4. out = [m EXCEPT !.payload = out.payload]
  BY <1>2 DEF Message
<1> QED
  BY <1>1, <1>3, <1>4

(* What was written, and of which message.                                  *)
LEMMA SentFrom ==
  ASSUME CodecInv, wire # <<>>
  PROVE  \E m \in Message, version \in Versions :
           /\ m.command = out.command /\ m.command # 0 /\ times > 0
           /\ times = 1 /\ m.command # PUBLISH => m.payload = <<>>
           /\ out = [m EXCEPT !.payload = Payload(m)]
           /\ wire = Serialize(m) /\ in = Parse(wire, version)
           /\ Len(m.packetID) = 2
<1>1. /\ out \in Message
      /\ out.command # 0 => Len(out.packetID) = 2
  BY DEF CodecInv, Made
<1>2. PICK n \in 0 .. Len(out.payload), version \in Versions :
        /\ out.command # 0 /\ times > 0
        /\ times = 1 /\ out.command # PUBLISH => n = 0
        /\ out.payload = Payload(WrittenFrom(n))
        /\ wire = Serialize(WrittenFrom(n))
        /\ in = Parse(wire, version)
  BY DEF CodecInv, Sent
<1> DEFINE m == WrittenFrom(n)
<1>3. /\ m \in Message /\ m.command = out.command /\ m.packetID = out.packetID
      /\ out = [m EXCEPT !.payload = out.payload]
      /\ n = 0 => m.payload = <<>>
  BY <1>1, WrittenType
<1>4. Payload(m) = out.payload /\ wire = Serialize(m)
  BY <1>2
<1> HIDE DEF m
<1>5. times = 1 /\ m.command # PUBLISH => m.payload = <<>>
  BY <1>2, <1>3
<1> QED
  BY <1>1, <1>2, <1>3, <1>4, <1>5

(* Where Short holds, there is a packet.                                    *)
LEMMA ShortMeans ==
  ASSUME CodecInv, Short
  PROVE  wire # <<>> /\ Len(wire) < Base + 2
BY DEF Short

(* The types follow from the invariant.                                     *)
LEMMA TypesHold == CodecInv => TypeOK
<1> SUFFICES ASSUME CodecInv PROVE TypeOK
  OBVIOUS
<1>1. out \in Message /\ times \in 0 .. MaxTimes
  BY DEF CodecInv, Made
<1>2. /\ out.command \in Commands \union {0} /\ out.version \in Versions
      /\ out.qos \in 0 .. 2
  BY <1>1 DEF Message
<1>3. CASE wire = <<>> /\ in = NoMessage
  <2>1. /\ in.command = 0 /\ in.version \in Versions /\ in.outcome = "none" /\ in.qos = 0
    BY <1>3 DEF NoMessage, Versions
  <2> QED
    BY <1>1, <1>2, <1>3, <2>1 DEF TypeOK
<1>4. CASE wire # <<>>
  <2>1. PICK m \in Message, version \in Versions :
          m.command = out.command /\ wire = Serialize(m) /\ in = Parse(wire, version)
    BY <1>4, SentFrom
  <2>2. /\ in.command = m.command /\ in.version \in Versions /\ in.qos \in 0 .. 2
        /\ in.outcome \in {"good", "bad", "throws"}
    BY <2>1, ParseType
  <2>3. wire \in Seq(Byte)
    BY <2>1, SerializeType
  <2> QED
    BY <1>1, <1>2, <2>1, <2>2, <2>3 DEF TypeOK
<1>5. wire = <<>> => in = NoMessage
  <2>1. ASSUME Sent PROVE wire # <<>>
    <3>1. PICK n \in 0 .. Len(out.payload) : wire = Serialize(WrittenFrom(n))
      BY <2>1 DEF Sent
    <3>2. WrittenFrom(n) \in Message
      BY <1>1, WrittenType
    <3> QED
      BY <3>1, <3>2, SerializeType
  <2> QED
    BY <2>1 DEF CodecInv
<1> QED
  BY <1>3, <1>4, <1>5

(* A short PUBLISH arrives at a side of its own version, for every topic,   *)
(* payload and identifier.                                                  *)
LEMMA ArriveHolds == CodecInv => PublishArrives
<1> SUFFICES ASSUME CodecInv, Short, out.command = PUBLISH, in.version = out.version,
                    Len(out.payload) # 1
             PROVE  /\ in.outcome = "good" /\ in.command = PUBLISH
                    /\ in.topic = out.topic /\ in.payload = out.payload
                    /\ in.retain = out.retain /\ in.dup = out.dup
                    /\ in.qos = 0 <=> out.qos = 0
                    /\ out.qos # 0 => in.packetID = out.packetID
  BY DEF PublishArrives
<1>1. wire # <<>> /\ Len(wire) < Base + 2
  BY ShortMeans
<1>2. PICK m \in Message, version \in Versions :
        /\ m.command = out.command /\ out = [m EXCEPT !.payload = Payload(m)]
        /\ wire = Serialize(m) /\ in = Parse(wire, version)
        /\ Len(m.packetID) = 2
  BY <1>1, SentFrom
<1>3. Payload(m) = m.payload
  <2>1. m.payload \in Seq(Byte)
    BY DEF Message
  <2>2. m.payload \o <<>> = m.payload
    BY <2>1, ConcatEmptySeq
  <2> QED
    BY <1>2, <2>2 DEF Payload, CONNECT, PUBLISH, SUBSCRIBE, UNSUBSCRIBE
<1>4. /\ out.topic = m.topic /\ out.payload = m.payload /\ out.retain = m.retain
      /\ out.dup = m.dup /\ out.qos = m.qos /\ out.packetID = m.packetID
      /\ out.version = m.version
  BY <1>2, <1>3 DEF Message
<1>5. in.command = PUBLISH /\ in.version = version
  BY <1>2, ParseType DEF CONNECT, PUBLISH
<1>6. in = Parse(wire, m.version)
  BY <1>2, <1>4, <1>5
<1>7. /\ in.outcome = "good" /\ in.topic = m.topic
      /\ in.dup = m.dup /\ in.retain = m.retain /\ (in.qos = 0 <=> m.qos = 0)
      /\ m.qos # 0 => in.packetID = m.packetID
      /\ Len(m.payload) # 1 => in.payload = m.payload
  BY <1>1, <1>2, <1>6, PublishRead
<1> QED
  BY <1>4, <1>5, <1>7

(* A packet of the library is accepted, whatever its message holds.         *)
LEMMA AcceptedHolds == CodecInv => OwnPacketsAccepted
<1> SUFFICES ASSUME CodecInv, Short
             PROVE  /\ in.command = out.command
                    /\ in.outcome # "bad"
                    /\ in.outcome = "throws" =>
                         \/ out.command = CONNECT /\ (out.will \/ out.credentials \/ times > 1)
                         \/ out.command = PUBLISH /\ in.version # out.version
  BY DEF OwnPacketsAccepted
<1>1. wire # <<>> /\ Len(wire) < Base + 2
  BY ShortMeans
<1>2. PICK m \in Message, version \in Versions :
        /\ m.command = out.command /\ times > 0
        /\ times = 1 /\ m.command # PUBLISH => m.payload = <<>>
        /\ out = [m EXCEPT !.payload = Payload(m)]
        /\ wire = Serialize(m) /\ in = Parse(wire, version)
        /\ Len(m.packetID) = 2
  BY <1>1, SentFrom
<1>3. out.will = m.will /\ out.credentials = m.credentials /\ out.version = m.version
  BY <1>2 DEF Message
<1>4. in.command = m.command /\ (m.command # CONNECT => in.version = version)
  BY <1>2, ParseType
<1>5. CASE m.command = CONNECT
  <2>1. /\ in.outcome \in {"good", "throws"}
        /\ ~m.will /\ ~m.credentials /\ m.payload = <<>> => in.outcome = "good"
    BY <1>1, <1>2, <1>5, ConnectRead
  <2>2. times \in Nat
    BY PacketCodecAssumption DEF CodecInv, Made
  <2>3. times = 1 => m.payload = <<>>
    BY <1>2, <1>5 DEF CONNECT, PUBLISH
  <2> QED
    BY <1>2, <1>3, <1>4, <1>5, <2>1, <2>2, <2>3
<1>6. CASE m.command # CONNECT
  <2>1. in.outcome # "bad" /\ (m.command # PUBLISH => in.outcome = "good")
    BY <1>1, <1>2, <1>6, OthersRead
  <2>2. m.command = PUBLISH /\ version = m.version => in.outcome = "good"
    BY <1>1, <1>2, PublishRead
  <2> QED
    BY <1>2, <1>3, <1>4, <1>6, <2>1, <2>2
<1> QED
  BY <1>5, <1>6

(* An accepted CONNECT keeps its flags, but for one.                        *)
LEMMA FlagsHold == CodecInv => ConnectFlagsButOneArrive
<1> SUFFICES ASSUME CodecInv, Short, out.command = CONNECT, in.outcome = "good"
             PROVE  /\ in.will = out.will /\ in.willRetain = out.willRetain
                    /\ in.credentials = out.credentials
                    /\ in.willQoS = out.willQoS \ {2}
  BY DEF ConnectFlagsButOneArrive
<1>1. wire # <<>> /\ Len(wire) < Base + 2
  BY ShortMeans
<1>2. PICK m \in Message, version \in Versions :
        /\ m.command = out.command /\ out = [m EXCEPT !.payload = Payload(m)]
        /\ wire = Serialize(m) /\ in = Parse(wire, version)
  BY <1>1, SentFrom
<1>3. /\ out.will = m.will /\ out.credentials = m.credentials
      /\ out.willRetain = m.willRetain /\ out.willQoS = m.willQoS
  BY <1>2 DEF Message
<1>4. /\ in.will = m.will /\ in.willRetain = m.willRetain
      /\ in.credentials = m.credentials
      /\ in.willQoS = m.willQoS \ {2}
  BY <1>1, <1>2, ConnectRead
<1> QED
  BY <1>3, <1>4

(* What is written are bytes, and what is read has its type: TypeOK.        *)
THEOREM TypeCorrect == Spec => []TypeOK
BY Invariance, TypesHold, PTL

(* Publishing: PublishArrives, for all topics, payloads and identifiers.    *)
THEOREM PublishesArrive == Spec => []PublishArrives
BY Invariance, ArriveHolds, PTL

(* No short packet of the library is refused by it: OwnPacketsAccepted.     *)
THEOREM OwnAccepted == Spec => []OwnPacketsAccepted
BY Invariance, AcceptedHolds, PTL

(* An accepted CONNECT keeps its flags but for 0x10, the second bit of the  *)
(* will's quality of service, which it always loses, for all strings.       *)
THEOREM FlagsButOneSurvive == Spec => []ConnectFlagsButOneArrive
BY Invariance, FlagsHold, PTL
=============================================================================
