---------------------------- MODULE FramingProofs ----------------------------
(***************************************************************************)
(* Proofs about Framing, for any base, packets, stale bytes and cuts of    *)
(* the stream.                                                             *)
(*                                                                         *)
(* First type correctness, whose point is that the unread bytes of a       *)
(* message never go below zero.  Then FrameInv: it gives every packet that *)
(* is not yet received its place on the wire, so that what the next read   *)
(* takes off the wire is what the message in msg still lacks, for every    *)
(* cut.  FramesIntact and ValidMeansWhole follow from it.  A message that  *)
(* lacks its end is not one that parseMessage throws on, because it fails  *)
(* the length check before.  What a length looks like on the wire is in    *)
(* FixedHeaderProofs.                                                      *)
(***************************************************************************)
EXTENDS Framing, FixedHeaderProofs

-----------------------------------------------------------------------------
(* The packets. *)

(* A packet is made of bytes; one whose length has one digit starts with    *)
(* its command and its length.                                              *)
LEMMA SerializeType ==
  ASSUME NEW p \in Packets
  PROVE  /\ Serialize(p) \in Seq(Byte)
         /\ p.length < Base =>
              /\ Len(Serialize(p)) = p.length + 2
              /\ Serialize(p)[2] = p.length
<1> DEFINE rest == [i \in 1 .. p.length |-> i % (2 * Base)]
<1>1. p.command \in Byte /\ p.length \in Nat
  BY FramingAssumption DEF Packets
<1>2. \A i \in 1 .. p.length : i % (2 * Base) \in Byte
  BY <1>1, PackedIntAssumption DEF Byte
<1>3. rest \in Seq(Byte) /\ Len(rest) = p.length
  BY <1>1, <1>2
<1> HIDE DEF rest
<1>4. Serialize(p) = <<p.command>> \o WritePackedInt(p.length) \o rest
  BY <1>3 DEF Serialize, Packet, rest
<1>5. WritePackedInt(p.length) \in Seq(Byte) /\ <<p.command>> \in Seq(Byte)
  BY <1>1, WriteType
<1>6. Serialize(p) \in Seq(Byte)
  BY <1>3, <1>4, <1>5
<1>7. ASSUME p.length < Base
      PROVE  Len(Serialize(p)) = p.length + 2 /\ Serialize(p)[2] = p.length
  <2>1. WritePackedInt(p.length) = <<p.length>>
    BY <1>1, <1>7, WriteType
  <2> QED
    BY <1>1, <1>3, <1>4, <1>5, <2>1
<1> QED
  BY <1>6, <1>7

-----------------------------------------------------------------------------
(* Type correctness. *)

(* The first two bytes of the header, where a message begins.               *)
LEMMA FirstTwo ==
  ASSUME NEW S, NEW s \in Seq(S), Len(s) = 5
  PROVE  /\ SubSeq(s, 1, 2) \in Seq(S) /\ Len(SubSeq(s, 1, 2)) = 2
         /\ SubSeq(s, 1, 2)[1] = s[1] /\ SubSeq(s, 1, 2)[2] = s[2]
<1>1. \A i \in 1 .. 2 : s[i] \in S
  OBVIOUS
<1>2. /\ SubSeq(s, 1, 2) \in Seq(S) /\ Len(SubSeq(s, 1, 2)) = 2
      /\ \A i \in 1 .. 2 : SubSeq(s, 1, 2)[i] = s[1 + i - 1]
  BY <1>1, SubSeqProperties
<1> QED
  BY <1>2

(* The header after its first two bytes were read.                          *)
LEMMA NewHeader ==
  ASSUME TypeOK, Len(wire) >= 2, NEW h, h = SubSeq(wire, 1, 2) \o SubSeq(header, 3, 5)
  PROVE  /\ h \in Seq(Byte) /\ Len(h) = 5 /\ h \in [1 .. 5 -> Byte]
         /\ h[1] = wire[1] /\ h[2] = wire[2]
<1>1. SubSeq(wire, 1, 2) \in Seq(Byte) /\ Len(SubSeq(wire, 1, 2)) = 2
      /\ SubSeq(wire, 1, 2)[1] = wire[1] /\ SubSeq(wire, 1, 2)[2] = wire[2]
  BY DEF TypeOK
<1>2. SubSeq(header, 3, 5) \in Seq(Byte) /\ Len(SubSeq(header, 3, 5)) = 3
  <2>1. \A i \in 3 .. 5 : header[i] \in Byte
    BY DEF TypeOK
  <2> QED
    BY <2>1, SubSeqProperties
<1>3. h \in Seq(Byte) /\ Len(h) = 5 /\ h[1] = wire[1] /\ h[2] = wire[2]
  BY <1>1, <1>2, ConcatProperties
<1> QED
  BY <1>3, LenProperties

(* The rest of what is on the wire when k bytes were read.                  *)
LEMMA Rest ==
  ASSUME TypeOK, NEW k \in 0 .. Len(wire)
  PROVE  /\ SubSeq(wire, k + 1, Len(wire)) \in Seq(Byte)
         /\ Len(SubSeq(wire, k + 1, Len(wire))) = Len(wire) - k
         /\ \A i \in 1 .. Len(wire) - k : SubSeq(wire, k + 1, Len(wire))[i] = wire[k + i]
<1>1. wire \in Seq(Byte) /\ Len(wire) \in Nat
  BY DEF TypeOK
<1>2. \A i \in k + 1 .. Len(wire) : wire[i] \in Byte
  BY <1>1, ElementOfSeq
<1> QED
  BY <1>1, <1>2, SubSeqProperties

(* What was read of it.                                                     *)
LEMMA Taken ==
  ASSUME TypeOK, NEW k \in 0 .. Len(wire)
  PROVE  /\ SubSeq(wire, 1, k) \in Seq(Byte)
         /\ Len(SubSeq(wire, 1, k)) = k
         /\ \A i \in 1 .. k : SubSeq(wire, 1, k)[i] = wire[i]
<1>1. wire \in Seq(Byte) /\ Len(wire) \in Nat
  BY DEF TypeOK
<1>2. \A i \in 1 .. k : wire[i] \in Byte
  BY <1>1, ElementOfSeq
<1> QED
  BY <1>1, <1>2, SubSeqProperties

(* A message was made a request of, or made parseMessage throw.             *)
LEMMA DeliverType ==
  ASSUME TypeOK, NEW m \in Seq(Byte), Deliver(m)
  PROVE  /\ received' \in Seq(Seq(Byte)) /\ msg' \in Seq(Byte)
         /\ pc' \in {"header", "thrown"} /\ unread' = 0
<1>1. received \in Seq(Seq(Byte))
  BY DEF TypeOK
<1>2. Append(received, m) \in Seq(Seq(Byte))
  BY <1>1
<1>3. received' \in {received, Append(received, m)} /\ msg' = <<>>
      /\ pc' \in {"header", "thrown"} /\ unread' = 0
  BY DEF Deliver
<1>4. <<>> \in Seq(Byte)
  OBVIOUS
<1> QED
  BY <1>1, <1>2, <1>3, <1>4

(* Every step keeps the types.                                              *)
LEMMA StepType == ASSUME TypeOK, [Next]_vars PROVE TypeOK'
<1>1. ASSUME NEW p \in Packets, SendPacket(p) PROVE TypeOK'
  <2>1. Serialize(p) \in Seq(Byte)
    BY SerializeType
  <2> QED
    BY <1>1, <2>1, ConcatProperties DEF SendPacket, TypeOK
<1>2. ASSUME NEW k \in 0 .. Len(wire), Close(k) PROVE TypeOK'
  <2>1. Len(wire) - k \in 0 .. Len(wire)
    BY DEF TypeOK
  <2> QED
    BY <1>2, <2>1, Taken DEF Close, TypeOK
<1>3. CASE ReadHeader
  <2>1. Len(wire) >= 2 /\ header' = SubSeq(wire, 1, 2) \o SubSeq(header, 3, 5)
    BY <1>3 DEF ReadHeader
  <2>2. header' \in Seq(Byte) /\ Len(header') = 5 /\ header' \in [1 .. 5 -> Byte]
    BY <2>1, NewHeader
  <2>3. wire' \in Seq(Byte)
    BY <1>3, <2>1, Rest DEF ReadHeader, TypeOK
  <2>4. ParseHeader(header').length \in Nat /\ ParseHeader(header').idx \in 2 .. 5
    BY <2>2, HeaderType
  <2> DEFINE start == SubSeq(header', 1, ParseHeader(header').idx)
  <2>5. start \in Seq(Byte)
    <3>1. \A i \in 1 .. ParseHeader(header').idx : header'[i] \in Byte
      BY <2>2, <2>4
    <3> QED
      BY <2>4, <3>1, SubSeqProperties
  <2>6. UNCHANGED <<sent, closed, split>>
    BY <1>3 DEF ReadHeader
  <2> HIDE DEF start
  <2>7. CASE ParseHeader(header').length = 0 /\ Deliver(start)
    BY <2>2, <2>3, <2>5, <2>6, <2>7, DeliverType DEF TypeOK
  <2>8. CASE /\ ParseHeader(header').length > 0
             /\ pc' = "body" /\ unread' = ParseHeader(header').length
             /\ msg' = start
             /\ UNCHANGED received
    BY <2>2, <2>3, <2>4, <2>5, <2>6, <2>8 DEF TypeOK
  <2> QED
    BY <1>3, <2>7, <2>8 DEF ReadHeader, start
<1>4. CASE ReadOne
  <2>1. Head(wire) \in Byte /\ wire' \in Seq(Byte)
    BY <1>4, HeadTailProperties DEF ReadOne, TypeOK
  <2> QED
    BY <1>4, <2>1 DEF ReadOne, TypeOK
<1>5. CASE HeaderEOF
  BY <1>5 DEF HeaderEOF, TypeOK
<1>6. CASE BodyEOF
  BY <1>6, DeliverType DEF BodyEOF, TypeOK
<1>7. ASSUME NEW k \in 1 .. Len(wire), ReadBody(k) PROVE TypeOK'
  <2>1. wire' \in Seq(Byte) /\ msg \o SubSeq(wire, 1, k) \in Seq(Byte)
    <3>1. k \in 0 .. Len(wire)
      OBVIOUS
    <3>2. SubSeq(wire, 1, k) \in Seq(Byte)
      BY <3>1, Taken
    <3> QED
      BY <1>7, <3>1, <3>2, Rest DEF ReadBody, TypeOK
  <2>2. CASE k = unread /\ Deliver(msg \o SubSeq(wire, 1, k))
    <3>1. /\ received' \in Seq(Seq(Byte)) /\ msg' \in Seq(Byte)
          /\ pc' \in {"header", "thrown"} /\ unread' = 0
      BY <2>1, <2>2, DeliverType
    <3>2. UNCHANGED <<sent, closed, split, header>>
      BY <1>7 DEF ReadBody
    <3> QED
      BY <2>1, <3>1, <3>2 DEF TypeOK
  <2>3. CASE k < unread /\ msg' = msg \o SubSeq(wire, 1, k) /\ unread' = unread - k
             /\ UNCHANGED <<pc, received>>
    BY <1>7, <2>1, <2>3 DEF ReadBody, TypeOK
  <2> QED
    BY <1>7, <2>2, <2>3 DEF ReadBody
<1>8. CASE UNCHANGED vars
  BY <1>8 DEF vars, TypeOK
<1> QED
  BY <1>1, <1>2, <1>3, <1>4, <1>5, <1>6, <1>7, <1>8 DEF Next, Run

(* Every variable keeps its type, and the fixed header its buffer, for any  *)
(* base, packets and cuts of the stream, clean or not.                      *)
THEOREM TypeCorrect == Spec => []TypeOK
<1>1. Init => TypeOK
  <2> HAVE Init
  <2>1. header \in [1 .. 5 -> Byte]
    BY FramingAssumption DEF Init
  <2>2. sent \in Seq(Packets) /\ wire \in Seq(Byte) /\ msg \in Seq(Byte)
        /\ received \in Seq(Seq(Byte))
    BY EmptySeq DEF Init
  <2>3. closed = FALSE /\ split = FALSE /\ pc = "header" /\ unread = 0
    BY DEF Init
  <2>4. closed \in BOOLEAN /\ split \in BOOLEAN
    BY <2>3
  <2>5. unread \in Nat /\ (pc = "body" <=> unread > 0)
    BY <2>3
  <2> QED
    BY <2>1, <2>2, <2>3, <2>4, <2>5 DEF TypeOK
<1> QED
  BY <1>1, StepType, PTL DEF Spec

-----------------------------------------------------------------------------
(* Frames stay intact. *)

(* The packet that is received next, or is received in part.                *)
Due == Len(received) + 1

(* For packets from that one on, at[i] bytes of the wire come before packet *)
(* i (a number below 0, if its first bytes were read); they end where the   *)
(* wire ends, or behind it when the peer has closed.                        *)
Aligned(at) ==
  /\ at \in [1 .. Len(sent) + 1 -> Int]
  /\ at[Due] + Len(msg) = 0
  /\ \A i \in Due .. Len(sent) : at[i + 1] = at[i] + sent[i].length + 2
  /\ \A i \in Due .. Len(sent) : at[i + 1] <= at[Len(sent) + 1]
  /\ Len(wire) <= at[Len(sent) + 1]
  /\ ~closed => Len(wire) = at[Len(sent) + 1]
  /\ \A i \in Due .. Len(sent), j \in 1 .. Len(wire) :
       j - at[i] \in 1 .. sent[i].length + 2 => wire[j] = Serialize(sent[i])[j - at[i]]

(* Part m of packet p, at least its header.                                 *)
PartOf(m, p) ==
  /\ Len(m) \in 2 .. p.length + 1
  /\ \A j \in 1 .. Len(m) : m[j] = Serialize(p)[j]

(* Every message that was received is a whole packet.                       *)
AllWhole == \A i \in 1 .. Len(received) : received[i] = Serialize(sent[i])

(* More may come: everything received is whole, and what is in msg is the   *)
(* beginning of the next packet.                                            *)
Going ==
  /\ AllWhole /\ pc # "thrown"
  /\ \E at : Aligned(at)
  /\ pc # "body" => msg = <<>>
  /\ pc = "body" =>
       /\ Len(received) < Len(sent)
       /\ PartOf(msg, sent[Due])
       /\ Len(msg) + unread = sent[Due].length + 2

(* Nothing more can come, and the last message may lack its end.            *)
Done ==
  /\ closed /\ wire = <<>> /\ pc \notin {"body", "thrown"}
  /\ \A i \in 1 .. Len(received) :
       \/ received[i] = Serialize(sent[i])
       \/ i = Len(received) /\ PartOf(received[i], sent[i])

(* The loop has ended of the next packet, which made parseMessage throw.    *)
Thrown ==
  /\ pc = "thrown" /\ AllWhole
  /\ Len(received) < Len(sent) /\ Serialize(sent[Due]) \in Overrunning

(* The invariant: of a clean stream, no more was received than was sent.    *)
FrameInv == Clean => Len(received) <= Len(sent) /\ (Going \/ Done \/ Thrown)

(* Packets that were sent are packets.                                      *)
LEMMA SentType ==
  ASSUME TypeOK, Clean, NEW i \in 1 .. Len(sent)
  PROVE  /\ sent[i] \in Packets /\ sent[i].length \in 0 .. Base - 1
         /\ Serialize(sent[i]) \in Seq(Byte)
         /\ Len(Serialize(sent[i])) = sent[i].length + 2
         /\ Serialize(sent[i])[2] = sent[i].length
<1>1. sent[i] \in Packets /\ sent[i].length < Base
  BY ElementOfSeq DEF TypeOK, Clean
<1>2. sent[i].length \in Nat
  BY <1>1, FramingAssumption DEF Packets
<1> QED
  BY <1>1, <1>2, SerializeType, PackedIntAssumption

(* The second length check accepts a message exactly if it is whole.        *)
LEMMA ValidPart ==
  ASSUME NEW p \in Packets, p.length < Base, NEW m \in Seq(Byte),
         m = Serialize(p) \/ PartOf(m, p)
  PROVE  Valid(m) <=> m = Serialize(p)
<1>1. /\ p.length \in 0 .. Base - 1 /\ Len(Serialize(p)) = p.length + 2
      /\ Serialize(p)[2] = p.length
  <2>1. p.length \in Nat
    BY FramingAssumption DEF Packets
  <2> QED
    BY <2>1, SerializeType, PackedIntAssumption
<1>2. Len(m) \in 2 .. p.length + 2 /\ m[2] = p.length
      /\ (m = Serialize(p) <=> Len(m) = p.length + 2)
  <2>1. CASE m = Serialize(p)
    BY <1>1, <2>1, PackedIntAssumption
  <2>2. CASE PartOf(m, p)
    <3>1. Len(m) \in 2 .. p.length + 1 /\ \A j \in 1 .. Len(m) : m[j] = Serialize(p)[j]
      BY <2>2, Zenon DEF PartOf
    <3>2. 2 \in 1 .. Len(m) /\ Len(m) \in 2 .. p.length + 2 /\ Len(m) # p.length + 2
      BY <1>1, <3>1, PackedIntAssumption
    <3> QED
      BY <1>1, <3>1, <3>2
  <2> QED
    BY <2>1, <2>2
<1>3. /\ LengthWord(m[2])[1] = p.length
      /\ \A j \in 1 .. 4 : LengthWord(m[2])[j] \in Byte
  <2>1. ~More(p.length) /\ p.length \in Byte /\ 0 \in Byte
    BY <1>1, PackedIntAssumption DEF More, Byte
  <2>2. LengthWord(m[2]) = <<p.length>> \o [j \in 1 .. 3 |-> 0]
    BY <1>2, <2>1 DEF LengthWord
  <2> QED
    BY <2>1, <2>2
<1>4. ReadLen(LengthWord(m[2])) = 1 /\ ReadPackedInt(LengthWord(m[2])) = p.length
  <2>1. LengthWord(m[2])[1] < Base
    BY <1>1, <1>3, PackedIntAssumption
  <2> QED
    BY <1>3, <2>1, ReadType
<1>5. Valid(m) <=> Len(m) = p.length + 2
  BY <1>1, <1>2, <1>4, PackedIntAssumption DEF Valid
<1> QED
  BY <1>2, <1>5

(* A packet that is sent is placed behind the last one.                     *)
LEMMA SendFrame ==
  ASSUME TypeOK, FrameInv, Clean', NEW p \in Packets, SendPacket(p)
  PROVE  FrameInv'
<1>1. PICK n \in Nat : n = Len(sent)
  BY DEF TypeOK
<1>2. /\ sent' = Append(sent, p) /\ Len(sent') = n + 1 /\ sent'[n + 1] = p
      /\ \A i \in 1 .. n : sent'[i] = sent[i]
  BY <1>1 DEF SendPacket, TypeOK
<1>3. UNCHANGED <<closed, pc, msg, unread, received, split>> /\ wire' = wire \o Serialize(p)
  BY DEF SendPacket
<1>4. Clean /\ p.length \in 0 .. Base - 1
  <2>1. p.length \in Nat
    BY FramingAssumption DEF Packets
  <2>2. ~split /\ \A i \in 1 .. n + 1 : sent'[i].length < Base
    BY <1>2, <1>3 DEF Clean
  <2>3. Clean
    BY <1>1, <1>2, <2>2 DEF Clean
  <2>4. p.length < Base
    BY <1>2, <2>2
  <2> QED
    BY <2>1, <2>3, <2>4, PackedIntAssumption
<1>5. CASE Thrown
  <2>1. Len(received) \in Nat /\ Len(received) < n
    BY <1>1, <1>5 DEF Thrown, TypeOK
  <2>2. \A i \in 1 .. Due : sent'[i] = sent[i]
    BY <1>2, <2>1 DEF Due
  <2>3. Thrown'
    BY <1>2, <1>3, <1>5, <2>1, <2>2 DEF Thrown, AllWhole, Due
  <2> QED
    BY <1>2, <1>3, <2>1, <2>3 DEF FrameInv
<1> SUFFICES ASSUME ~Thrown PROVE FrameInv'
  BY <1>5
<1>6. Going /\ Len(received) \in 0 .. n /\ ~closed
  BY <1>1, <1>4 DEF FrameInv, Done, SendPacket, TypeOK
<1>7. PICK at : Aligned(at)
  BY <1>6 DEF Going
<1>8. /\ at \in [1 .. n + 1 -> Int]
      /\ \A i \in Due .. n : /\ at[i + 1] = at[i] + sent[i].length + 2
                               /\ at[i + 1] <= Len(wire)
      /\ at[n + 1] = Len(wire)
  BY <1>1, <1>6, <1>7 DEF Aligned
<1>9. /\ Len(wire) \in Nat /\ Due \in 1 .. n + 1 /\ Due' = Due
      /\ wire' \in Seq(Byte) /\ Len(wire') = Len(wire) + p.length + 2
      /\ \A j \in 1 .. Len(wire) : wire'[j] = wire[j]
      /\ \A j \in 1 .. p.length + 2 : wire'[Len(wire) + j] = Serialize(p)[j]
  <2>1. Serialize(p) \in Seq(Byte) /\ Len(Serialize(p)) = p.length + 2
    BY <1>4, SerializeType, PackedIntAssumption
  <2>2. wire \in Seq(Byte) /\ Len(wire) \in Nat /\ p.length \in Nat
    BY <1>4, PackedIntAssumption DEF TypeOK
  <2>3. /\ wire' \in Seq(Byte) /\ Len(wire') = Len(wire) + (p.length + 2)
        /\ \A j \in 1 .. Len(wire) + (p.length + 2) :
             wire'[j] = IF j <= Len(wire) THEN wire[j] ELSE Serialize(p)[j - Len(wire)]
    <3>1. /\ wire \o Serialize(p) \in Seq(Byte)
          /\ Len(wire \o Serialize(p)) = Len(wire) + Len(Serialize(p))
          /\ \A j \in 1 .. Len(wire) + Len(Serialize(p)) : (wire \o Serialize(p))[j] =
               IF j <= Len(wire) THEN wire[j] ELSE Serialize(p)[j - Len(wire)]
      BY <2>1, <2>2, ConcatProperties, Zenon
    <3> QED
      BY <1>3, <2>1, <3>1, Zenon
  <2>4. \A j \in 1 .. Len(wire) : wire'[j] = wire[j]
    <3> TAKE j \in 1 .. Len(wire)
    <3>1. j \in 1 .. Len(wire) + (p.length + 2) /\ j <= Len(wire)
      BY <2>2
    <3> QED
      BY <2>3, <3>1, Zenon
  <2>5. \A j \in 1 .. p.length + 2 : wire'[Len(wire) + j] = Serialize(p)[j]
    <3> TAKE j \in 1 .. p.length + 2
    <3>1. Len(wire) + j \in 1 .. Len(wire) + (p.length + 2) /\ ~(Len(wire) + j <= Len(wire))
          /\ (Len(wire) + j) - Len(wire) = j
      BY <2>2
    <3> QED
      BY <2>3, <3>1
  <2> QED
    BY <1>3, <1>6, <2>2, <2>3, <2>4, <2>5 DEF Due
<1>10. PICK new : new = [i \in 1 .. n + 2 |->
                          IF i <= n + 1 THEN at[i] ELSE Len(wire) + p.length + 2]
  OBVIOUS
<1>11. /\ new \in [1 .. n + 2 -> Int] /\ \A i \in 1 .. n + 1 : new[i] = at[i]
       /\ new[n + 1] = Len(wire) /\ new[n + 2] = Len(wire) + p.length + 2
  BY <1>4, <1>8, <1>9, <1>10, PackedIntAssumption
<1>12. Aligned(new)'
  <2>1. ASSUME NEW i \in Due .. n + 1
        PROVE  new[i + 1] = new[i] + sent'[i].length + 2 /\ new[i + 1] <= new[n + 2]
    <3>1. CASE i = n + 1
      <4>1. i + 1 = n + 2 /\ sent'[i] = p /\ new[i] = Len(wire)
        BY <1>2, <1>11, <3>1
      <4>2. new[i + 1] = Len(wire) + p.length + 2
        BY <1>11, <4>1
      <4>3. p.length \in Nat
        BY <1>4, PackedIntAssumption
      <4> QED
        BY <1>9, <1>11, <4>1, <4>2, <4>3
    <3>2. CASE i # n + 1
      <4>1. i \in Due .. n /\ i \in 1 .. n /\ i + 1 \in 1 .. n + 1
        BY <1>9, <3>2
      <4>2. sent'[i] = sent[i] /\ new[i] = at[i] /\ new[i + 1] = at[i + 1]
        BY <1>2, <1>11, <4>1
      <4>3. at[i + 1] \in Int /\ at[i + 1] <= Len(wire)
            /\ at[i + 1] = at[i] + sent[i].length + 2
        BY <1>8, <4>1
      <4>4. new[n + 2] = Len(wire) + (p.length + 2) /\ Len(wire) \in Nat /\ p.length \in Nat
        BY <1>4, <1>9, <1>11, PackedIntAssumption
      <4>5. at[i + 1] <= new[n + 2]
        BY <4>3, <4>4
      <4> QED
        BY <4>2, <4>3, <4>5, Zenon
    <3> QED
      BY <3>1, <3>2
  <2>2. ASSUME NEW i \in Due .. n + 1, NEW j \in 1 .. Len(wire'),
               j - new[i] \in 1 .. sent'[i].length + 2
        PROVE  wire'[j] = Serialize(sent'[i])[j - new[i]]
    <3>1. CASE i = n + 1
      <4>1. sent'[i] = p /\ new[i] = Len(wire)
        BY <1>2, <1>11, <3>1
      <4>2. j - Len(wire) \in 1 .. p.length + 2 /\ j = Len(wire) + (j - Len(wire))
        BY <1>4, <1>9, <2>2, <4>1
      <4>3. wire'[Len(wire) + (j - Len(wire))] = Serialize(p)[j - Len(wire)]
        BY <1>9, <4>2
      <4> QED
        BY <4>1, <4>2, <4>3
    <3>2. CASE i # n + 1
      <4>1. i \in Due .. n /\ i \in 1 .. n
        BY <1>9, <3>2
      <4>2. sent'[i] = sent[i] /\ new[i] = at[i] /\ at[i] \in Int
        BY <1>2, <1>8, <1>11, <4>1
      <4>3. at[i + 1] = at[i] + sent[i].length + 2 /\ at[i + 1] <= Len(wire)
        BY <1>8, <4>1
      <4>4. sent[i].length \in Nat
        BY <1>1, <1>4, <4>1, SentType, PackedIntAssumption
      <4>5. j - at[i] \in 1 .. sent[i].length + 2 /\ j \in 1 .. Len(wire')
        BY <2>2, <4>2
      <4>6. j <= at[i] + sent[i].length + 2 /\ j \in Nat /\ j >= 1
        <5>1. PICK l \in Nat, a \in Int : l = sent[i].length /\ a = at[i]
          BY <4>2, <4>4
        <5>2. j \in Nat /\ j >= 1 /\ j - a \in 1 .. l + 2
          BY <1>9, <4>5, <5>1
        <5>3. j <= a + l + 2
          BY <5>2
        <5> QED
          BY <5>1, <5>2, <5>3, Zenon
      <4>7. j \in 1 .. Len(wire)
        BY <1>9, <4>2, <4>3, <4>4, <4>6
      <4>8. wire[j] = Serialize(sent[i])[j - at[i]]
        BY <1>1, <1>7, <4>1, <4>5, <4>7 DEF Aligned
      <4> QED
        BY <1>9, <4>2, <4>7, <4>8
    <3> QED
      BY <3>1, <3>2
  <2>3. new[Due] + Len(msg) = 0
    BY <1>7, <1>9, <1>11 DEF Aligned
  <2>4. Len(sent') + 1 = n + 2 /\ Len(wire') = new[n + 2] /\ Len(wire') <= new[n + 2]
    BY <1>1, <1>2, <1>4, <1>9, <1>11, PackedIntAssumption
  <2> QED
    BY <1>2, <1>3, <1>9, <1>11, <2>1, <2>2, <2>3, <2>4 DEF Aligned
<1>13. AllWhole' /\ Len(received') <= Len(sent')
  BY <1>2, <1>3, <1>6 DEF Going, AllWhole
<1>14. pc = "body" => sent'[Due] = sent[Due] /\ Len(received) < Len(sent')
  BY <1>1, <1>2, <1>6, <1>9 DEF Going, Due
<1>15. Going'
  <2>1. \E x : Aligned(x)'
    BY <1>12
  <2> QED
    BY <1>3, <1>6, <1>9, <1>13, <1>14, <2>1 DEF Going, PartOf
<1> QED
  BY <1>13, <1>15 DEF FrameInv

(* What is cut off when the peer closes was not placed before anything.     *)
LEMMA CloseFrame ==
  ASSUME TypeOK, FrameInv, Clean', NEW k \in 0 .. Len(wire), Close(k)
  PROVE  FrameInv'
<1>1. UNCHANGED <<sent, pc, msg, unread, received, split>> /\ closed' = TRUE
  BY DEF Close
<1>2. Clean
  BY <1>1 DEF Clean
<1>3. /\ Len(wire') = Len(wire) - k /\ Len(wire') \in 0 .. Len(wire) /\ Len(wire) \in Nat
      /\ \A j \in 1 .. Len(wire') : wire'[j] = wire[j]
  <2>1. Len(wire) - k \in 0 .. Len(wire) /\ Len(wire) \in Nat
    BY DEF TypeOK
  <2> QED
    BY <2>1, Taken DEF Close
<1>4. CASE Done
  BY <1>1, <1>2, <1>4 DEF Done, Close
<1>5. CASE Thrown
  BY <1>1, <1>2, <1>5 DEF FrameInv, Thrown, AllWhole, Due
<1>6. CASE Going /\ Len(received) <= Len(sent)
  <2>1. PICK at : Aligned(at)
    BY <1>6 DEF Going
  <2>2. at[Len(sent) + 1] \in Int
    <3>1. Len(sent) \in Nat
      BY DEF TypeOK
    <3>2. Len(sent) + 1 \in 1 .. Len(sent) + 1 /\ at \in [1 .. Len(sent) + 1 -> Int]
      BY <2>1, <3>1 DEF Aligned
    <3> QED
      BY <3>2
  <2>3. Aligned(at)'
    <3>1. Len(wire') <= at[Len(sent) + 1]
      BY <1>3, <2>1, <2>2 DEF Aligned
    <3>2. ASSUME NEW i \in Due .. Len(sent), NEW j \in 1 .. Len(wire'),
                 j - at[i] \in 1 .. sent[i].length + 2
          PROVE  wire'[j] = Serialize(sent[i])[j - at[i]]
      <4>1. j \in 1 .. Len(wire)
        BY <1>3
      <4> QED
        BY <1>3, <2>1, <3>2, <4>1 DEF Aligned
    <3>3. Due' = Due
      BY <1>1 DEF Due
    <3> QED
      BY <1>1, <2>1, <3>1, <3>2, <3>3 DEF Aligned
  <2>4. \E x : Aligned(x)'
    BY <2>3
  <2>5. Going'
    BY <1>1, <1>6, <2>4 DEF Going, AllWhole, PartOf, Due
  <2> QED
    BY <1>1, <1>6, <2>5 DEF FrameInv
<1> QED
  BY <1>2, <1>4, <1>6, <1>5 DEF FrameInv

(* The next bytes on the wire are those that msg lacks.                     *)
LEMMA NextBytes ==
  ASSUME TypeOK, Clean, NEW at, Aligned(at), Due <= Len(sent)
  PROVE  \A j \in 1 .. Len(wire) :
           Len(msg) + j <= sent[Due].length + 2 =>
             wire[j] = Serialize(sent[Due])[Len(msg) + j]
<1>1. Due \in 1 .. Len(sent) /\ Due \in Due .. Len(sent) /\ Len(msg) \in Nat
      /\ Len(sent) \in Nat
  BY DEF TypeOK, Due
<1>2. at[Due] + Len(msg) = 0 /\ at[Due] \in Int /\ sent[Due].length \in Nat
  <2>1. sent[Due].length \in Nat
    BY <1>1, SentType, PackedIntAssumption
  <2>2. at \in [1 .. Len(sent) + 1 -> Int] /\ at[Due] + Len(msg) = 0
    BY DEF Aligned
  <2>3. Due \in 1 .. Len(sent) + 1
    BY <1>1
  <2> QED
    BY <2>1, <2>2, <2>3
<1>3. TAKE j \in 1 .. Len(wire)
<1>4. HAVE Len(msg) + j <= sent[Due].length + 2
<1>5. j - at[Due] = Len(msg) + j /\ Len(msg) + j \in 1 .. sent[Due].length + 2
  BY <1>1, <1>2, <1>4
<1> QED
  BY <1>1, <1>5 DEF Aligned

(* The first k bytes of the wire are read.                                  *)
Drop(k) ==
  /\ k \in 0 .. Len(wire)
  /\ wire' = SubSeq(wire, k + 1, Len(wire))
  /\ UNCHANGED <<sent, closed>>

(* They are added to msg, or complete the next packet.                      *)
Progress(k) ==
  /\ Len(received) < Len(sent)
  /\ \/ Len(received') = Len(received) /\ Len(msg') = Len(msg) + k
     \/ /\ Len(received') = Len(received) + 1 /\ Len(msg') = 0
        /\ Len(msg) + k = sent[Due].length + 2

(* The alignment after k bytes of the next packet were read.                *)
LEMMA Shift ==
  ASSUME TypeOK, Clean, NEW at, Aligned(at), NEW k \in Nat, Drop(k), Progress(k)
  PROVE  \E x : Aligned(x)'
<1>1. PICK n \in Nat : n = Len(sent)
  BY DEF TypeOK
<1>2. PICK new : new = [i \in 1 .. n + 1 |-> at[i] - k]
  OBVIOUS
<1>3. /\ Len(wire) \in Nat /\ Due \in 1 .. n /\ Due \in Nat /\ Due' \in {Due, Due + 1}
      /\ Len(wire') = Len(wire) - k
      /\ \A j \in 1 .. Len(wire) - k : wire'[j] = wire[k + j]
      /\ k <= Len(wire)
  <2>1. Len(wire) \in Nat /\ Len(received) \in Nat
    BY DEF TypeOK
  <2>2. /\ Len(wire') = Len(wire) - k
        /\ \A j \in 1 .. Len(wire) - k : wire'[j] = wire[k + j]
    BY Rest DEF Drop
  <2>3. Due \in 1 .. n /\ Due \in Nat /\ Due' \in {Due, Due + 1}
    BY <1>1, <2>1 DEF Due, Progress
  <2> QED
    BY <2>1, <2>2, <2>3 DEF Drop
<1>4. /\ at \in [1 .. n + 1 -> Int]
      /\ \A i \in Due .. n : /\ at[i + 1] = at[i] + sent[i].length + 2
                               /\ at[i + 1] <= at[n + 1]
      /\ Len(wire) <= at[n + 1] /\ (~closed => Len(wire) = at[n + 1])
      /\ at[Due] + Len(msg) = 0
  BY <1>1 DEF Aligned
<1>5. new \in [1 .. n + 1 -> Int] /\ \A i \in 1 .. n + 1 : new[i] = at[i] - k
  BY <1>2, <1>4
<1>6. \A i \in 1 .. n : sent[i].length \in Nat
  BY <1>1, SentType, PackedIntAssumption
<1>7. ASSUME NEW i \in Due' .. n
      PROVE  new[i + 1] = new[i] + sent[i].length + 2 /\ new[i + 1] <= new[n + 1]
  <2>1. i \in Due .. n /\ i \in 1 .. n /\ i + 1 \in 1 .. n + 1 /\ n + 1 \in 1 .. n + 1
    BY <1>3, <1>7
  <2>2. at[i + 1] = at[i] + sent[i].length + 2 /\ at[i + 1] <= at[n + 1]
        /\ at[i] \in Int /\ at[i + 1] \in Int /\ at[n + 1] \in Int
    BY <1>4, <2>1
  <2>3. new[i] = at[i] - k /\ new[i + 1] = at[i + 1] - k /\ new[n + 1] = at[n + 1] - k
    BY <1>5, <2>1
  <2>4. sent[i].length \in Nat
    BY <1>6, <2>1
  <2> QED
    BY <2>2, <2>3, <2>4
<1>8. ASSUME NEW i \in Due' .. n, NEW j \in 1 .. Len(wire'),
             j - new[i] \in 1 .. sent[i].length + 2
      PROVE  wire'[j] = Serialize(sent[i])[j - new[i]]
  <2>1. i \in Due .. n /\ i \in 1 .. n /\ i \in 1 .. n + 1
    BY <1>3, <1>8
  <2>2. new[i] = at[i] - k /\ at[i] \in Int
    BY <1>4, <1>5, <2>1
  <2>3. j - new[i] = (k + j) - at[i] /\ k + j \in 1 .. Len(wire) /\ j \in 1 .. Len(wire) - k
    BY <1>3, <2>2
  <2>4. wire[k + j] = Serialize(sent[i])[(k + j) - at[i]]
    BY <1>1, <1>8, <2>1, <2>3 DEF Aligned
  <2> QED
    BY <1>3, <2>3, <2>4
<1>9. /\ new[Due'] + Len(msg') = 0
      /\ Len(wire') <= new[n + 1] /\ (~closed => Len(wire') = new[n + 1])
  <2>1. /\ at[n + 1] \in Int /\ at[Due] \in Int /\ Len(msg) \in Nat
        /\ new[n + 1] = at[n + 1] - k /\ new[Due] = at[Due] - k
    <3>1. n + 1 \in 1 .. n + 1 /\ Due \in 1 .. n + 1
      BY <1>3
    <3> QED
      BY <1>4, <1>5, <3>1 DEF TypeOK
  <2>2. Len(wire') <= new[n + 1] /\ (~closed => Len(wire') = new[n + 1])
    BY <1>3, <1>4, <2>1
  <2>3. CASE Len(received') = Len(received) /\ Len(msg') = Len(msg) + k
    <3>1. Due' = Due
      BY <2>3 DEF Due
    <3>2. (at[Due] - k) + (Len(msg) + k) = 0
      BY <1>4, <2>1
    <3> QED
      BY <2>1, <2>2, <2>3, <3>1, <3>2
  <2>4. CASE /\ Len(received') = Len(received) + 1 /\ Len(msg') = 0
             /\ Len(msg) + k = sent[Due].length + 2
    <3>1. Due' = Due + 1
      BY <2>4 DEF Due, TypeOK
    <3>2. new[Due + 1] = at[Due + 1] - k
      <4>1. Due + 1 \in 1 .. n + 1
        BY <1>3
      <4> QED
        BY <1>5, <4>1
    <3>3. at[Due + 1] = at[Due] + sent[Due].length + 2 /\ sent[Due].length \in Nat
      BY <1>3, <1>4, <1>6
    <3>4. at[Due + 1] - k = 0
      <4>1. at[Due] + Len(msg) = 0
        BY <1>4
      <4>2. Len(msg) + k = sent[Due].length + 2
        BY <2>4
      <4>3. PICK a \in Int, l \in Nat, m \in Nat :
              a = at[Due] /\ l = sent[Due].length /\ m = Len(msg)
        BY <2>1, <3>3
      <4>4. a \in Int /\ l \in Nat /\ m \in Nat /\ a + m = 0 /\ m + k = l + 2
        BY <4>1, <4>2, <4>3, Zenon
      <4>5. (a + l + 2) - k = 0
        BY <4>4
      <4> QED
        BY <3>3, <4>3, <4>5
    <3> QED
      BY <2>2, <2>4, <3>1, <3>2, <3>4
  <2> QED
    BY <2>3, <2>4 DEF Progress
<1>10. Aligned(new)'
  BY <1>1, <1>5, <1>7, <1>8, <1>9 DEF Aligned, Drop
<1> QED
  BY <1>10

(* The wire has bytes: then they belong to a packet.                        *)
LEMMA Owed ==
  ASSUME TypeOK, FrameInv, Clean, wire # <<>>, pc # "thrown"
  PROVE  /\ Going /\ Len(received) < Len(sent)
         /\ Due \in 1 .. Len(sent)
<1>1. Going /\ Len(received) <= Len(sent)
  BY DEF FrameInv, Done, Thrown
<1>2. PICK at : Aligned(at)
  BY <1>1 DEF Going
<1>3. Len(received) # Len(sent)
  <2>1. SUFFICES ASSUME Len(received) = Len(sent) PROVE FALSE
    OBVIOUS
  <2>2. Len(wire) <= at[Due] /\ at[Due] + Len(msg) = 0 /\ Len(msg) \in Nat
        /\ at[Due] \in Int
    <3>1. Len(sent) \in Nat /\ Len(msg) \in Nat /\ Due = Len(sent) + 1
      BY <2>1 DEF Due, TypeOK
    <3>2. /\ at \in [1 .. Len(sent) + 1 -> Int] /\ at[Due] + Len(msg) = 0
          /\ Len(wire) <= at[Len(sent) + 1]
      BY <1>2 DEF Aligned
    <3> QED
      BY <3>1, <3>2
  <2>3. Len(wire) \in Nat \ {0}
    BY EmptySeq DEF TypeOK
  <2> QED
    BY <2>2, <2>3
<1>4. Len(received) \in Nat /\ Len(sent) \in Nat
  BY DEF TypeOK
<1> QED
  BY <1>1, <1>3, <1>4 DEF Due

(* What is delivered is the next packet: nothing changes for the others.    *)
LEMMA DeliverWhole ==
  ASSUME TypeOK, Clean, Going, Len(received) < Len(sent), NEW m, Deliver(m),
         UNCHANGED sent, m = Serialize(sent[Due]),
         m \notin Overrunning => \E x : Aligned(x)'
  PROVE  (Going' \/ Thrown') /\ Len(received') <= Len(sent')
<1>1. CASE m \in Overrunning
  BY <1>1 DEF Deliver, Going, Thrown, AllWhole, Due, TypeOK
<1> SUFFICES ASSUME m \notin Overrunning PROVE Going' /\ Len(received') <= Len(sent')
  BY <1>1
<1>2. /\ Len(received') = Len(received) + 1 /\ received'[Due] = m
      /\ \A i \in 1 .. Len(received) : received'[i] = received[i]
      /\ Len(received) \in Nat /\ Len(sent) \in Nat
  <2>1. m \in Seq(Byte)
    <3>1. Due \in 1 .. Len(sent)
      BY DEF Due, TypeOK
    <3> QED
      BY <3>1, SentType
  <2> QED
    BY <2>1 DEF Deliver, TypeOK, Due
<1>3. AllWhole'
  <2> SUFFICES ASSUME NEW i \in 1 .. Len(received') PROVE received'[i] = Serialize(sent'[i])
    BY DEF AllWhole
  <2>1. CASE i = Due
    BY <1>2, <2>1
  <2>2. CASE i # Due
    <3>1. i \in 1 .. Len(received)
      BY <1>2, <2>2 DEF Due
    <3> QED
      BY <1>2, <3>1 DEF Going, AllWhole
  <2> QED
    BY <2>1, <2>2
<1> QED
  BY <1>2, <1>3 DEF Going, Deliver

(* The two bytes are those of the next packet, and so is their length.      *)
LEMMA ReadHeaderFrame == ASSUME TypeOK, FrameInv, Clean', ReadHeader PROVE FrameInv'
<1>1. /\ pc = "header" /\ Len(wire) >= 2 /\ UNCHANGED <<sent, closed, split>>
      /\ header' = SubSeq(wire, 1, 2) \o SubSeq(header, 3, 5)
      /\ wire' = SubSeq(wire, 3, Len(wire))
  BY DEF ReadHeader
<1>2. Clean
  BY <1>1 DEF Clean
<1>3. Going /\ Len(received) < Len(sent) /\ Due \in 1 .. Len(sent)
  <2>1. wire # <<>> /\ pc # "thrown"
    BY <1>1
  <2> QED
    BY <1>2, <2>1, Owed
<1>4. PICK at : Aligned(at)
  BY <1>3 DEF Going
<1>5. PICK p \in Packets : p = sent[Due]
  BY <1>2, <1>3, SentType
<1>6. /\ p.length \in Nat /\ p.length < Base
      /\ Serialize(p) \in Seq(Byte) /\ Len(Serialize(p)) = p.length + 2
      /\ Serialize(p)[2] = p.length
  BY <1>2, <1>3, <1>5, SentType, PackedIntAssumption
<1>7. msg = <<>> /\ Len(msg) = 0
  BY <1>1, <1>3 DEF Going
<1>8. wire[1] = Serialize(p)[1] /\ wire[2] = Serialize(p)[2]
  <2>1. Due <= Len(sent)
    BY <1>3 DEF TypeOK
  <2>2. 1 \in 1 .. Len(wire) /\ 2 \in 1 .. Len(wire)
    BY <1>1 DEF TypeOK
  <2>3. Len(msg) + 1 = 1 /\ Len(msg) + 2 = 2
        /\ Len(msg) + 1 <= p.length + 2 /\ Len(msg) + 2 <= p.length + 2
    BY <1>6, <1>7
  <2> QED
    BY <1>2, <1>4, <1>5, <2>1, <2>2, <2>3, NextBytes
<1>9. header' \in Seq(Byte) /\ Len(header') = 5
      /\ header'[1] = Serialize(p)[1] /\ header'[2] = Serialize(p)[2]
  BY <1>1, <1>8, NewHeader
<1>10. ParseHeader(header').length = p.length /\ ParseHeader(header').idx = 2
  BY <1>6, <1>9, HeaderType
<1>11. PICK start : start = SubSeq(header', 1, 2)
  OBVIOUS
<1>12. /\ start \in Seq(Byte) /\ Len(start) = 2
       /\ start[1] = Serialize(p)[1] /\ start[2] = Serialize(p)[2]
  BY <1>9, <1>11, FirstTwo
<1>13. Drop(2)
  BY <1>1 DEF Drop, TypeOK
<1>14. CASE p.length = 0 /\ Deliver(start)
  <2>1. start \notin Overrunning => Progress(2)
    BY <1>3, <1>5, <1>7, <1>12, <1>14 DEF Progress, Deliver, TypeOK
  <2>2. start \notin Overrunning => \E x : Aligned(x)'
    BY <1>2, <1>4, <1>13, <2>1, Shift
  <2>3. start = Serialize(p)
    <3>1. \A j \in 1 .. Len(start) : start[j] = Serialize(p)[j]
      BY <1>12
    <3> QED
      BY <1>6, <1>12, <1>14, <3>1, SeqEqual
  <2>4. (Going' \/ Thrown') /\ Len(received') <= Len(sent')
    BY <1>1, <1>2, <1>3, <1>5, <1>14, <2>2, <2>3, DeliverWhole
  <2> QED
    BY <2>4 DEF FrameInv
<1>15. CASE p.length > 0 /\ pc' = "body" /\ unread' = p.length /\ msg' = start
            /\ UNCHANGED received
  <2>1. Progress(2)
    BY <1>3, <1>7, <1>12, <1>15 DEF Progress
  <2>2. \E x : Aligned(x)'
    BY <1>2, <1>4, <1>13, <2>1, Shift
  <2>3. PartOf(start, p)
    <3>1. \A j \in 1 .. Len(start) : start[j] = Serialize(p)[j]
      BY <1>12
    <3> QED
      BY <1>6, <1>12, <1>15, <3>1 DEF PartOf
  <2>4. AllWhole' /\ sent'[Due'] = p
    BY <1>1, <1>3, <1>5, <1>15 DEF Going, AllWhole, Due
  <2>5. Len(msg') + unread' = p.length + 2
    <3>1. p.length + 2 = 2 + p.length
      BY <1>6
    <3>2. Len(msg') = 2 /\ unread' = p.length
      BY <1>12, <1>15
    <3> QED
      BY <3>1, <3>2
  <2>6. PartOf(msg', sent'[Due'])
    BY <1>15, <2>3, <2>4
  <2>7. Len(msg') + unread' = sent'[Due'].length + 2
    BY <2>4, <2>5
  <2>8. Going'
    <3>1. pc' = "body" /\ Len(received') < Len(sent')
      BY <1>1, <1>3, <1>15
    <3> QED
      BY <2>2, <2>4, <2>6, <2>7, <3>1, Zenon DEF Going
  <2> QED
    BY <1>1, <1>3, <1>15, <2>8 DEF FrameInv, TypeOK
<1> QED
  BY <1>10, <1>11, <1>14, <1>15 DEF ReadHeader

(* The bytes that are read are the next ones of the packet in msg.          *)
LEMMA ReadBodyFrame ==
  ASSUME TypeOK, FrameInv, Clean', NEW k \in 1 .. Len(wire), ReadBody(k)
  PROVE  FrameInv'
<1>1. /\ pc = "body" /\ k <= unread /\ UNCHANGED <<sent, closed, header, split>>
      /\ wire' = SubSeq(wire, k + 1, Len(wire)) /\ k \in Nat /\ k > 0 /\ k \in 0 .. Len(wire)
  BY DEF ReadBody
<1>2. Clean
  BY <1>1 DEF Clean
<1>3. Going /\ Len(received) < Len(sent) /\ Due \in 1 .. Len(sent)
  <2>1. wire # <<>> /\ pc # "thrown"
    BY <1>1
  <2> QED
    BY <1>2, <2>1, Owed
<1>4. PICK at : Aligned(at)
  BY <1>3 DEF Going
<1>5. PICK p \in Packets : p = sent[Due]
  BY <1>2, <1>3, SentType
<1>6. /\ p.length \in Nat
      /\ Serialize(p) \in Seq(Byte) /\ Len(Serialize(p)) = p.length + 2
  BY <1>2, <1>3, <1>5, SentType, PackedIntAssumption
<1>7. /\ Len(msg) \in Nat /\ Len(msg) >= 2 /\ unread \in Nat /\ Len(msg) + unread = p.length + 2
      /\ \A j \in 1 .. Len(msg) : msg[j] = Serialize(p)[j]
  BY <1>1, <1>3, <1>5 DEF Going, PartOf, TypeOK
<1>8. \A j \in 1 .. k : wire[j] = Serialize(p)[Len(msg) + j]
  <2> TAKE j \in 1 .. k
  <2>1. Due <= Len(sent)
    BY <1>3 DEF TypeOK
  <2>2. j \in 1 .. Len(wire)
    BY <1>1 DEF TypeOK
  <2>3. Len(msg) + j <= p.length + 2
    BY <1>1, <1>7, <1>6
  <2> QED
    BY <1>2, <1>4, <1>5, <2>1, <2>2, <2>3, NextBytes
<1>9. PICK m : m = msg \o SubSeq(wire, 1, k)
  OBVIOUS
<1>10. /\ m \in Seq(Byte) /\ Len(m) = Len(msg) + k
       /\ \A j \in 1 .. Len(m) : m[j] = Serialize(p)[j]
  <2>1. /\ SubSeq(wire, 1, k) \in Seq(Byte) /\ Len(SubSeq(wire, 1, k)) = k
        /\ \A j \in 1 .. k : SubSeq(wire, 1, k)[j] = wire[j]
    BY <1>1, Taken
  <2>2. PICK piece \in Seq(Byte) : piece = SubSeq(wire, 1, k)
    BY <2>1
  <2>3. msg \in Seq(Byte) /\ Len(piece) = k /\ m = msg \o piece
    BY <1>9, <2>1, <2>2 DEF TypeOK
  <2>4. m \in Seq(Byte) /\ Len(m) = Len(msg) + k
        /\ \A j \in 1 .. Len(msg) + k : m[j] = IF j <= Len(msg) THEN msg[j] ELSE piece[j - Len(msg)]
    <3>1. /\ msg \o piece \in Seq(Byte) /\ Len(msg \o piece) = Len(msg) + Len(piece)
          /\ \A j \in 1 .. Len(msg) + Len(piece) : (msg \o piece)[j] =
               IF j <= Len(msg) THEN msg[j] ELSE piece[j - Len(msg)]
      BY <2>2, <2>3, ConcatProperties, Zenon
    <3> QED
      BY <2>3, <3>1, Zenon
  <2>5. ASSUME NEW j \in 1 .. Len(msg) + k PROVE m[j] = Serialize(p)[j]
    <3>1. CASE j <= Len(msg)
      <4>1. j \in 1 .. Len(msg)
        BY <1>7, <3>1
      <4> QED
        BY <1>7, <2>4, <3>1, <4>1
    <3>2. CASE ~(j <= Len(msg))
      <4>1. j - Len(msg) \in 1 .. k /\ Len(msg) + (j - Len(msg)) = j
        BY <1>1, <1>7, <3>2
      <4>2. m[j] = wire[j - Len(msg)]
        BY <2>1, <2>2, <2>4, <2>5, <3>2, <4>1
      <4> QED
        BY <1>8, <4>1, <4>2
    <3> QED
      BY <3>1, <3>2
  <2> QED
    BY <2>4, <2>5
<1>11. Drop(k)
  BY <1>1 DEF Drop
<1>12. CASE k = unread /\ Deliver(m)
  <2>1. m \notin Overrunning => Progress(k)
    BY <1>3, <1>5, <1>7, <1>10, <1>12 DEF Progress, Deliver, TypeOK
  <2>2. m \notin Overrunning => \E x : Aligned(x)'
    BY <1>1, <1>2, <1>4, <1>11, <2>1, Shift
  <2>3. m = Serialize(p)
    BY <1>6, <1>7, <1>10, <1>12, SeqEqual
  <2>4. (Going' \/ Thrown') /\ Len(received') <= Len(sent')
    BY <1>1, <1>2, <1>3, <1>5, <1>12, <2>2, <2>3, DeliverWhole
  <2> QED
    BY <2>4 DEF FrameInv
<1>13. CASE k < unread /\ msg' = m /\ unread' = unread - k /\ UNCHANGED <<pc, received>>
  <2>1. Progress(k)
    BY <1>3, <1>10, <1>13 DEF Progress
  <2>2. \E x : Aligned(x)'
    BY <1>1, <1>2, <1>4, <1>11, <2>1, Shift
  <2>3. PartOf(m, p) /\ Len(m) + (unread - k) = p.length + 2
    BY <1>1, <1>6, <1>7, <1>10, <1>13 DEF PartOf
  <2>4. AllWhole' /\ sent'[Due'] = p
    BY <1>1, <1>3, <1>5, <1>13 DEF Going, AllWhole, Due
  <2>5. Going'
    BY <1>1, <1>3, <1>13, <2>2, <2>3, <2>4 DEF Going
  <2> QED
    BY <1>1, <1>3, <1>13, <2>5 DEF FrameInv, TypeOK
<1> QED
  BY <1>9, <1>12, <1>13 DEF ReadBody

(* A message that lacks its end is the last one.                            *)
LEMMA BodyEOFFrame == ASSUME TypeOK, FrameInv, Clean', BodyEOF PROVE FrameInv'
<1>1. /\ pc = "body" /\ closed /\ wire = <<>> /\ UNCHANGED <<sent, wire, closed, split>>
  BY DEF BodyEOF
<1>2. Clean
  BY <1>1 DEF Clean
<1>3. Going
  BY <1>1, <1>2 DEF FrameInv, Done, Thrown
<1>4. /\ Len(received) < Len(sent) /\ Len(received) \in Nat /\ Len(sent) \in Nat
      /\ PartOf(msg, sent[Due]) /\ AllWhole
  BY <1>1, <1>3 DEF Going, TypeOK
<1>5. msg \notin Overrunning
  <2>1. Due \in 1 .. Len(sent) /\ msg \in Seq(Byte)
    BY <1>4 DEF Due, TypeOK
  <2>2. PICK p \in Packets : p = sent[Due]
    BY <1>2, <2>1, SentType
  <2>3. p.length \in Nat /\ p.length < Base /\ Len(Serialize(p)) = p.length + 2
    BY <1>2, <2>1, <2>2, SentType, PackedIntAssumption
  <2>4. PartOf(msg, p) /\ Len(msg) \in 2 .. p.length + 1
    BY <1>4, <2>2 DEF PartOf
  <2>5. msg # Serialize(p)
    BY <2>3, <2>4
  <2>6. ~Valid(msg)
    BY <2>1, <2>3, <2>4, <2>5, ValidPart
  <2> QED
    BY <2>6, FramingAssumption
<1>6. received' = Append(received, msg) /\ pc' = "header"
  BY <1>5 DEF BodyEOF, Deliver
<1>7. /\ Len(received') = Len(received) + 1 /\ received'[Due] = msg
      /\ \A i \in 1 .. Len(received) : received'[i] = received[i]
  BY <1>6 DEF TypeOK, Due
<1>8. ASSUME NEW i \in 1 .. Len(received')
      PROVE  \/ received'[i] = Serialize(sent'[i])
             \/ i = Len(received') /\ PartOf(received'[i], sent'[i])
  <2>1. CASE i = Due
    BY <1>1, <1>4, <1>7, <2>1 DEF Due
  <2>2. CASE i # Due
    <3>1. i \in 1 .. Len(received)
      BY <1>4, <1>7, <2>2 DEF Due
    <3> QED
      BY <1>1, <1>4, <1>7, <3>1 DEF AllWhole
  <2> QED
    BY <2>1, <2>2
<1>9. Done'
  <2>1. PartOf(msg, sent[Due])' <=> PartOf(msg', sent'[Due'])
    BY DEF PartOf
  <2> QED
    BY <1>1, <1>8, <1>6 DEF Done, PartOf
<1> QED
  BY <1>1, <1>4, <1>7, <1>9 DEF FrameInv

(* The loop ends with everything that was received as it was.               *)
LEMMA HeaderEOFFrame == ASSUME TypeOK, FrameInv, Clean', HeaderEOF PROVE FrameInv'
<1>1. /\ closed /\ wire = <<>> /\ UNCHANGED <<sent, wire, closed, received, split>>
      /\ pc = "header" /\ pc' = "ended"
  BY DEF HeaderEOF
<1>2. Clean
  BY <1>1 DEF Clean
<1>3. Done'
  BY <1>1, <1>2 DEF FrameInv, Going, Done, Thrown, AllWhole, PartOf
<1> QED
  BY <1>1, <1>2, <1>3 DEF FrameInv

(* Every step keeps FrameInv; once a stream is not clean, it stays so.      *)
LEMMA StepFrame == ASSUME TypeOK, FrameInv, [Next]_vars PROVE FrameInv'
<1> SUFFICES ASSUME Clean' PROVE FrameInv'
  BY DEF FrameInv
<1>1. ASSUME NEW p \in Packets, SendPacket(p) PROVE FrameInv'
  BY <1>1, SendFrame
<1>2. ASSUME NEW k \in 0 .. Len(wire), Close(k) PROVE FrameInv'
  BY <1>2, CloseFrame
<1>3. CASE ReadHeader
  BY <1>3, ReadHeaderFrame
<1>4. CASE ReadOne
  BY <1>4 DEF ReadOne, Clean
<1>5. CASE HeaderEOF
  BY <1>5, HeaderEOFFrame
<1>6. CASE BodyEOF
  BY <1>6, BodyEOFFrame
<1>7. ASSUME NEW k \in 1 .. Len(wire), ReadBody(k) PROVE FrameInv'
  BY <1>7, ReadBodyFrame
<1>8. CASE UNCHANGED vars
  <2> USE <1>8 DEF vars
  <2>1. /\ Clean' = Clean /\ AllWhole' = AllWhole
        /\ \A at : Aligned(at)' <=> Aligned(at)
    BY DEF Clean, AllWhole, Aligned, Due
  <2>2. Going' = Going
    BY <2>1 DEF Going, PartOf, Due
  <2>3. Done' = Done /\ Thrown' = Thrown
    BY <2>1 DEF Done, PartOf, Thrown, Due
  <2> QED
    BY <2>1, <2>2, <2>3 DEF FrameInv
<1> QED
  BY <1>1, <1>2, <1>3, <1>4, <1>5, <1>6, <1>7, <1>8 DEF Next, Run

(* FrameInv holds from the start.                                           *)
LEMMA Invariance == Spec => [](TypeOK /\ FrameInv)
<1>1. ASSUME Init PROVE FrameInv
  <2> DEFINE zero == [i \in {1} |-> 0]
  <2>1. Len(sent) = 0 /\ Len(received) = 0 /\ Len(wire) = 0 /\ msg = <<>> /\ Len(msg) = 0
        /\ pc = "header"
    BY <1>1 DEF Init
  <2>2. Aligned(zero)
    BY <2>1 DEF Aligned, Due
  <2>3. Going /\ Len(received) <= Len(sent)
    <3>1. \E x : Aligned(x)
      BY <2>2
    <3> QED
      BY <2>1, <3>1 DEF Going, AllWhole
  <2> QED
    BY <2>3 DEF FrameInv
<1>2. TypeOK /\ FrameInv /\ [Next]_vars => TypeOK' /\ FrameInv'
  BY StepType, StepFrame
<1>3. Init => FrameInv
  BY <1>1
<1>4. Spec => []TypeOK
  BY TypeCorrect
<1> QED
  BY <1>2, <1>3, <1>4, PTL DEF Spec

(* What FrameInv says of the messages that were received.                   *)
LEMMA Received ==
  ASSUME TypeOK, FrameInv, Clean, NEW i \in 1 .. Len(received)
  PROVE  /\ Len(received) <= Len(sent) /\ i \in 1 .. Len(sent)
         /\ \/ received[i] = Serialize(sent[i])
            \/ closed /\ i = Len(received) /\ wire = <<>> /\ PartOf(received[i], sent[i])
<1>1. Len(received) \in Nat /\ Len(sent) \in Nat /\ Len(received) <= Len(sent)
  BY DEF FrameInv, TypeOK
<1> QED
  BY <1>1 DEF FrameInv, Going, Done, Thrown, AllWhole

(* However the stream is cut, every packet becomes one message, in order,   *)
(* for any base, commands, lengths of one digit and number of packets.      *)
THEOREM FramesAreIntact == Spec => []FramesIntact
<1>1. ASSUME TypeOK, FrameInv PROVE FramesIntact
  <2> SUFFICES ASSUME Clean
               PROVE  /\ Len(received) <= Len(sent)
                      /\ \A i \in 1 .. Len(received) :
                           \/ received[i] = Serialize(sent[i])
                           \/ /\ closed /\ i = Len(received) /\ wire = <<>>
                              /\ IsPrefix(received[i], Serialize(sent[i]))
                      /\ pc = "thrown" =>
                           /\ Len(received) < Len(sent)
                           /\ Serialize(sent[Len(received) + 1]) \in Overrunning
    BY DEF FramesIntact
  <2>1. Len(received) <= Len(sent)
    BY <1>1 DEF FrameInv
  <2>2. ASSUME NEW i \in 1 .. Len(received), PartOf(received[i], sent[i])
        PROVE  IsPrefix(received[i], Serialize(sent[i]))
    <3>1. i \in 1 .. Len(sent) /\ received[i] \in Seq(Byte)
      BY <1>1, Received, ElementOfSeq DEF TypeOK
    <3>2. PICK s \in Seq(Byte) : s = Serialize(sent[i])
      BY <1>1, <3>1, SentType
    <3>3. PICK m \in Seq(Byte) : m = received[i]
      BY <3>1
    <3>4. Len(m) \in Nat /\ Len(m) <= Len(s) /\ \A j \in 1 .. Len(m) : m[j] = s[j]
      <4>1. /\ Len(m) \in 2 .. sent[i].length + 1
            /\ \A j \in 1 .. Len(m) : m[j] = s[j]
        BY <2>2, <3>2, <3>3, Zenon DEF PartOf
      <4>2. Len(s) = sent[i].length + 2 /\ sent[i].length \in 0 .. Base - 1
        BY <1>1, <3>1, <3>2, SentType
      <4> QED
        BY <4>1, <4>2, PackedIntAssumption
    <3>5. SubSeq(m, 1, Len(m)) = SubSeq(s, 1, Len(m))
      BY <3>4
    <3> QED
      BY <3>2, <3>3, <3>4, <3>5 DEF IsPrefix
  <2>3. pc = "thrown" => /\ Len(received) < Len(sent)
                         /\ Serialize(sent[Len(received) + 1]) \in Overrunning
    BY <1>1 DEF FrameInv, Going, Done, Thrown, Due
  <2> QED
    BY <1>1, <2>1, <2>2, <2>3, Received
<1>2. TypeOK /\ FrameInv => FramesIntact
  BY <1>1
<1> QED
  BY <1>2, Invariance, PTL

(* The second length check accepts a message exactly if it is whole.        *)
THEOREM ValidIsWhole == Spec => []ValidMeansWhole
<1>1. ASSUME TypeOK, FrameInv, Clean, NEW i \in 1 .. Len(received)
      PROVE  Valid(received[i]) <=> received[i] = Serialize(sent[i])
  <2>1. i \in 1 .. Len(sent) /\ received[i] \in Seq(Byte)
        /\ (received[i] = Serialize(sent[i]) \/ PartOf(received[i], sent[i]))
    BY <1>1, Received, ElementOfSeq DEF TypeOK
  <2>2. PICK p \in Packets : p = sent[i]
    BY <1>1, <2>1, SentType
  <2>3. PICK m \in Seq(Byte) : m = received[i]
    BY <2>1
  <2>4. p.length < Base
    BY <1>1, <2>1, <2>2, SentType, PackedIntAssumption
  <2>5. m = Serialize(p) \/ PartOf(m, p)
    BY <2>1, <2>2, <2>3
  <2>6. Valid(m) <=> m = Serialize(p)
    BY <2>4, <2>5, ValidPart
  <2> QED
    BY <2>2, <2>3, <2>6
<1>2. TypeOK /\ FrameInv => ValidMeansWhole
  BY <1>1 DEF ValidMeansWhole
<1> QED
  BY <1>2, Invariance, PTL
=============================================================================
