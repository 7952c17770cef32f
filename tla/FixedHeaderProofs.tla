--------------------------- MODULE FixedHeaderProofs ---------------------------
(***************************************************************************)
(* What the operators of PackedInt and FixedHeader return, for any base.   *)
(*                                                                         *)
(* A number is written with as many digits as it has, but for the powers   *)
(* of the base: those lack their last, and are read back as 0 (RoundTrip,  *)
(* PowersReadAsZero).  So parseHeader finds the length of a packet if it   *)
(* is given the whole header (HeaderRoundTrip).  parseMessage reads the    *)
(* length in another way, and accepts a packet if, and only if, its length *)
(* is a single digit (ValidMeansOneDigit).                                 *)
(***************************************************************************)
EXTENDS FixedHeader, SequenceTheorems, TLAPS

-----------------------------------------------------------------------------
(* Packed integers. *)

(* Quotient and remainder.                                                  *)
LEMMA Division ==
  ASSUME NEW n \in Nat, NEW d \in Nat \ {0}
  PROVE  /\ n \div d \in Nat /\ n % d \in 0 .. d - 1
         /\ n = d * (n \div d) + (n % d)
OBVIOUS

(* There is only one quotient.                                              *)
LEMMA DivUnique ==
  ASSUME NEW d \in Nat \ {0}, NEW q \in Nat, NEW r \in 0 .. d - 1
  PROVE  (d * q + r) \div d = q
<1>1. d * q + r \in Nat
  OBVIOUS
<1> DEFINE p == (d * q + r) \div d
           s == (d * q + r) % d
<1>2. p \in Nat /\ s \in 0 .. d - 1 /\ d * q + r = d * p + s
  BY <1>1, Division
<1> HIDE DEF p, s
<1>3. CASE p > q
  <2>1. d * p >= d * (q + 1)
    BY <1>2, <1>3
  <2> QED
    BY <1>2, <2>1
<1>4. CASE p < q
  <2>1. d * q >= d * (p + 1)
    BY <1>2, <1>4
  <2> QED
    BY <1>2, <2>1
<1>5. p = q
  BY <1>2, <1>3, <1>4
<1> QED
  BY <1>5 DEF p

(* To divide twice is to divide by the product.                             *)
LEMMA DivDiv ==
  ASSUME NEW n \in Nat, NEW a \in Nat \ {0}, NEW b \in Nat \ {0}
  PROVE  a * b \in Nat \ {0} /\ n \div (a * b) = (n \div a) \div b
<1> DEFINE q == n \div a
           r == n % a
           p == q \div b
           s == q % b
<1>1. q \in Nat /\ r \in 0 .. a - 1 /\ n = a * q + r
  BY Division
<1> HIDE DEF q, r
<1>2. p \in Nat /\ s \in 0 .. b - 1 /\ q = b * p + s
  BY <1>1, Division
<1> HIDE DEF p, s
<1>3. n = (a * b) * p + (a * s + r)
  BY <1>1, <1>2
<1>4. a * b \in Nat \ {0}
  OBVIOUS
<1>5. a * s + r \in 0 .. (a * b) - 1
  <2>1. a * (s + 1) <= a * b
    BY <1>2
  <2> QED
    BY <1>1, <1>2, <1>4, <2>1
<1>6. n \div (a * b) = p
  BY <1>2, <1>3, <1>4, <1>5, DivUnique
<1> QED
  BY <1>4, <1>6 DEF p, q
(* Digits count for positive numbers, the first for one.                    *)
LEMMA WeightType ==
  /\ Weight[1] = 1 /\ Weight[2] = Base
  /\ \A i \in 1 .. 5 : Weight[i] \in Nat \ {0}
  /\ Base <= Weight[5]
<1>1. \A x, y \in Nat \ {0} : x * y \in Nat \ {0} /\ y <= x * y
  OBVIOUS
<1>2. /\ Base \in Nat \ {0}
      /\ Base * Base \in Nat \ {0}
      /\ Base * Base * Base \in Nat \ {0}
      /\ Base * Base * Base * Base \in Nat \ {0}
      /\ Base <= Base * Base * Base * Base
  <2> Base \in Nat \ {0}
    BY PackedIntAssumption
  <2>1. Base * Base \in Nat \ {0}
    BY <1>1
  <2>2. Base * Base * Base \in Nat \ {0}
    BY <1>1, <2>1
  <2> QED
    BY <1>1, <2>1, <2>2
<1> QED
  BY <1>2 DEF Weight

(* Each weight is Base times the one before it, and so above it.            *)
LEMMA WeightsGrow ==
  /\ \A i \in 1 .. 5 : Weight[i] \in Nat \ {0}
  /\ Weight[1] = 1 /\ Weight[2] = Base * Weight[1] /\ Weight[3] = Base * Weight[2]
  /\ Weight[4] = Base * Weight[3] /\ Weight[5] = Base * Weight[4]
  /\ \A i, j \in 1 .. 5 : i < j => Weight[i] < Weight[j]
<1>1. /\ \A i \in 1 .. 5 : Weight[i] \in Nat \ {0}
      /\ Weight[2] = Base * 1 /\ Weight[3] = Base * Weight[2]
      /\ Weight[4] = Base * Weight[3] /\ Weight[5] = Base * Weight[4]
      /\ Weight[1] = 1
  BY WeightType, PackedIntAssumption DEF Weight
<1>2. \A x \in Nat \ {0} : x < Base * x
  BY PackedIntAssumption
<1> HIDE DEF Weight
<1>3. Weight[1] < Weight[2] /\ Weight[2] < Weight[3] /\ Weight[3] < Weight[4]
      /\ Weight[4] < Weight[5]
  BY <1>1, <1>2
<1>4. ASSUME NEW i \in 1 .. 5, NEW j \in 1 .. 5, i < j
      PROVE  Weight[i] < Weight[j]
  BY <1>1, <1>3, <1>4
<1> QED
  BY <1>1, <1>4

(* The number of digits is the first that suffices.                         *)
LEMMA PackedLenBound ==
  ASSUME NEW n \in Nat, n <= Weight[5]
  PROVE  /\ PackedLen(n) \in 1 .. 4 /\ n <= Weight[PackedLen(n) + 1]
         /\ \A j \in 1 .. PackedLen(n) - 1 : n > Weight[j + 1]
<1> DEFINE P(i) == n <= Weight[i + 1] /\ \A j \in 1 .. i - 1 : n > Weight[j + 1]
<1>1. \A i \in 1 .. 4 : Weight[i + 1] \in Nat
  BY WeightType
<1> HIDE DEF Weight
<1>2. \E i \in 1 .. 4 : P(i)
  <2>1. CASE n <= Weight[2]
    BY <2>1
  <2>2. CASE n > Weight[2] /\ n <= Weight[3]
    BY <2>2
  <2>3. CASE n > Weight[2] /\ n > Weight[3] /\ n <= Weight[4]
    BY <2>3
  <2>4. CASE n > Weight[2] /\ n > Weight[3] /\ n > Weight[4]
    BY <2>4
  <2> QED
    BY <2>1, <2>2, <2>3, <2>4, <1>1
<1>3. ~(n > Weight[5])
  BY <1>1
<1>4. PackedLen(n) = CHOOSE i \in 1 .. 4 : P(i)
  BY <1>3 DEF PackedLen
<1> QED
  BY <1>2, <1>4

(* A number is written with up to four digits, one below Base with one.     *)
LEMMA PackedLenType ==
  ASSUME NEW n \in Nat
  PROVE  PackedLen(n) \in 0 .. 4 /\ (n < Base => PackedLen(n) = 1)
<1>1. /\ Weight[2] = Base /\ Base <= Weight[5] /\ Base \in Nat
      /\ \A i \in 1 .. 5 : Weight[i] \in Nat
  BY WeightType, PackedIntAssumption
<1>2. CASE n > Weight[5]
  <2>1. PackedLen(n) = 0
    BY <1>2 DEF PackedLen
  <2> QED
    BY <1>1, <1>2, <2>1
<1>3. CASE ~(n > Weight[5])
  <2> HIDE DEF Weight
  <2>1. PackedLen(n) \in 1 .. 4 /\ \A j \in 1 .. PackedLen(n) - 1 : n > Weight[j + 1]
    BY <1>1, <1>3, PackedLenBound
  <2> QED
    BY <1>1, <2>1
<1> QED
  BY <1>2, <1>3

(* A written number is made of bytes; one below Base is its own digit.      *)
LEMMA WriteType ==
  ASSUME NEW n \in Nat
  PROVE  /\ WritePackedInt(n) \in Seq(Byte)
         /\ n < Base => WritePackedInt(n) = <<n>>
<1> DEFINE d(i) == ((n \div Weight[i]) % Base) + (IF i < PackedLen(n) THEN Base ELSE 0)
<1>1. \A i \in 1 .. PackedLen(n) : d(i) \in Byte
  <2> TAKE i \in 1 .. PackedLen(n)
  <2>1. Weight[i] \in Nat \ {0}
    BY PackedLenType, WeightType
  <2>2. n \div Weight[i] \in Nat
    BY <2>1
  <2>3. (n \div Weight[i]) % Base \in 0 .. Base - 1
    BY <2>2, PackedIntAssumption
  <2> QED
    BY <2>3, PackedLenType, PackedIntAssumption DEF Byte
<1>2. WritePackedInt(n) = [i \in 1 .. PackedLen(n) |-> d(i)]
  BY DEF WritePackedInt
<1>3. WritePackedInt(n) \in Seq(Byte)
  BY <1>1, <1>2, PackedLenType
<1>4. ASSUME n < Base PROVE WritePackedInt(n) = <<n>>
  <2>1. PackedLen(n) = 1
    BY <1>4, PackedLenType
  <2>2. n \div Weight[1] = n
    BY WeightType
  <2>3. d(1) = n
    BY <1>4, <2>1, <2>2, PackedIntAssumption
  <2> QED
    BY <1>2, <2>1, <2>3
<1> QED
  BY <1>3, <1>4

(* The length of a packed integer, and its value.                           *)
LEMMA ReadType ==
  ASSUME NEW b, \A i \in 1 .. 4 : b[i] \in Byte
  PROVE  /\ ReadLen(b) \in 1 .. 5
         /\ ReadPackedInt(b) \in Nat
         /\ b[1] < Base => ReadLen(b) = 1 /\ ReadPackedInt(b) = b[1]
<1> DEFINE P(i) == (i = 5 \/ ~More(b[i])) /\ \A j \in 1 .. i - 1 : More(b[j])
<1>1. \E i \in 1 .. 5 : P(i)
  <2>1. CASE ~More(b[1])
    BY <2>1
  <2>2. CASE More(b[1]) /\ ~More(b[2])
    BY <2>2
  <2>3. CASE More(b[1]) /\ More(b[2]) /\ ~More(b[3])
    BY <2>3
  <2>4. CASE More(b[1]) /\ More(b[2]) /\ More(b[3]) /\ ~More(b[4])
    BY <2>4
  <2>5. CASE More(b[1]) /\ More(b[2]) /\ More(b[3]) /\ More(b[4])
    BY <2>5
  <2> QED
    BY <2>1, <2>2, <2>3, <2>4, <2>5
<1>2. ReadLen(b) = CHOOSE i \in 1 .. 5 : P(i)
  BY DEF ReadLen
<1>3. ReadLen(b) \in 1 .. 5 /\ P(ReadLen(b))
  BY <1>1, <1>2
<1> HIDE DEF P
<1> DEFINE Digit(i) == IF i <= ReadLen(b) THEN (b[i] % Base) * Weight[i] ELSE 0
<1>4. \A i \in 1 .. 4 : Digit(i) \in Nat
  <2>1. \A x, y \in Nat : x * y \in Nat
    OBVIOUS
  <2> TAKE i \in 1 .. 4
  <2>2. b[i] % Base \in Nat /\ Weight[i] \in Nat
    BY WeightType, PackedIntAssumption DEF Byte
  <2>3. (b[i] % Base) * Weight[i] \in Nat
    BY <2>1, <2>2
  <2> QED
    BY <2>3
<1>5. ReadPackedInt(b) = Digit(1) + Digit(2) + Digit(3) + Digit(4)
  BY DEF ReadPackedInt
<1>6. ReadPackedInt(b) \in Nat
  <2> HIDE DEF Digit
  <2> QED
    BY <1>4, <1>5
<1>7. ASSUME b[1] < Base PROVE ReadLen(b) = 1 /\ ReadPackedInt(b) = b[1]
  <2>1. ~More(b[1])
    BY <1>7, PackedIntAssumption DEF More, Byte
  <2>2. ReadLen(b) = 1
    BY <1>3, <2>1 DEF P
  <2>3. b[1] % Base = b[1] /\ b[1] \in Nat
    BY <1>7, PackedIntAssumption DEF Byte
  <2>4. Digit(1) = b[1] /\ Digit(2) = 0 /\ Digit(3) = 0 /\ Digit(4) = 0
    BY <2>2, <2>3, WeightType
  <2> HIDE DEF Digit
  <2> QED
    BY <1>5, <2>2, <2>3, <2>4
<1> QED
  BY <1>3, <1>6, <1>7

(* The digits of a number: what is left of it after each.                   *)
LEMMA Digits ==
  ASSUME NEW n \in Nat, NEW i \in 1 .. 4
  PROVE  /\ Weight[i + 1] = Weight[i] * Base
         /\ n \div Weight[i] \in Nat /\ n \div Weight[i + 1] \in Nat
         /\ (n \div Weight[i]) % Base \in 0 .. Base - 1
         /\ n \div Weight[i] =
              Base * (n \div Weight[i + 1]) + ((n \div Weight[i]) % Base)
<1>1. Base \in Nat \ {0} /\ Weight[i] \in Nat \ {0} /\ Weight[i + 1] \in Nat \ {0}
  BY WeightType, PackedIntAssumption
<1>2. Weight[i + 1] = Weight[i] * Base
  BY <1>1 DEF Weight
<1>3. n \div Weight[i + 1] = (n \div Weight[i]) \div Base
  BY <1>1, <1>2, DivDiv
<1>4. n \div Weight[i] \in Nat
  BY <1>1, Division
<1>5. /\ (n \div Weight[i]) \div Base \in Nat
      /\ (n \div Weight[i]) % Base \in 0 .. Base - 1
      /\ n \div Weight[i] =
           Base * ((n \div Weight[i]) \div Base) + ((n \div Weight[i]) % Base)
  BY <1>1, <1>4, Division
<1> QED
  BY <1>2, <1>3, <1>4, <1>5

(* What has been written is read again, whatever follows it: as many bytes, *)
(* and of each its digit.                                                   *)
LEMMA ReadWritten ==
  ASSUME NEW n \in Nat, n <= Weight[5], NEW b, \A i \in 1 .. 4 : b[i] \in Byte,
         \A i \in 1 .. PackedLen(n) : b[i] = WritePackedInt(n)[i]
  PROVE  /\ PackedLen(n) \in 1 .. 4 /\ ReadLen(b) = PackedLen(n)
         /\ n <= Weight[PackedLen(n) + 1]
         /\ \A j \in 1 .. PackedLen(n) - 1 : n > Weight[j + 1]
         /\ \A i \in 1 .. PackedLen(n) : b[i] % Base = (n \div Weight[i]) % Base
<1> DEFINE k == PackedLen(n)
           d(i) == (n \div Weight[i]) % Base
<1>1. k \in 1 .. 4 /\ n <= Weight[k + 1] /\ \A j \in 1 .. k - 1 : n > Weight[j + 1]
  BY PackedLenBound
<1> HIDE DEF k
<1>2. ASSUME NEW i \in 1 .. k
      PROVE  /\ d(i) \in 0 .. Base - 1 /\ b[i] = d(i) + (IF i < k THEN Base ELSE 0)
  <2>1. WritePackedInt(n)[i] = d(i) + (IF i < k THEN Base ELSE 0)
    BY <1>1, <1>2 DEF WritePackedInt, k
  <2>2. i \in 1 .. 4
    BY <1>1, <1>2
  <2>3. d(i) \in 0 .. Base - 1
    BY <2>2, Digits
  <2> QED
    BY <1>2, <2>1, <2>3 DEF k
<1> HIDE DEF d
<1>3. ASSUME NEW i \in 1 .. k
      PROVE  /\ b[i] % Base = d(i)
             /\ More(b[i]) <=> i < k
  <2>1. CASE i < k
    <3>1. b[i] = Base * 1 + d(i) /\ d(i) \in 0 .. Base - 1
      BY <1>2, <2>1, PackedIntAssumption
    <3>2. b[i] % Base = d(i)
      BY <3>1, PackedIntAssumption
    <3> QED
      BY <2>1, <3>1, <3>2, PackedIntAssumption DEF More
  <2>2. CASE ~(i < k)
    <3>1. b[i] = d(i) /\ d(i) \in 0 .. Base - 1
      BY <1>2, <2>2, PackedIntAssumption
    <3> QED
      BY <2>2, <3>1, PackedIntAssumption DEF More
  <2> QED
    BY <2>1, <2>2
<1>4. ReadLen(b) = k
  <2> DEFINE P(i) == (i = 5 \/ ~More(b[i])) /\ \A j \in 1 .. i - 1 : More(b[j])
  <2>1. P(k)
    BY <1>1, <1>3
  <2>2. \A i \in 1 .. 5 : P(i) => i = k
    <3> TAKE i \in 1 .. 5
    <3>1. CASE i < k
      BY <1>1, <1>3, <3>1
    <3>2. CASE i > k
      BY <1>1, <1>3, <3>2
    <3> QED
      BY <1>1, <3>1, <3>2
  <2>3. ReadLen(b) = CHOOSE i \in 1 .. 5 : P(i)
    BY DEF ReadLen
  <2> HIDE DEF P
  <2> QED
    BY <1>1, <2>1, <2>2, <2>3
<1> QED
  BY <1>1, <1>3, <1>4 DEF k, d

(* Every number up to Base^4 that is no power of Base is read back as it    *)
(* was written, and in as many bytes, whatever the buffer holds behind it.  *)
THEOREM RoundTrip ==
  ASSUME NEW n \in Nat, n < Weight[5], \A i \in 2 .. 4 : n # Weight[i],
         NEW b, \A i \in 1 .. 4 : b[i] \in Byte,
         \A i \in 1 .. PackedLen(n) : b[i] = WritePackedInt(n)[i]
  PROVE  ReadLen(b) = PackedLen(n) /\ ReadPackedInt(b) = n
<1> DEFINE k == PackedLen(n)
           q(i) == n \div Weight[i]
           d(i) == q(i) % Base
<1>1. \A i \in 1 .. 5 : Weight[i] \in Nat \ {0}
  BY WeightType
<1>2. /\ k \in 1 .. 4 /\ ReadLen(b) = k /\ n <= Weight[k + 1]
      /\ \A i \in 1 .. k : b[i] % Base = d(i)
  <2>1. n <= Weight[5]
    BY <1>1
  <2> HIDE DEF Weight
  <2> QED
    BY <2>1, ReadWritten
<1>3. q(k + 1) = 0
  <2>1. n < Weight[k + 1] /\ Weight[k + 1] \in Nat \ {0}
    <3> HIDE DEF Weight, k
    <3>1. k + 1 \in 2 .. 5
      BY <1>2
    <3> QED
      BY <1>1, <1>2, <3>1
  <2> HIDE DEF Weight, k
  <2> DEFINE w == Weight[k + 1]
  <2>2. w * 0 + n = n /\ n \in 0 .. w - 1
    BY <2>1
  <2>3. (w * 0 + n) \div w = 0
    BY <2>1, <2>2, DivUnique
  <2> QED
    BY <2>2, <2>3
<1>4. ASSUME NEW i \in 1 .. 4
      PROVE  /\ Weight[i + 1] = Weight[i] * Base
             /\ q(i) \in Nat /\ q(i + 1) \in Nat /\ d(i) \in Nat
             /\ q(i) = Base * q(i + 1) + d(i)
  <2>1. Weight[i + 1] = Weight[i] * Base
    BY Digits
  <2>2. q(i) \in Nat /\ q(i + 1) \in Nat /\ q(i) = Base * q(i + 1) + d(i)
    BY Digits
  <2>3. d(i) \in 0 .. Base - 1
    BY Digits
  <2>4. d(i) \in Nat
    <3> HIDE DEF d
    <3> QED
      BY <2>3, PackedIntAssumption
  <2> QED
    BY <2>1, <2>2, <2>4
<1>5. q(1) = n /\ Weight[1] = 1 /\ Base \in Nat
  BY WeightType, PackedIntAssumption
<1> DEFINE Digit(i) == IF i <= k THEN d(i) * Weight[i] ELSE 0
<1>6. ReadPackedInt(b) = Digit(1) + Digit(2) + Digit(3) + Digit(4)
  BY <1>2 DEF ReadPackedInt
<1> HIDE DEF k, q, d
<1>7. /\ q(1) = Base * q(2) + d(1) /\ q(2) = Base * q(3) + d(2)
      /\ q(3) = Base * q(4) + d(3) /\ q(4) = Base * q(5) + d(4)
  BY <1>4
<1>8. /\ Weight[2] = Base /\ Weight[3] = Base * Base
      /\ Weight[4] = Base * Base * Base
  BY DEF Weight
<1>9. /\ q(1) \in Nat /\ q(2) \in Nat /\ q(3) \in Nat /\ q(4) \in Nat
      /\ d(1) \in Nat /\ d(2) \in Nat /\ d(3) \in Nat /\ d(4) \in Nat
  BY <1>4
<1>10. ASSUME k = 1 PROVE ReadPackedInt(b) = n
  BY <1>3, <1>5, <1>6, <1>7, <1>8, <1>9, <1>10
<1>11. ASSUME k = 2 PROVE ReadPackedInt(b) = n
  BY <1>3, <1>5, <1>6, <1>7, <1>8, <1>9, <1>11
<1>12. ASSUME k = 3 PROVE ReadPackedInt(b) = n
  BY <1>3, <1>5, <1>6, <1>7, <1>8, <1>9, <1>12
<1>13. ASSUME k = 4 PROVE ReadPackedInt(b) = n
  BY <1>3, <1>5, <1>6, <1>7, <1>8, <1>9, <1>13
<1> QED
  BY <1>2, <1>10, <1>11, <1>12, <1>13 DEF k

(* A power of Base lacks its last digit: it is read back as 0.              *)
THEOREM PowersReadAsZero ==
  ASSUME NEW p \in 2 .. 5, NEW n, n = Weight[p],
         NEW b, \A i \in 1 .. 4 : b[i] \in Byte,
         \A i \in 1 .. PackedLen(n) : b[i] = WritePackedInt(n)[i]
  PROVE  ReadLen(b) = p - 1 /\ ReadPackedInt(b) = 0
<1> DEFINE k == PackedLen(n)
<1>1. /\ \A i \in 1 .. 5 : Weight[i] \in Nat \ {0}
      /\ Weight[1] = 1 /\ Weight[2] = Base * Weight[1] /\ Weight[3] = Base * Weight[2]
      /\ Weight[4] = Base * Weight[3] /\ Weight[5] = Base * Weight[4]
  BY WeightsGrow
<1> HIDE DEF Weight
<1>4. \A i, j \in 1 .. 5 : i < j => Weight[i] < Weight[j]
  BY WeightsGrow
<1>5. n \in Nat /\ n <= Weight[5]
  BY <1>1, <1>4
<1>6. /\ k \in 1 .. 4 /\ ReadLen(b) = k /\ n <= Weight[k + 1]
      /\ \A j \in 1 .. k - 1 : n > Weight[j + 1]
      /\ \A i \in 1 .. k : b[i] % Base = (n \div Weight[i]) % Base
  BY <1>5, ReadWritten
<1> HIDE DEF k
<1>7. k = p - 1
  <2>1. CASE k > p - 1
    <3>1. p - 1 \in 1 .. k - 1
      BY <1>6, <2>1
    <3>2. n > Weight[(p - 1) + 1]
      BY <1>6, <3>1
    <3> QED
      BY <1>5, <3>2
  <2>2. CASE k < p - 1
    BY <1>1, <1>4, <1>6, <2>2
  <2> QED
    BY <1>6, <2>1, <2>2
<1>8. ASSUME NEW i \in 1 .. k
      PROVE  (n \div Weight[i]) % Base = 0
  <2>1. i \in 1 .. 4
    BY <1>6
  <2>2. PICK m \in Nat \ {0} : n = (Base * m) * Weight[i]
    <3>1. \A x, y \in Nat \ {0} : x * y \in Nat \ {0}
      OBVIOUS
    <3>2. Base \in Nat \ {0}
      BY PackedIntAssumption
    <3>3. /\ Base * Base \in Nat \ {0} /\ Base * (Base * Base) \in Nat \ {0}
      BY <3>1, <3>2
    <3>4. CASE p = i + 1
      <4>1. n = (Base * 1) * Weight[i]
        BY <1>1, <2>1, <3>2, <3>4
      <4> QED
        BY <4>1
    <3>5. CASE p = i + 2
      <4>1. n = (Base * Base) * Weight[i]
        BY <1>1, <2>1, <3>2, <3>5
      <4> QED
        BY <3>2, <4>1
    <3>6. CASE p = i + 3
      <4>1. n = (Base * (Base * Base)) * Weight[i]
        BY <1>1, <2>1, <3>2, <3>6
      <4> QED
        BY <3>3, <4>1
    <3>7. CASE p = i + 4
      <4>1. n = (Base * (Base * (Base * Base))) * Weight[i]
        BY <1>1, <2>1, <3>2, <3>7
      <4> QED
        BY <3>3, <4>1
    <3> QED
      BY <1>7, <3>4, <3>5, <3>6, <3>7
  <2> DEFINE w == Weight[i]
             q == Base * m
  <2>3. w \in Nat \ {0} /\ q \in Nat /\ Base \in Nat \ {0}
    BY <1>1, <2>1, PackedIntAssumption
  <2>4. n \div w = q
    <3> HIDE DEF w, q
    <3>1. n = w * q + 0 /\ 0 \in 0 .. w - 1
      BY <2>2, <2>3 DEF w, q
    <3> QED
      BY <2>3, <3>1, DivUnique
  <2>5. q % Base = 0
    <3> DEFINE r == q % Base
    <3>1. q \div Base = m
      <4>1. q = Base * m + 0 /\ 0 \in 0 .. Base - 1
        BY <2>3
      <4> QED
        BY <2>3, <4>1, DivUnique
    <3>2. q = Base * (q \div Base) + r
      BY <2>3, Division
    <3> QED
      BY <2>3, <3>1, <3>2
  <2> QED
    BY <2>4, <2>5
<1> DEFINE Digit(i) == IF i <= k THEN (b[i] % Base) * Weight[i] ELSE 0
<1>9. ReadPackedInt(b) = Digit(1) + Digit(2) + Digit(3) + Digit(4)
  BY <1>6 DEF ReadPackedInt
<1>10. \A i \in 1 .. 4 : Digit(i) = 0
  BY <1>1, <1>6, <1>8
<1> HIDE DEF Digit
<1> QED
  BY <1>6, <1>7, <1>9, <1>10

(* What comes behind the first of five bytes.                               *)
LEMMA TailOfFive ==
  ASSUME NEW S, NEW h \in Seq(S), Len(h) = 5
  PROVE  /\ Tail(h) \in Seq(S) /\ Len(Tail(h)) = 4
         /\ \A i \in 1 .. 4 : Tail(h)[i] = h[i + 1] /\ Tail(h)[i] \in S
<1> DEFINE b == Tail(h)
<1>1. h # <<>>
  OBVIOUS
<1>2. b \in Seq(S) /\ Len(b) = Len(h) - 1 /\ \A i \in 1 .. Len(b) : b[i] = h[i + 1]
  BY <1>1, HeadTailProperties
<1> HIDE DEF b
<1>3. Len(b) = 4 /\ \A i \in 1 .. 4 : b[i] = h[i + 1] /\ b[i] \in S
  BY <1>2, ElementOfSeq
<1> QED
  BY <1>2, <1>3 DEF b

(* What parseHeader finds: two bytes of header if the second is a digit.    *)
LEMMA HeaderType ==
  ASSUME NEW h \in Seq(Byte), Len(h) = 5
  PROVE  /\ ParseHeader(h).length \in Nat
         /\ ParseHeader(h).idx \in 2 .. 5
         /\ h[2] < Base => ParseHeader(h).length = h[2] /\ ParseHeader(h).idx = 2
<1> DEFINE b == Tail(h)
<1>1. b \in Seq(Byte) /\ Len(b) = 4 /\ b[1] = h[2]
  BY TailOfFive
<1>2. /\ ReadLen(b) \in 1 .. 5
      /\ ReadPackedInt(b) \in Nat
      /\ b[1] < Base => ReadLen(b) = 1 /\ ReadPackedInt(b) = b[1]
  <2> HIDE DEF b
  <2> QED
    BY <1>1, ElementOfSeq, ReadType
<1>3. ParseHeader(h) = IF ReadLen(b) = 5 THEN [length |-> 0, idx |-> 5]
                       ELSE [length |-> ReadPackedInt(b), idx |-> ReadLen(b) + 1]
  BY DEF ParseHeader
<1> HIDE DEF b
<1> QED
  BY <1>1, <1>2, <1>3

-----------------------------------------------------------------------------
(* The fixed header. *)

(* A packet is made of bytes: one, those of its length, and the rest.       *)
LEMMA PacketType ==
  ASSUME NEW b0 \in Byte, NEW rest \in Seq(Byte)
  PROVE  /\ Packet(b0, rest) \in Seq(Byte)
         /\ Len(Packet(b0, rest)) = 1 + PackedLen(Len(rest)) + Len(rest)
         /\ Packet(b0, rest)[1] = b0
         /\ \A i \in 1 .. PackedLen(Len(rest)) :
              Packet(b0, rest)[1 + i] = WritePackedInt(Len(rest))[i]
         /\ \A i \in 1 .. Len(rest) :
              Packet(b0, rest)[1 + PackedLen(Len(rest)) + i] = rest[i]
<1> DEFINE p == WritePackedInt(Len(rest))
<1>1. PackedLen(Len(rest)) \in Nat
  BY PackedLenType
<1>2. p \in Seq(Byte)
  BY WriteType
<1>3. Len(p) = PackedLen(Len(rest))
  BY <1>1 DEF WritePackedInt
<1> HIDE DEF p
<1>4. Packet(b0, rest) = <<b0>> \o p \o rest
  BY DEF Packet, p
<1> QED
  BY <1>1, <1>2, <1>3, <1>4 DEF p

(* parseHeader, given a header with all its bytes, finds the length of the  *)
(* packet and where it begins: what goes wrong with long packets is that    *)
(* the read loop gives it two bytes of the packet.                          *)
THEOREM HeaderRoundTrip ==
  ASSUME NEW b0 \in Byte, NEW rest \in Seq(Byte),
         Len(rest) < Weight[5], \A i \in 2 .. 4 : Len(rest) # Weight[i],
         NEW h \in Seq(Byte), Len(h) = 5,
         \A i \in 1 .. PackedLen(Len(rest)) + 1 : h[i] = Packet(b0, rest)[i]
  PROVE  ParseHeader(h) = [length |-> Len(rest), idx |-> PackedLen(Len(rest)) + 1]
<1> DEFINE n == Len(rest)
           b == Tail(h)
<1>1. b \in Seq(Byte) /\ Len(b) = 4 /\ \A i \in 1 .. 4 : b[i] = h[i + 1] /\ b[i] \in Byte
  BY TailOfFive
<1>2. n \in Nat /\ \A i \in 1 .. 5 : Weight[i] \in Nat
  BY WeightType
<1>3. PackedLen(n) \in 1 .. 4
  <2> HIDE DEF Weight
  <2> QED
    BY <1>2, PackedLenBound
<1> DEFINE k == PackedLen(n)
           m == Packet(b0, rest)
           w == WritePackedInt(n)
<1>4. \A i \in 1 .. k : m[1 + i] = w[i]
  BY PacketType
<1> HIDE DEF b, n, k, m, w
<1>5. \A i \in 1 .. k : b[i] = w[i]
  <2> TAKE i \in 1 .. k
  <2>1. i \in 1 .. 4 /\ i + 1 \in 1 .. k + 1 /\ i + 1 = 1 + i
    BY <1>3 DEF k
  <2>2. h[i + 1] = m[i + 1]
    BY <2>1 DEF k, m, n
  <2> QED
    BY <1>1, <1>4, <2>1, <2>2
<1>6. ReadLen(b) = PackedLen(n) /\ ReadPackedInt(b) = n
  <2> HIDE DEF Weight
  <2> SUFFICES /\ n < Weight[5] /\ \A i \in 2 .. 4 : n # Weight[i]
               /\ \A i \in 1 .. 4 : b[i] \in Byte
               /\ \A i \in 1 .. PackedLen(n) : b[i] = WritePackedInt(n)[i]
    BY <1>2, RoundTrip
  <2> QED
    BY <1>1, <1>5 DEF n, k, w
<1> QED
  BY <1>3, <1>6 DEF ParseHeader, n, b

(* The length that parseMessage reads from a byte: the byte if it has no    *)
(* top bit, and nearly the largest there is if it has.                      *)
LEMMA LengthOfByte ==
  ASSUME NEW x \in Byte
  PROVE  /\ x < Base => /\ ReadLen(LengthWord(x)) = 1
                        /\ ReadPackedInt(LengthWord(x)) = x
         /\ x >= Base => /\ ReadLen(LengthWord(x)) = 5
                         /\ ReadPackedInt(LengthWord(x)) = (x % Base) + Weight[5] - Base
<1> DEFINE b == LengthWord(x)
           c == IF More(x) THEN 2 * Base - 1 ELSE 0
<1>1. Base \in Nat /\ Base \in Nat \ {0} /\ Base > 1
  BY PackedIntAssumption
<1>2. x \in Nat /\ c \in Byte /\ (x >= Base => c = 2 * Base - 1)
  BY <1>1 DEF Byte, More
<1>3. b[1] = x /\ b[2] = c /\ b[3] = c /\ b[4] = c
  BY DEF LengthWord
<1> HIDE DEF b, c
<1>4. \A i \in 1 .. 4 : b[i] \in Byte
  BY <1>2, <1>3
<1>5. ASSUME x < Base PROVE ReadLen(b) = 1 /\ ReadPackedInt(b) = x
  BY <1>3, <1>4, <1>5, ReadType
<1>6. ASSUME x >= Base
      PROVE  ReadLen(b) = 5 /\ ReadPackedInt(b) = (x % Base) + Weight[5] - Base
  <2>1. c >= Base /\ c = Base * 1 + (Base - 1) /\ Base - 1 \in 0 .. Base - 1
    BY <1>1, <1>2, <1>6
  <2>2. c % Base = Base - 1
    <3>1. c \div Base = 1
      BY <1>1, <2>1, DivUnique
    <3>2. c = Base * (c \div Base) + (c % Base) /\ c % Base \in 0 .. Base - 1
      BY <1>1, <2>1, Division
    <3> QED
      BY <1>1, <2>1, <3>1, <3>2
  <2>3. \A i \in 1 .. 4 : More(b[i])
    BY <1>3, <1>6, <2>1 DEF More
  <2>4. ReadLen(b) = 5
    <3> DEFINE P(i) == (i = 5 \/ ~More(b[i])) /\ \A j \in 1 .. i - 1 : More(b[j])
    <3>1. P(5) /\ \A i \in 1 .. 5 : P(i) => i = 5
      BY <2>3
    <3>2. ReadLen(b) = CHOOSE i \in 1 .. 5 : P(i)
      BY DEF ReadLen
    <3> HIDE DEF P
    <3> QED
      BY <3>1, <3>2
  <2> DEFINE Digit(i) == IF i <= ReadLen(b) THEN (b[i] % Base) * Weight[i] ELSE 0
  <2>5. ReadPackedInt(b) = Digit(1) + Digit(2) + Digit(3) + Digit(4)
    BY DEF ReadPackedInt
  <2>6. /\ Digit(1) = x % Base /\ Digit(2) = (Base - 1) * Weight[2]
        /\ Digit(3) = (Base - 1) * Weight[3] /\ Digit(4) = (Base - 1) * Weight[4]
    <3>1. Weight[1] = 1 /\ x % Base \in Nat
      BY <1>1, <1>2, WeightType
    <3> HIDE DEF Weight
    <3> QED
      BY <1>3, <2>2, <2>4, <3>1
  <2>7. /\ (Base - 1) * Weight[2] = Weight[3] - Weight[2]
        /\ (Base - 1) * Weight[3] = Weight[4] - Weight[3]
        /\ (Base - 1) * Weight[4] = Weight[5] - Weight[4]
        /\ Weight[2] = Base
    <3>1. \A y \in Nat : (Base - 1) * y = Base * y - y
      BY <1>1
    <3> HIDE DEF Weight
    <3> QED
      BY <1>1, <3>1, WeightsGrow
  <2> HIDE DEF Weight, Digit
  <2> QED
    BY <1>1, <1>2, <2>4, <2>5, <2>6, <2>7, WeightsGrow
<1> QED
  BY <1>5, <1>6 DEF b

(* parseMessage accepts those packets, and only those, whose length is a    *)
(* single digit: up to 127 bytes.                                           *)
THEOREM ValidMeansOneDigit ==
  ASSUME NEW b0 \in Byte, NEW rest \in Seq(Byte), Len(rest) <= Weight[5]
  PROVE  Valid(Packet(b0, rest)) <=> Len(rest) < Base
<1> DEFINE n == Len(rest)
           m == Packet(b0, rest)
           k == PackedLen(n)
           d == n % Base
<1>1. /\ Base \in Nat /\ Base \in Nat \ {0} /\ Base > 1
      /\ n \in Nat /\ d \in 0 .. Base - 1
  BY PackedIntAssumption
<1>2. k \in 1 .. 4 /\ n <= Weight[k + 1]
  <2> HIDE DEF Weight
  <2> QED
    BY <1>1, PackedLenBound
<1>9. n <= Weight[5]
  OBVIOUS
<1> HIDE DEF n, k, d
<1>3. /\ m \in Seq(Byte) /\ Len(m) = 1 + k + n /\ m[2] = WritePackedInt(n)[1]
  <2>1. /\ m \in Seq(Byte) /\ Len(m) = 1 + k + n
        /\ \A i \in 1 .. k : m[1 + i] = WritePackedInt(n)[i]
    BY PacketType DEF n, k
  <2> HIDE DEF m
  <2> QED
    BY <1>2, <2>1
<1> HIDE DEF m
<1>4. m[2] \in Byte /\ m[2] = d + (IF 1 < k THEN Base ELSE 0)
  <2>1. n \div Weight[1] = n
    BY <1>1, WeightType
  <2>2. WritePackedInt(n)[1] = ((n \div Weight[1]) % Base) + (IF 1 < k THEN Base ELSE 0)
    BY <1>2 DEF WritePackedInt, k
  <2>3. m[2] = d + (IF 1 < k THEN Base ELSE 0)
    BY <1>3, <2>1, <2>2 DEF d
  <2> QED
    BY <1>1, <2>3 DEF Byte
<1>5. Valid(m) <=> ReadLen(LengthWord(m[2])) + 1 + ReadPackedInt(LengthWord(m[2])) = Len(m)
  BY <1>1, <1>2, <1>3 DEF Valid
<1>6. Weight[2] = Base /\ Weight[5] \in Nat /\ Weight[5] = Base * Weight[4] /\ Weight[4] \in Nat
  BY <1>1, WeightsGrow
<1>7. ASSUME k = 1 PROVE Valid(m) <=> n < Base
  <2>1. m[2] = d /\ d < Base /\ n <= Base
    BY <1>1, <1>2, <1>4, <1>6, <1>7
  <2>2. Valid(m) <=> 2 + d = 2 + n
    BY <1>1, <1>3, <1>4, <1>5, <1>7, <2>1, LengthOfByte
  <2>3. CASE n < Base
    BY <1>1, <2>2, <2>3 DEF d
  <2>4. CASE n = Base
    BY <1>1, <2>1, <2>2, <2>4
  <2> QED
    BY <1>1, <2>1, <2>3, <2>4
<1>8. ASSUME k > 1 PROVE ~Valid(m) /\ ~(n < Base)
  <2>1. ~(n < Base)
    BY <1>1, <1>8, PackedLenType DEF k
  <2>2. m[2] = d + Base /\ m[2] >= Base /\ m[2] % Base = d
    <3>1. m[2] = Base * 1 + d
      BY <1>1, <1>4, <1>8
    <3>2. m[2] \div Base = 1
      BY <1>1, <3>1, DivUnique
    <3>3. m[2] \in Nat
      BY <1>1, <3>1
    <3>4. m[2] = Base * (m[2] \div Base) + (m[2] % Base)
          /\ m[2] % Base \in 0 .. Base - 1
      BY <1>1, <3>3, Division
    <3> QED
      BY <1>1, <3>1, <3>2, <3>3, <3>4
  <2>3. Valid(m) <=> 5 + 1 + (d + Weight[5] - Base) = 1 + k + n
    BY <1>3, <1>4, <1>5, <2>2, LengthOfByte
  <2>4. ASSUME Valid(m) PROVE FALSE
    <3> DEFINE q == n \div Base
               w == Weight[4]
    <3>1. q \in Nat /\ n = Base * q + d
      BY <1>1, Division DEF d
    <3> HIDE DEF q, w
    <3>2. w \in Nat /\ Weight[5] = Base * w
      BY <1>6 DEF w
    <3>3. Base * (q + 1 - w) = 5 - k
      <4>1. 5 + 1 + (d + Base * w - Base) = 1 + k + (Base * q + d)
        BY <2>3, <2>4, <3>1, <3>2
      <4>2. Base * w \in Nat /\ Base * q \in Nat /\ Base * (q + 1 - w) = Base * q + Base - Base * w
        BY <1>1, <3>1, <3>2
      <4> QED
        BY <1>1, <1>2, <4>1, <4>2
    <3>4. q + 1 - w >= 1
      <4>1. ASSUME q + 1 - w <= 0 PROVE Base * (q + 1 - w) <= 0
        BY <1>1, <3>1, <3>2, <4>1
      <4> QED
        BY <1>2, <3>1, <3>2, <3>3, <4>1
    <3>5. Base * q >= Base * w
      BY <1>1, <3>1, <3>2, <3>4
    <3>6. n = Weight[5] /\ q = w
      <4>1. n >= Weight[5] /\ n <= Weight[5]
        BY <1>1, <1>6, <1>9, <3>1, <3>2, <3>5
      <4>2. ASSUME q > w PROVE Base * q >= Base * w + Base
        BY <1>1, <3>1, <3>2, <4>2
      <4>3. Base * q \in Nat /\ Base * w \in Nat
        BY <1>1, <3>1, <3>2
      <4>4. ~(q > w)
        BY <1>1, <3>1, <3>2, <4>1, <4>2, <4>3
      <4> QED
        BY <1>1, <1>6, <3>1, <3>2, <3>4, <4>1, <4>4
    <3>7. Base * 1 = 5 - k
      BY <3>1, <3>2, <3>3, <3>6
    <3>8. k + 1 \in 1 .. 4
      BY <1>1, <1>2, <3>7
    <3>9. Weight[k + 1] < Weight[5] /\ Weight[k + 1] \in Nat
      BY <3>8, WeightsGrow
    <3> QED
      BY <1>2, <1>6, <3>6, <3>9
  <2> QED
    BY <2>1, <2>4
<1> QED
  BY <1>2, <1>7, <1>8 DEF n, m
=============================================================================
