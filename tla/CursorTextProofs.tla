--------------------------- MODULE CursorTextProofs ---------------------------
(***************************************************************************)
(* Theorems about CursorText, for cursors of any length, lists of tools    *)
(* and keys, and any number of edits.                                      *)
(***************************************************************************)
EXTENDS CursorText, ListTheorems

(* Three bytes and the four characters they make. *)
First(c0, c1) == c0 * 4 + c1 \div 16
Second(c1, c2) == (c1 % 16) * 16 + c2 \div 4
Third(c2, c3) == (c2 % 4) * 64 + c3

Char == 0..63

(* A number is four times a quotient and a remainder, and so is any text.  *)
LEMMA InUnits ==
  ASSUME NEW n \in Nat
  PROVE  \E q \in Nat, k \in 0..3 : n = 4 * q + k
<1>1. n \div 4 \in Nat /\ n % 4 \in 0..3 /\ n = 4 * (n \div 4) + (n % 4)
  BY SMT
<1> QED BY <1>1

LEMMA UnitChars ==
  ASSUME NEW a \in Byte, NEW b \in Byte, NEW c \in Byte,
         NEW n, n = a * 65536 + b * 256 + c
  PROVE  /\ (n \div 262144) % 64 = a \div 4
         /\ (n \div 4096) % 64 = (a % 4) * 16 + b \div 16
         /\ (n \div 64) % 64 = (b % 16) * 4 + c \div 64
         /\ (n \div 1) % 64 = c % 64
<1>1. a \in 0..255 /\ b \in 0..255 /\ c \in 0..255 /\ n \in Nat
  BY DEF Byte
<1>2. n \div 262144 = a \div 4 /\ (a \div 4) % 64 = a \div 4
  BY <1>1, SMT
<1>3. n \div 4096 = a * 16 + b \div 16 /\ (a * 16 + b \div 16) % 64 = (a % 4) * 16 + b \div 16
  BY <1>1, SMT
<1>4. n \div 64 = a * 1024 + b * 4 + c \div 64
      /\ (a * 1024 + b * 4 + c \div 64) % 64 = (b % 16) * 4 + c \div 64
  BY <1>1, SMT
<1>5. (n \div 1) % 64 = c % 64
  BY <1>1, SMT
<1> QED BY <1>2, <1>3, <1>4, <1>5

(* What characters are made of bytes, and bytes of these characters.       *)
LEMMA BytesReturn ==
  ASSUME NEW a \in Byte, NEW b \in Byte, NEW c \in Byte
  PROVE  /\ First(a \div 4, (a % 4) * 16 + b \div 16) = a
         /\ Second((a % 4) * 16 + b \div 16, (b % 16) * 4 + c \div 64) = b
         /\ Third((b % 16) * 4 + c \div 64, c % 64) = c
         /\ {a \div 4, (a % 4) * 16 + b \div 16, (b % 16) * 4 + c \div 64, c % 64} \subseteq Char
         /\ ((a % 4) * 16 + 0 \div 16) % 16 = 0
         /\ ((b % 16) * 4 + 0 \div 64) % 4 = 0
<1>1. a \in 0..255 /\ b \in 0..255 /\ c \in 0..255
  BY DEF Byte
<1>2. /\ First(a \div 4, (a % 4) * 16 + b \div 16) = a
      /\ Second((a % 4) * 16 + b \div 16, (b % 16) * 4 + c \div 64) = b
      /\ Third((b % 16) * 4 + c \div 64, c % 64) = c
  BY <1>1, SMT DEF First, Second, Third
<1>3. {a \div 4, (a % 4) * 16 + b \div 16, (b % 16) * 4 + c \div 64, c % 64} \subseteq Char
  BY <1>1, SMT DEF Char
<1>4. ((a % 4) * 16 + 0 \div 16) % 16 = 0 /\ ((b % 16) * 4 + 0 \div 64) % 4 = 0
  BY <1>1, SMT
<1> QED BY <1>2, <1>3, <1>4

LEMMA CharsReturn ==
  ASSUME NEW c0 \in Char, NEW c1 \in Char, NEW c2 \in Char, NEW c3 \in Char
  PROVE  /\ First(c0, c1) \in Byte /\ Second(c1, c2) \in Byte /\ Third(c2, c3) \in Byte
         /\ First(c0, c1) \div 4 = c0
         /\ (First(c0, c1) % 4) * 16 + Second(c1, c2) \div 16 = c1
         /\ (Second(c1, c2) % 16) * 4 + Third(c2, c3) \div 64 = c2
         /\ Third(c2, c3) % 64 = c3
         /\ c1 % 16 = 0 => (First(c0, c1) % 4) * 16 + 0 \div 16 = c1
         /\ c2 % 4 = 0 => (Second(c1, c2) % 16) * 4 + 0 \div 64 = c2
<1>1. c0 \in 0..63 /\ c1 \in 0..63 /\ c2 \in 0..63 /\ c3 \in 0..63
  BY DEF Char
<1>2. First(c0, c1) \in Byte /\ Second(c1, c2) \in Byte /\ Third(c2, c3) \in Byte
  BY <1>1, SMT DEF First, Second, Third, Byte
<1>3. First(c0, c1) \div 4 = c0 /\ Third(c2, c3) % 64 = c3
  BY <1>1, SMT DEF First, Third
<1>4. (First(c0, c1) % 4) * 16 + Second(c1, c2) \div 16 = c1
  BY <1>1, SMT DEF First, Second
<1>5. (Second(c1, c2) % 16) * 4 + Third(c2, c3) \div 64 = c2
  BY <1>1, SMT DEF Second, Third
<1>6. /\ c1 % 16 = 0 => (First(c0, c1) % 4) * 16 + 0 \div 16 = c1
      /\ c2 % 4 = 0 => (Second(c1, c2) % 16) * 4 + 0 \div 64 = c2
  BY <1>1, SMT DEF First, Second
<1> QED BY <1>2, <1>3, <1>4, <1>5, <1>6

(* The low bits of the accumulator are those of the last two characters,   *)
(* however much of it has been shifted out.                                *)
LEMMA LowBits ==
  ASSUME NEW a \in Nat, NEW c \in Char, NEW x, x = (a * 64 + c) % AccSize
  PROVE  /\ x \in Nat
         /\ x % 64 = c
         /\ (x \div 16) % 256 = First(a % 64, c)
         /\ (x \div 4) % 256 = Second(a % 64, c)
         /\ (x \div 1) % 256 = Third(a % 64, c)
<1>1. AccSize \in Nat \ {0} /\ AccSize % 4096 = 0 /\ c \in 0..63
  BY AccAssumption DEF Char
<1>2. PICK m \in Int : AccSize = 4096 * m
  <2>1. AccSize = 4096 * (AccSize \div 4096) /\ AccSize \div 4096 \in Int
    BY <1>1, SMT
  <2> QED BY <2>1
<1>3. PICK y \in Int : a * 64 + c = AccSize * y + x /\ x \in Nat
  <2>1. a * 64 + c \in Int
    BY <1>1
  <2>2. \A n \in Int, d \in Nat \ {0} : n = d * (n \div d) + (n % d) /\ n \div d \in Int /\ n % d \in Nat
    BY SMT
  <2> DEFINE n == a * 64 + c
             y == n \div AccSize
  <2>3. n = AccSize * y + (n % AccSize) /\ y \in Int /\ n % AccSize \in Nat
    BY <1>1, <2>1, <2>2
  <2>4. a * 64 + c = AccSize * y + x /\ x \in Nat /\ y \in Int
    BY <2>3
  <2> HIDE DEF y
  <2> QED BY <2>4
<1>4. PICK z \in Int : AccSize * y = 4096 * z
  <2>1. m * y \in Int /\ AccSize * y = 4096 * (m * y)
    BY <1>2, <1>3, SMT
  <2> QED BY <2>1
<1>5. a * 64 + c = 4096 * z + x
  BY <1>3, <1>4
<1>6. PICK w \in Int, s \in 0..63 : a = 64 * w + s /\ s = a % 64
  <2>1. a = 64 * (a \div 64) + (a % 64) /\ a \div 64 \in Int /\ a % 64 \in 0..63
    BY SMT
  <2> QED BY <2>1
<1>7. PICK v \in Int : x = 4096 * v + 64 * s + c
  <2> DEFINE v == w - z
  <2>1. x = 4096 * v + 64 * s + c /\ v \in Int
    BY <1>1, <1>3, <1>5, <1>6
  <2> HIDE DEF v
  <2> QED BY <2>1
<1>8. x % 64 = c
  BY <1>1, <1>6, <1>7, SMT
<1>9. (x \div 16) % 256 = s * 4 + c \div 16
  <2>1. x \div 16 = 256 * v + (4 * s + c \div 16)
    BY <1>1, <1>6, <1>7, SMT
  <2> QED BY <1>1, <1>6, <2>1, SMT
<1>10. (x \div 4) % 256 = (s % 16) * 16 + c \div 4
  <2>1. x \div 4 = 1024 * v + 16 * s + c \div 4
    BY <1>1, <1>6, <1>7, SMT
  <2> QED BY <1>1, <1>6, <2>1, SMT
<1>11. (x \div 1) % 256 = (s % 4) * 64 + c
  <2>1. x \div 1 = x
    BY <1>3, SMT
  <2> QED BY <1>1, <1>6, <1>7, <2>1, SMT
<1> QED BY <1>3, <1>6, <1>8, <1>9, <1>10, <1>11 DEF First, Second, Third

-----------------------------------------------------------------------------
(* Character i of unit u of what bytes R are encoded to. *)

EncodedChar(R, u, k) ==
  LET a == At(R, 3 * u + 1)
      b == At(R, 3 * u + 2)
      c == At(R, 3 * u + 3)
  IN  IF k = 0 THEN a \div 4
      ELSE IF k = 1 THEN (a % 4) * 16 + b \div 16
      ELSE IF k = 2 THEN (b % 16) * 4 + c \div 64
      ELSE c % 64

LEMMA AtIsByte ==
  ASSUME NEW R \in Seq(Byte), NEW i \in Nat \ {0}
  PROVE  At(R, i) \in Byte
<1>1. CASE i <= Len(R)
  BY <1>1 DEF At
<1>2. CASE ~ (i <= Len(R))
  BY <1>2 DEF At, Byte
<1> QED BY <1>1, <1>2

LEMMA EncodedLength ==
  ASSUME NEW n \in Nat
  PROVE  /\ EncodedLen(n) \in Nat
         /\ EncodedLen(n) % 4 # 1
         /\ (6 * EncodedLen(n)) \div 8 = n
         /\ \A m \in Nat : m % 4 # 1 /\ (6 * m) \div 8 = n => EncodedLen(n) = m
<1>1. PICK q \in Nat, r \in 0..2 : n = 3 * q + r
  <2> DEFINE q == n \div 3
             r == n % 3
  <2>1. q \in Nat /\ r \in 0..2 /\ n = 3 * q + r
    BY SMT
  <2> HIDE DEF q, r
  <2> QED BY <2>1
<1>2. EncodedLen(n) = 4 * q + (IF r = 0 THEN 0 ELSE r + 1)
  <2>1. n \div 3 = q /\ n % 3 = r
    BY <1>1, SMT
  <2> QED BY <2>1 DEF EncodedLen
<1>3. EncodedLen(n) \in Nat /\ EncodedLen(n) % 4 # 1 /\ (6 * EncodedLen(n)) \div 8 = n
  BY <1>1, <1>2, SMT
<1>4. ASSUME NEW m \in Nat, m % 4 # 1, (6 * m) \div 8 = n PROVE EncodedLen(n) = m
  BY <1>1, <1>2, <1>4, SMT
<1> QED BY <1>3, <1>4

LEMMA EncodeChars ==
  ASSUME NEW R \in Seq(Byte)
  PROVE  /\ Encode(R) \in Seq(Char)
         /\ Len(Encode(R)) = EncodedLen(Len(R))
         /\ \A u \in Nat, k \in 0..3 : 4 * u + k + 1 <= EncodedLen(Len(R)) =>
              Encode(R)[4 * u + k + 1] = EncodedChar(R, u, k)
<1> DEFINE n == EncodedLen(Len(R))
           e(i) == (Unit(R, (i - 1) \div 4) \div Shift[((i - 1) % 4) + 1]) % 64
<1>1. n \in Nat
  BY EncodedLength
<1>2. ASSUME NEW u \in Nat, NEW k \in 0..3
      PROVE  e(4 * u + k + 1) = EncodedChar(R, u, k) /\ EncodedChar(R, u, k) \in Char
  <2>1. (4 * u + k + 1) - 1 = 4 * u + k /\ (4 * u + k) \div 4 = u /\ (4 * u + k) % 4 = k
    BY SMT
  <2>2. e(4 * u + k + 1) = (Unit(R, u) \div Shift[k + 1]) % 64
    BY <2>1
  <2>3. At(R, 3 * u + 1) \in Byte /\ At(R, 3 * u + 2) \in Byte /\ At(R, 3 * u + 3) \in Byte
    BY AtIsByte
  <2> HIDE DEF e
  <2>4. /\ (Unit(R, u) \div 262144) % 64 = EncodedChar(R, u, 0)
        /\ (Unit(R, u) \div 4096) % 64 = EncodedChar(R, u, 1)
        /\ (Unit(R, u) \div 64) % 64 = EncodedChar(R, u, 2)
        /\ (Unit(R, u) \div 1) % 64 = EncodedChar(R, u, 3)
    BY <2>3, UnitChars DEF Unit, EncodedChar
  <2>5. EncodedChar(R, u, k) \in Char
    BY <2>3, BytesReturn DEF EncodedChar
  <2>6. Shift[0 + 1] = 262144 /\ Shift[1 + 1] = 4096 /\ Shift[2 + 1] = 64 /\ Shift[3 + 1] = 1
    BY DEF Shift
  <2>7. k = 0 \/ k = 1 \/ k = 2 \/ k = 3
    OBVIOUS
  <2> QED BY <2>2, <2>4, <2>5, <2>6, <2>7
<1>3. ASSUME NEW i \in 1..n
      PROVE  \E u \in Nat, k \in 0..3 : i = 4 * u + k + 1
  <2>1. i - 1 \in Nat
    OBVIOUS
  <2>2. PICK u \in Nat, k \in 0..3 : i - 1 = 4 * u + k
    BY <2>1, InUnits
  <2>3. i = 4 * u + k + 1
    BY <2>2
  <2> QED BY <2>3
<1>4. Encode(R) = [i \in 1..n |-> e(i)]
  BY Zenon DEF Encode
<1> HIDE DEF e
<1>5. ASSUME NEW i \in 1..n PROVE e(i) \in Char
  <2>1. PICK u \in Nat, k \in 0..3 : i = 4 * u + k + 1
    BY <1>3
  <2>2. e(4 * u + k + 1) \in Char
    BY <1>2
  <2> QED BY <2>1, <2>2
<1>6. Encode(R) \in [1..n -> Char]
  BY <1>4, <1>5
<1>7. Encode(R) \in Seq(Char) /\ Len(Encode(R)) = n
  BY <1>1, <1>6
<1>8. ASSUME NEW u \in Nat, NEW k \in 0..3, 4 * u + k + 1 <= n
      PROVE  Encode(R)[4 * u + k + 1] = EncodedChar(R, u, k)
  <2>1. 4 * u + k + 1 \in 1..n
    BY <1>1, <1>8
  <2> QED BY <1>2, <1>4, <2>1
<1> QED BY <1>7, <1>8

(* Byte j of what a text is decoded to. *)
DecodedByte(t, u, r) ==
  IF r = 0 THEN First(t[4 * u + 1], t[4 * u + 2])
  ELSE IF r = 1 THEN Second(t[4 * u + 2], t[4 * u + 3])
  ELSE Third(t[4 * u + 3], t[4 * u + 4])

(* r is what the first p characters of t are decoded to. *)
Decodes(t, p, R) ==
  /\ R \in Seq(Byte)
  /\ Len(R) = (6 * p) \div 8
  /\ \A u \in Nat, k \in 0..2 : 3 * u + k + 1 <= Len(R) => R[3 * u + k + 1] = DecodedByte(t, u, k)

LEMMA InTriples ==
  ASSUME NEW n \in Nat
  PROVE  \E q \in Nat, k \in 0..2 : n = 3 * q + k
<1> DEFINE q == n \div 3
           k == n % 3
<1>1. q \in Nat /\ k \in 0..2 /\ n = 3 * q + k
  BY SMT
<1> HIDE DEF q, k
<1> QED BY <1>1

(* What was encoded decodes to what it was.                                *)
LEMMA DecodeEncode ==
  ASSUME NEW R \in Seq(Byte), NEW S, Decodes(Encode(R), Len(Encode(R)), S)
  PROVE  S = R
<1> DEFINE t == Encode(R)
           n == Len(R)
<1>1. n \in Nat /\ Len(t) = EncodedLen(n) /\ (6 * Len(t)) \div 8 = n
  <2>1. n \in Nat /\ Len(t) = EncodedLen(n)
    BY EncodeChars
  <2>2. (6 * EncodedLen(n)) \div 8 = n
    BY <2>1, EncodedLength
  <2> QED BY <2>1, <2>2
<1>2. S \in Seq(Byte) /\ Len(S) = n
  BY <1>1 DEF Decodes
<1>3. ASSUME NEW i \in 1..n PROVE S[i] = R[i]
  <2>1. PICK u \in Nat, k \in 0..2 : i - 1 = 3 * u + k
    <3>1. i - 1 \in Nat
      OBVIOUS
    <3> QED BY <3>1, InTriples
  <2>2. i = 3 * u + k + 1 /\ i <= n
    BY <1>1, <2>1
  <2>3. S[i] = DecodedByte(t, u, k)
    BY <1>2, <2>2 DEF Decodes
  <2>4. 4 * u + k + 2 <= Len(t)
    <3>1. Len(t) \in Nat
      BY <1>1, EncodedLength
    <3> HIDE DEF t, n
    <3> QED BY <1>1, <2>2, <3>1, SMT
  <2>5. \A j \in 0..3 : 4 * u + j + 1 <= Len(t) => t[4 * u + j + 1] = EncodedChar(R, u, j)
    BY <1>1, EncodeChars
  <2> DEFINE a == At(R, 3 * u + 1)
             b == At(R, 3 * u + 2)
             c == At(R, 3 * u + 3)
  <2>6. a \in Byte /\ b \in Byte /\ c \in Byte
    BY AtIsByte
  <2>7. /\ EncodedChar(R, u, 0) = a \div 4
        /\ EncodedChar(R, u, 1) = (a % 4) * 16 + b \div 16
        /\ EncodedChar(R, u, 2) = (b % 16) * 4 + c \div 64
        /\ EncodedChar(R, u, 3) = c % 64
    BY DEF EncodedChar
  <2>8. R[i] = At(R, 3 * u + k + 1)
    BY <2>2 DEF At
  <2>9. CASE k = 0
    <3>1. t[4 * u + 1] = EncodedChar(R, u, 0) /\ t[4 * u + 2] = EncodedChar(R, u, 1)
      <4>1. 4 * u + 0 + 1 = 4 * u + 1 /\ 4 * u + 1 + 1 = 4 * u + 2
            /\ 4 * u + 1 <= Len(t) /\ 4 * u + 2 <= Len(t)
        BY <1>1, <2>4, <2>9, EncodedLength
      <4> QED BY <2>5, <4>1
    <3>2. S[i] = First(a \div 4, (a % 4) * 16 + b \div 16)
      BY <2>3, <2>7, <2>9, <3>1 DEF DecodedByte
    <3>3. R[i] = a
      BY <2>8, <2>9
    <3> HIDE DEF a, b, c
    <3> QED BY <2>6, <3>2, <3>3, BytesReturn
  <2>10. CASE k = 1
    <3>1. t[4 * u + 2] = EncodedChar(R, u, 1) /\ t[4 * u + 3] = EncodedChar(R, u, 2)
      <4>1. 4 * u + 1 + 1 = 4 * u + 2 /\ 4 * u + 2 + 1 = 4 * u + 3
            /\ 4 * u + 2 <= Len(t) /\ 4 * u + 3 <= Len(t)
        BY <1>1, <2>4, <2>10, EncodedLength
      <4> QED BY <2>5, <4>1
    <3>2. S[i] = Second((a % 4) * 16 + b \div 16, (b % 16) * 4 + c \div 64)
      BY <2>3, <2>7, <2>10, <3>1 DEF DecodedByte
    <3>3. R[i] = b
      BY <2>8, <2>10
    <3> HIDE DEF a, b, c
    <3> QED BY <2>6, <3>2, <3>3, BytesReturn
  <2>11. CASE k = 2
    <3>1. t[4 * u + 3] = EncodedChar(R, u, 2) /\ t[4 * u + 4] = EncodedChar(R, u, 3)
      <4>1. 4 * u + 2 + 1 = 4 * u + 3 /\ 4 * u + 3 + 1 = 4 * u + 4
            /\ 4 * u + 3 <= Len(t) /\ 4 * u + 4 <= Len(t)
        BY <1>1, <2>4, <2>11, EncodedLength
      <4> QED BY <2>5, <4>1
    <3>2. S[i] = Third((b % 16) * 4 + c \div 64, c % 64)
      BY <2>3, <2>7, <2>11, <3>1 DEF DecodedByte
    <3>3. R[i] = c
      BY <2>8, <2>11
    <3> HIDE DEF a, b, c
    <3> QED BY <2>6, <3>2, <3>3, BytesReturn
  <2> QED BY <2>9, <2>10, <2>11
<1> QED BY <1>2, <1>3, SeqEqual

(* The bits that are left over behind p characters. *)
LeftOver(t, p) ==
  IF p % 4 = 2 THEN t[p] % 16 ELSE IF p % 4 = 3 THEN t[p] % 4 ELSE 0

(* Nothing is left over behind what was encoded.                           *)
LEMMA EncodedEnds ==
  ASSUME NEW R \in Seq(Byte)
  PROVE  LeftOver(Encode(R), Len(Encode(R))) = 0
<1> DEFINE t == Encode(R)
           m == Len(t)
           n == Len(R)
<1>1. n \in Nat /\ m = EncodedLen(n) /\ m \in Nat /\ (6 * m) \div 8 = n
  <2>1. n \in Nat /\ m = EncodedLen(n)
    BY EncodeChars
  <2>2. (6 * EncodedLen(n)) \div 8 = n /\ EncodedLen(n) \in Nat
    BY <2>1, EncodedLength
  <2> QED BY <2>1, <2>2
<1>2. PICK q \in Nat, k \in 0..3 : m = 4 * q + k
  BY <1>1, InUnits
<1>3. \A u \in Nat, j \in 0..3 : 4 * u + j + 1 <= m => t[4 * u + j + 1] = EncodedChar(R, u, j)
  BY <1>1, EncodeChars
<1> DEFINE a == At(R, 3 * q + 1)
           b == At(R, 3 * q + 2)
           c == At(R, 3 * q + 3)
<1>4. a \in Byte /\ b \in Byte /\ c \in Byte
  BY AtIsByte
<1> HIDE DEF t
<1>5. CASE k = 2
  <2>1. m % 4 = 2 /\ m = 4 * q + 1 + 1 /\ n < 3 * q + 2
    BY <1>1, <1>2, <1>5, SMT
  <2>2. t[m] = (a % 4) * 16 + b \div 16
    BY <1>1, <1>3, <2>1 DEF EncodedChar
  <2>3. b = 0
    BY <1>1, <2>1 DEF At
  <2> QED BY <1>4, <2>1, <2>2, <2>3, BytesReturn DEF LeftOver, t
<1>6. CASE k = 3
  <2>1. m % 4 = 3 /\ m = 4 * q + 2 + 1 /\ n < 3 * q + 3
    BY <1>1, <1>2, <1>6, SMT
  <2>2. t[m] = (b % 16) * 4 + c \div 64
    BY <1>1, <1>3, <2>1 DEF EncodedChar
  <2>3. c = 0
    BY <1>1, <2>1 DEF At
  <2> QED BY <1>4, <2>1, <2>2, <2>3, BytesReturn DEF LeftOver, t
<1>7. CASE k = 0 \/ k = 1
  <2>1. m % 4 # 2 /\ m % 4 # 3
    BY <1>1, <1>2, <1>7, SMT
  <2> QED BY <2>1 DEF LeftOver, t
<1> QED BY <1>5, <1>6, <1>7

(* A text that nothing is left over of is how its bytes are encoded: there *)
(* is no other spelling.                                                   *)
LEMMA EncodeDecode ==
  ASSUME NEW t \in Seq(Char), Len(t) % 4 # 1, LeftOver(t, Len(t)) = 0,
         NEW R, Decodes(t, Len(t), R)
  PROVE  t = Encode(R)
<1> DEFINE m == Len(t)
           n == Len(R)
           e == Encode(R)
<1>1. R \in Seq(Byte) /\ n \in Nat /\ m \in Nat /\ n = (6 * m) \div 8
  <2>1. R \in Seq(Byte) /\ Len(R) = (6 * Len(t)) \div 8
    BY DEF Decodes
  <2> QED BY <2>1
<1>2. e \in Seq(Char) /\ Len(e) = m
  <2>1. EncodedLen(n) = m
    BY <1>1, EncodedLength
  <2> QED BY <1>1, <2>1, EncodeChars
<1>3. ASSUME NEW i \in 1..m PROVE e[i] = t[i]
  <2>1. PICK u \in Nat, k \in 0..3 : i - 1 = 4 * u + k
    <3>1. i - 1 \in Nat
      OBVIOUS
    <3> QED BY <3>1, InUnits
  <2>2. i = 4 * u + k + 1 /\ i <= m /\ i \in Nat
    BY <1>1, <2>1
  <2>3. e[i] = EncodedChar(R, u, k)
    <3>1. 4 * u + k + 1 <= EncodedLen(Len(R))
      BY <1>1, <1>2, <2>2, EncodeChars
    <3> QED BY <1>1, <2>2, <3>1, EncodeChars
  <2> DEFINE c(j) == IF 4 * u + j + 1 <= m THEN t[4 * u + j + 1] ELSE 0
  <2>4. \A j \in 0..3 : c(j) \in Char
    <3> SUFFICES ASSUME NEW j \in 0..3 PROVE c(j) \in Char
      OBVIOUS
    <3>1. CASE 4 * u + j + 1 <= m
      <4>1. 4 * u + j + 1 \in 1..Len(t)
        BY <1>1, <3>1
      <4> QED BY <3>1, <4>1
    <3>2. CASE ~ (4 * u + j + 1 <= m)
      BY <3>2 DEF Char
    <3> QED BY <3>1, <3>2
  <2>5. c(0) \in Char /\ c(1) \in Char /\ c(2) \in Char /\ c(3) \in Char /\ t[i] = c(k)
    BY <2>2, <2>4
  <2>6. \A j \in 0..2 : 3 * u + j + 1 <= n => R[3 * u + j + 1] = DecodedByte(t, u, j)
    BY DEF Decodes
  <2>7. /\ 3 * u + 1 <= n <=> 4 * u + 2 <= m
        /\ 3 * u + 2 <= n <=> 4 * u + 3 <= m
        /\ 3 * u + 3 <= n <=> 4 * u + 4 <= m
        /\ 4 * u + 2 <= m
        /\ m = 4 * u + 2 => m % 4 = 2
        /\ m = 4 * u + 3 => m % 4 = 3
    <3>1. PICK q \in Nat, j \in 0..3 : m = 4 * q + j
      BY <1>1, InUnits
    <3>2. m % 4 = j /\ j # 1
      BY <3>1, SMT
    <3>3. n = 3 * q + (IF j = 2 THEN 1 ELSE IF j = 3 THEN 2 ELSE 0)
      BY <1>1, <3>1, <3>2, SMT
    <3> HIDE DEF m, n
    <3>4. /\ 3 * u + 1 <= n <=> 4 * u + 2 <= m
          /\ 3 * u + 2 <= n <=> 4 * u + 3 <= m
          /\ 3 * u + 3 <= n <=> 4 * u + 4 <= m
          /\ 4 * u + 2 <= m
      BY <2>1, <2>2, <3>1, <3>2, <3>3, SMT
    <3>5. (m = 4 * u + 2 => j = 2) /\ (m = 4 * u + 3 => j = 3)
      BY <3>1, SMT
    <3> QED BY <3>2, <3>4, <3>5
  <2>8. t[4 * u + 1] = c(0) /\ t[4 * u + 2] = c(1)
    BY <1>1, <2>7
  <2>9. At(R, 3 * u + 1) = First(c(0), c(1))
    <3>1. R[3 * u + 0 + 1] = DecodedByte(t, u, 0)
      BY <2>6, <2>7
    <3> QED BY <2>7, <2>8, <3>1 DEF At, DecodedByte
  <2>10. At(R, 3 * u + 2) = IF 4 * u + 3 <= m THEN Second(c(1), c(2)) ELSE 0
    <3>1. CASE 4 * u + 3 <= m
      <4>1. R[3 * u + 1 + 1] = DecodedByte(t, u, 1) /\ 3 * u + 1 + 1 = 3 * u + 2
        BY <2>6, <2>7, <3>1
      <4>2. t[4 * u + 3] = c(2)
        BY <3>1
      <4> QED BY <2>7, <2>8, <3>1, <4>1, <4>2 DEF At, DecodedByte
    <3>2. CASE ~ (4 * u + 3 <= m)
      BY <2>7, <3>2 DEF At
    <3> QED BY <3>1, <3>2
  <2>11. At(R, 3 * u + 3) = IF 4 * u + 4 <= m THEN Third(c(2), c(3)) ELSE 0
    <3>1. CASE 4 * u + 4 <= m
      <4>1. R[3 * u + 2 + 1] = DecodedByte(t, u, 2) /\ 3 * u + 2 + 1 = 3 * u + 3
        BY <2>6, <2>7, <3>1
      <4>2. t[4 * u + 3] = c(2) /\ t[4 * u + 4] = c(3)
        BY <1>1, <3>1
      <4> QED BY <2>7, <3>1, <4>1, <4>2 DEF At, DecodedByte
    <3>2. CASE ~ (4 * u + 4 <= m)
      BY <2>7, <3>2 DEF At
    <3> QED BY <3>1, <3>2
  <2>12. m = 4 * u + 2 => c(1) % 16 = 0
    BY <2>7, <2>8 DEF LeftOver
  <2>13. m = 4 * u + 3 => c(2) % 4 = 0
    <3>1. ASSUME m = 4 * u + 3 PROVE t[4 * u + 3] = c(2)
      BY <1>1, <3>1
    <3> QED BY <2>7, <3>1 DEF LeftOver
  <2> HIDE DEF c
  <2>14. CASE k = 0
    <3>1. e[i] = First(c(0), c(1)) \div 4
      BY <2>3, <2>9, <2>14 DEF EncodedChar
    <3> QED BY <2>5, <2>14, <3>1, CharsReturn
  <2>15. CASE k = 1
    <3>1. e[i] = (First(c(0), c(1)) % 4) * 16 + At(R, 3 * u + 2) \div 16
      BY <2>3, <2>9, <2>15 DEF EncodedChar
    <3>2. CASE 4 * u + 3 <= m
      <4>1. At(R, 3 * u + 2) = Second(c(1), c(2))
        BY <2>10, <3>2
      <4> QED BY <2>5, <2>15, <3>1, <4>1, CharsReturn
    <3>3. CASE ~ (4 * u + 3 <= m)
      <4>1. m = 4 * u + 2 /\ At(R, 3 * u + 2) = 0
        BY <1>1, <2>7, <2>10, <3>3
      <4> QED BY <2>5, <2>12, <2>15, <3>1, <4>1, CharsReturn
    <3> QED BY <3>2, <3>3
  <2>16. CASE k = 2
    <3>1. e[i] = (Second(c(1), c(2)) % 16) * 4 + At(R, 3 * u + 3) \div 64
      BY <2>2, <2>3, <2>10, <2>16 DEF EncodedChar
    <3>2. CASE 4 * u + 4 <= m
      <4>1. At(R, 3 * u + 3) = Third(c(2), c(3))
        BY <2>11, <3>2
      <4> QED BY <2>5, <2>16, <3>1, <4>1, CharsReturn
    <3>3. CASE ~ (4 * u + 4 <= m)
      <4>1. m = 4 * u + 3 /\ At(R, 3 * u + 3) = 0
        BY <1>1, <2>2, <2>11, <2>16, <3>3
      <4> QED BY <2>5, <2>13, <2>16, <3>1, <4>1, CharsReturn
    <3> QED BY <3>2, <3>3
  <2>17. CASE k = 3
    <3>1. e[i] = Third(c(2), c(3)) % 64
      BY <2>2, <2>3, <2>11, <2>17 DEF EncodedChar
    <3> QED BY <2>5, <2>17, <3>1, CharsReturn
  <2> QED BY <2>14, <2>15, <2>16, <2>17
<1> QED BY <1>2, <1>3, SeqEqual

-----------------------------------------------------------------------------
(* The decoder: what it holds after pos characters. *)
Held ==
  /\ pos \in 0..Len(text)
  /\ \A i \in 1..pos : text[i] \in Char
  /\ acc \in Nat /\ nbits = (6 * pos) % 8
  /\ pos > 0 => acc % 64 = text[pos]
  /\ Decodes(text, pos, raw)

LEMMA ByteDecoded ==
  ASSUME NEW t, NEW p \in Nat, NEW R, Decodes(t, p, R), (6 * (p + 1)) \div 8 = Len(R) + 1,
         NEW u \in Nat, NEW k \in 0..2, Len(R) = 3 * u + k,
         NEW b \in Byte, b = DecodedByte(t, u, k)
  PROVE  Decodes(t, p + 1, Append(R, b))
<1>1. R \in Seq(Byte) /\ Len(R) \in Nat
  <2>1. R \in Seq(Byte)
    BY DEF Decodes
  <2> QED BY <2>1
<1>2. /\ Append(R, b) \in Seq(Byte) /\ Len(Append(R, b)) = Len(R) + 1
      /\ Append(R, b)[Len(R) + 1] = b
      /\ \A i \in 1..Len(R) : Append(R, b)[i] = R[i]
  BY <1>1
<1>3. ASSUME NEW v \in Nat, NEW j \in 0..2, 3 * v + j + 1 <= Len(R) + 1
      PROVE  Append(R, b)[3 * v + j + 1] = DecodedByte(t, v, j)
  <2>1. CASE 3 * v + j + 1 <= Len(R)
    <3>1. R[3 * v + j + 1] = DecodedByte(t, v, j)
      BY <2>1 DEF Decodes
    <3>2. 3 * v + j + 1 \in 1..Len(R)
      BY <1>1, <2>1
    <3> QED BY <1>2, <3>1, <3>2
  <2>2. CASE ~ (3 * v + j + 1 <= Len(R))
    <3>1. 3 * v + j + 1 = Len(R) + 1
      BY <1>1, <1>3, <2>2
    <3>2. v = u /\ j = k
      BY <3>1
    <3> QED BY <1>2, <3>1, <3>2
  <2> QED BY <2>1, <2>2
<1> QED BY <1>2, <1>3 DEF Decodes

LEMMA NoByteDecoded ==
  ASSUME NEW t, NEW p \in Nat, NEW R, Decodes(t, p, R), (6 * (p + 1)) \div 8 = Len(R)
  PROVE  Decodes(t, p + 1, R)
BY DEF Decodes

LEMMA HeldStep ==
  ASSUME text \in Seq(Char \cup {Bad}), Held, DecodeChar, text[pos + 1] # Bad
  PROVE  Held'
<1> DEFINE c == text[pos + 1]
<1>1. /\ pos \in Nat /\ pos < Len(text) /\ text' = text /\ pos' = pos + 1
      /\ c \in Char
      /\ acc' = (acc * 64 + c) % AccSize
      /\ nbits' = IF TakesByte(nbits + 6) THEN (nbits + 6) - 8 ELSE nbits + 6
      /\ raw' = IF TakesByte(nbits + 6) THEN Append(raw, (acc' \div Pow2[nbits']) % 256) ELSE raw
  <2>1. pos \in Nat /\ pos < Len(text) /\ Len(text) \in Nat
    BY DEF DecodeChar, Held
  <2>2. c \in Char
    <3>1. pos + 1 \in 1..Len(text)
      BY <2>1
    <3> QED BY <3>1
  <2>3. text' = text
    BY DEF DecodeChar
  <2>4. /\ pos' = pos + 1
        /\ acc' = (acc * 64 + c) % AccSize
        /\ nbits' = IF TakesByte(nbits + 6) THEN (nbits + 6) - 8 ELSE nbits + 6
        /\ raw' = IF TakesByte(nbits + 6) THEN Append(raw, (acc' \div Pow2[nbits']) % 256) ELSE raw
    <3>1. pos' = pos + 1
      BY DEF DecodeChar
    <3>2. acc' = (acc * 64 + c) % AccSize
      BY DEF DecodeChar
    <3>3. nbits' = IF TakesByte(nbits + 6) THEN (nbits + 6) - 8 ELSE nbits + 6
      <4>1. CASE TakesByte(nbits + 6)
        BY <4>1 DEF DecodeChar
      <4>2. CASE ~ TakesByte(nbits + 6)
        BY <4>2 DEF DecodeChar
      <4> QED BY <4>1, <4>2
    <3>4. raw' = IF TakesByte(nbits + 6) THEN Append(raw, (acc' \div Pow2[nbits']) % 256) ELSE raw
      BY DEF DecodeChar
    <3> QED BY <3>1, <3>2, <3>3, <3>4
  <2> QED BY <2>1, <2>2, <2>3, <2>4
<1>2. acc \in Nat /\ nbits = (6 * pos) % 8 /\ (pos > 0 => acc % 64 = text[pos])
      /\ Decodes(text, pos, raw) /\ (\A i \in 1..pos : text[i] \in Char)
  BY DEF Held
<1> HIDE DEF c
<1>3. /\ acc' \in Nat /\ acc' % 64 = c
      /\ (acc' \div 16) % 256 = First(acc % 64, c)
      /\ (acc' \div 4) % 256 = Second(acc % 64, c)
      /\ (acc' \div 1) % 256 = Third(acc % 64, c)
  BY <1>1, <1>2, LowBits
<1>4. PICK q \in Nat, k \in 0..3 : pos = 4 * q + k
  BY <1>1, InUnits
<1>5. pos + 1 \in 0..Len(text) /\ \A i \in 1..(pos + 1) : text[i] \in Char
  BY <1>1, <1>2 DEF c
<1>6. Len(raw) = (6 * pos) \div 8
  BY <1>2 DEF Decodes
<1>7. k # 0 => pos > 0 /\ text[pos] \in Char /\ acc % 64 = text[pos]
  BY <1>1, <1>2, <1>4
<1>8. nbits' = (6 * (pos + 1)) % 8 /\ Decodes(text, pos + 1, raw')
  <2>1. CASE k = 0
    <3>1. nbits = 0 /\ (6 * (pos + 1)) % 8 = 6 /\ (6 * (pos + 1)) \div 8 = (6 * pos) \div 8
      BY <1>2, <1>4, <2>1, SMT
    <3>2. nbits' = 6 /\ raw' = raw
      BY <1>1, <3>1 DEF TakesByte
    <3> QED BY <1>1, <1>2, <1>6, <3>1, <3>2, NoByteDecoded
  <2>2. CASE k = 1
    <3>1. nbits = 6 /\ (6 * (pos + 1)) % 8 = 4 /\ (6 * pos) \div 8 = 3 * q
          /\ (6 * (pos + 1)) \div 8 = 3 * q + 1
      BY <1>2, <1>4, <2>2, SMT
    <3>2. nbits' = 4 /\ raw' = Append(raw, (acc' \div 16) % 256)
      BY <1>1, <3>1 DEF TakesByte, Pow2
    <3>3. First(text[pos], c) \in Byte /\ First(text[pos], c) = DecodedByte(text, q, 0)
      <4>1. pos = 4 * q + 1 /\ pos + 1 = 4 * q + 2
        BY <1>4, <2>2
      <4> QED BY <1>1, <1>7, <2>2, <4>1, CharsReturn DEF DecodedByte, c
    <3>4. Len(raw) = 3 * q + 0 /\ (6 * (pos + 1)) \div 8 = Len(raw) + 1
      BY <1>6, <3>1
    <3>5. raw' = Append(raw, First(text[pos], c))
      BY <1>3, <1>7, <2>2, <3>2
    <3> QED BY <1>1, <1>2, <3>1, <3>2, <3>3, <3>4, <3>5, ByteDecoded
  <2>3. CASE k = 2
    <3>1. nbits = 4 /\ (6 * (pos + 1)) % 8 = 2 /\ (6 * pos) \div 8 = 3 * q + 1
          /\ (6 * (pos + 1)) \div 8 = 3 * q + 2
      BY <1>2, <1>4, <2>3, SMT
    <3>2. nbits' = 2 /\ raw' = Append(raw, (acc' \div 4) % 256)
      BY <1>1, <3>1 DEF TakesByte, Pow2
    <3>3. Second(text[pos], c) \in Byte /\ Second(text[pos], c) = DecodedByte(text, q, 1)
      <4>1. pos = 4 * q + 2 /\ pos + 1 = 4 * q + 3
        BY <1>4, <2>3
      <4> QED BY <1>1, <1>7, <2>3, <4>1, CharsReturn DEF DecodedByte, c
    <3>4. Len(raw) = 3 * q + 1 /\ (6 * (pos + 1)) \div 8 = Len(raw) + 1
      BY <1>6, <3>1
    <3>5. raw' = Append(raw, Second(text[pos], c))
      BY <1>3, <1>7, <2>3, <3>2
    <3>6. Decodes(text, pos + 1, Append(raw, Second(text[pos], c)))
      <4> DEFINE b == Second(text[pos], c)
      <4>1. b \in Byte /\ b = DecodedByte(text, q, 1) /\ Len(raw) = 3 * q + 1 /\ 1 \in 0..2
        BY <3>3, <3>4
      <4> HIDE DEF b
      <4>2. Decodes(text, pos + 1, Append(raw, b))
        BY <1>1, <1>2, <3>4, <4>1, ByteDecoded
      <4> QED BY <4>2 DEF b
    <3> QED BY <3>1, <3>2, <3>5, <3>6
  <2>4. CASE k = 3
    <3>1. nbits = 2 /\ (6 * (pos + 1)) % 8 = 0 /\ (6 * pos) \div 8 = 3 * q + 2
          /\ (6 * (pos + 1)) \div 8 = 3 * q + 3
      BY <1>2, <1>4, <2>4, SMT
    <3>2. nbits' = 0 /\ raw' = Append(raw, (acc' \div 1) % 256)
      BY <1>1, <3>1 DEF TakesByte, Pow2
    <3>3. Third(text[pos], c) \in Byte /\ Third(text[pos], c) = DecodedByte(text, q, 2)
      <4>1. pos = 4 * q + 3 /\ pos + 1 = 4 * q + 4
        BY <1>4, <2>4
      <4> QED BY <1>1, <1>7, <2>4, <4>1, CharsReturn DEF DecodedByte, c
    <3>4. Len(raw) = 3 * q + 2 /\ (6 * (pos + 1)) \div 8 = Len(raw) + 1
      BY <1>6, <3>1
    <3>5. raw' = Append(raw, Third(text[pos], c))
      BY <1>3, <1>7, <2>4, <3>2
    <3>6. Decodes(text, pos + 1, Append(raw, Third(text[pos], c)))
      <4> DEFINE b == Third(text[pos], c)
      <4>1. b \in Byte /\ b = DecodedByte(text, q, 2) /\ Len(raw) = 3 * q + 2 /\ 2 \in 0..2
        BY <3>3, <3>4
      <4> HIDE DEF b
      <4>2. Decodes(text, pos + 1, Append(raw, b))
        BY <1>1, <1>2, <3>4, <4>1, ByteDecoded
      <4> QED BY <4>2 DEF b
    <3> QED BY <3>1, <3>2, <3>5, <3>6
  <2> QED BY <2>1, <2>2, <2>3, <2>4
<1>9. acc' % 64 = text[pos + 1]
  BY <1>3 DEF c
<1> QED BY <1>1, <1>3, <1>5, <1>8, <1>9 DEF Held

(* At the end of a text the bits the decoder looks at are those of the     *)
(* last character.                                                         *)
LEMMA EndIsLeftOver ==
  ASSUME text \in Seq(Char \cup {Bad}), Held, pos = Len(text), Len(text) % 4 # 1
  PROVE  CanonicalEnd <=> LeftOver(text, Len(text)) = 0
<1>1. pos \in Nat /\ acc \in Nat /\ nbits = (6 * pos) % 8 /\ (pos > 0 => acc % 64 = text[pos])
  BY DEF Held
<1>2. PICK q \in Nat, k \in 0..3 : pos = 4 * q + k
  BY <1>1, InUnits
<1>3. CASE k = 0
  <2>1. nbits = 0 /\ pos % 4 = 0
    BY <1>1, <1>2, <1>3, SMT
  <2> QED BY <2>1 DEF CanonicalEnd, LeftOver
<1>4. CASE k = 1
  <2>1. pos % 4 = 1
    BY <1>1, <1>2, <1>4, SMT
  <2> QED BY <2>1
<1>5. CASE k = 2
  <2>1. nbits = 4 /\ pos % 4 = 2 /\ pos > 0 /\ acc % 16 = (acc % 64) % 16
    BY <1>1, <1>2, <1>5, SMT
  <2>2. Pow2[4] = 16
    BY DEF Pow2
  <2> QED BY <1>1, <2>1, <2>2 DEF CanonicalEnd, LeftOver
<1>6. CASE k = 3
  <2>1. nbits = 2 /\ pos % 4 = 3 /\ pos > 0 /\ acc % 4 = (acc % 64) % 4
    BY <1>1, <1>2, <1>6, SMT
  <2>2. Pow2[2] = 4
    BY DEF Pow2
  <2> QED BY <1>1, <2>1, <2>2 DEF CanonicalEnd, LeftOver
<1> QED BY <1>3, <1>4, <1>5, <1>6

-----------------------------------------------------------------------------
(* The snapshot id and the raw cursor. *)

(* Two lists are framed alike only if they are the same.                   *)
LEMMA FrameInjective ==
  ASSUME NEW a \in Seq(Seq(Byte)), NEW b \in Seq(Seq(Byte)), Frame(a) = Frame(b)
  PROVE  a = b
<1> DEFINE P == {<<Len(s)>> \o s : s \in Seq(Byte)}
           framed(x) == [i \in 1..Len(x) |-> <<Len(x[i])>> \o x[i]]
<1>1. ASSUME NEW s \in Seq(Byte)
      PROVE  /\ <<Len(s)>> \o s \in Seq(Nat)
             /\ Len(<<Len(s)>> \o s) = Len(s) + 1
             /\ (<<Len(s)>> \o s)[1] = Len(s)
             /\ \A j \in 1..Len(s) : (<<Len(s)>> \o s)[j + 1] = s[j]
  <2>1. <<Len(s)>> \in Seq(Nat) /\ s \in Seq(Nat) /\ Len(<<Len(s)>>) = 1
    <3>1. Byte \subseteq Nat /\ Len(s) \in Nat
      BY DEF Byte
    <3>2. s \in Seq(Nat)
      BY <3>1, SeqMonotonic
    <3> QED BY <3>1, <3>2
  <2>2. /\ <<Len(s)>> \o s \in Seq(Nat)
        /\ Len(<<Len(s)>> \o s) = 1 + Len(s)
        /\ \A i \in 1..(1 + Len(s)) :
             (<<Len(s)>> \o s)[i] = IF i <= 1 THEN <<Len(s)>>[i] ELSE s[i - 1]
    BY <2>1, ConcatProperties
  <2>3. Len(s) \in Nat
    OBVIOUS
  <2> QED BY <2>2, <2>3
<1>2. ASSUME NEW s \in Seq(Byte), NEW r \in Seq(Byte),
             \A j \in 1..Len(<<Len(s)>> \o s) :
               j <= Len(<<Len(r)>> \o r) => (<<Len(s)>> \o s)[j] = (<<Len(r)>> \o r)[j]
      PROVE  s = r
  <2>1. Len(s) \in Nat /\ Len(r) \in Nat
    OBVIOUS
  <2>2. Len(s) = Len(r)
    <3>1. 1 \in 1..Len(<<Len(s)>> \o s) /\ 1 <= Len(<<Len(r)>> \o r)
      BY <1>1, <2>1
    <3> QED BY <1>1, <1>2, <3>1
  <2>3. ASSUME NEW j \in 1..Len(s) PROVE s[j] = r[j]
    <3>1. j + 1 \in 1..Len(<<Len(s)>> \o s) /\ j + 1 <= Len(<<Len(r)>> \o r) /\ j \in 1..Len(r)
      BY <1>1, <2>1, <2>2
    <3>2. (<<Len(s)>> \o s)[j + 1] = s[j] /\ (<<Len(r)>> \o r)[j + 1] = r[j]
      BY <1>1, <3>1
    <3> QED BY <1>2, <3>1, <3>2
  <2> QED BY <2>2, <2>3, SeqEqual
<1>3. P \in SUBSET Seq(Nat)
  BY <1>1
<1>4. PrefixFree(P)
  BY <1>2 DEF PrefixFree
<1>5. ASSUME NEW x \in Seq(Seq(Byte))
      PROVE  /\ framed(x) \in Seq(P) /\ framed(x) \in Seq(Seq(Nat)) /\ Len(framed(x)) = Len(x)
             /\ Frame(x) = <<Len(x)>> \o FlattenSeq(framed(x))
             /\ FlattenSeq(framed(x)) \in Seq(Nat)
  <2>1. Len(x) \in Nat /\ DOMAIN x = 1..Len(x) /\ \A i \in 1..Len(x) : x[i] \in Seq(Byte)
    OBVIOUS
  <2>2. framed(x) \in [1..Len(x) -> P]
    BY <2>1
  <2>3. Frame(x) = <<Len(x)>> \o FlattenSeq(framed(x))
    BY <2>1 DEF Frame
  <2> HIDE DEF framed, P
  <2>4. framed(x) \in Seq(P) /\ Len(framed(x)) = Len(x)
    <3>1. ASSUME NEW n \in Nat, NEW f \in [1..n -> P] PROVE f \in Seq(P) /\ Len(f) = n
      OBVIOUS
    <3> QED BY <2>1, <2>2, <3>1
  <2>5. framed(x) \in Seq(Seq(Nat))
    BY <1>3, <2>4
  <2> QED BY <2>3, <2>4, <2>5, FlattenIsSeq
<1> HIDE DEF P, framed
<1>6. Len(a) = Len(b) /\ FlattenSeq(framed(a)) = FlattenSeq(framed(b))
  <2> DEFINE x == FlattenSeq(framed(a))
             y == FlattenSeq(framed(b))
  <2>1. x \in Seq(Nat) /\ y \in Seq(Nat) /\ <<Len(a)>> \o x = <<Len(b)>> \o y
    BY <1>5
  <2>2. Len(a) \in Nat /\ Len(b) \in Nat
    OBVIOUS
  <2> HIDE DEF x, y
  <2>3. (<<Len(a)>> \o x)[1] = Len(a) /\ (<<Len(b)>> \o y)[1] = Len(b)
    BY <2>1, <2>2
  <2>4. Len(a) = Len(b)
    BY <2>1, <2>3
  <2>5. x = y
    <3>1. <<Len(a)>> \in Seq(Nat) /\ <<Len(a)>> \o x = <<Len(a)>> \o y
      BY <2>1, <2>2, <2>4
    <3> QED BY <2>1, <3>1, ConcatSimplifications
  <2> QED BY <2>4, <2>5 DEF x, y
<1>7. framed(a) = framed(b)
  BY <1>3, <1>4, <1>5, <1>6, FlattenInjective
<1>8. ASSUME NEW i \in 1..Len(a) PROVE a[i] = b[i]
  <2>1. <<Len(a[i])>> \o a[i] = <<Len(b[i])>> \o b[i] /\ a[i] \in Seq(Byte) /\ b[i] \in Seq(Byte)
    <3>1. framed(a)[i] = framed(b)[i] /\ i \in 1..Len(b)
      BY <1>6, <1>7
    <3>2. framed(a)[i] = <<Len(a[i])>> \o a[i] /\ framed(b)[i] = <<Len(b[i])>> \o b[i]
      BY <3>1, Zenon DEF framed
    <3>3. a[i] \in Seq(Byte) /\ b[i] \in Seq(Byte)
      BY <3>1, ElementOfSeq
    <3> QED BY <3>1, <3>2, <3>3
  <2> QED BY <1>2, <2>1
<1> QED BY <1>6, <1>8, SeqEqual

(* The parts of a cursor are where decode() looks for them.                *)
LEMMA RawParts ==
  ASSUME NEW l \in Lists, NEW o \in Offsets, NEW k \in Keys
  PROVE  /\ <<k, Body(l, o)>> \in DOMAIN Mac
         /\ Raw(k, l, o) \in Seq(Byte) /\ Len(Raw(k, l, o)) = RAW_LEN
         /\ SubSeq(Raw(k, l, o), 1, BODY_LEN) = Body(l, o)
         /\ SubSeq(Raw(k, l, o), BODY_LEN + 1, RAW_LEN) = Mac[<<k, Body(l, o)>>]
         /\ SubSeq(Body(l, o), OFFSET_LEN + 1, BODY_LEN) = SnapshotId(l)
         /\ SubSeq(Body(l, o), 1, OFFSET_LEN) = o
<1>1. OFFSET_LEN \in Nat \ {0} /\ SNAPSHOT_LEN \in Nat \ {0} /\ TAG_LEN \in Nat \ {0}
  BY LengthsAssumption
<1>2. ASSUME NEW n \in Nat, NEW s \in Bytes(n) PROVE s \in Seq(Byte) /\ Len(s) = n
  BY DEF Bytes
<1> DEFINE id == SnapshotId(l)
           body == Body(l, o)
           tag == Mac[<<k, body>>]
<1>3. o \in Seq(Byte) /\ Len(o) = OFFSET_LEN
  <2>1. o \in Bytes(OFFSET_LEN)
    BY TextAssumption
  <2> QED BY <1>1, <1>2, <2>1
<1>4. id \in Seq(Byte) /\ Len(id) = SNAPSHOT_LEN
  <2>1. id \in Bytes(SNAPSHOT_LEN)
    BY DigestAssumption DEF SnapshotId
  <2> HIDE DEF id
  <2> QED BY <1>1, <1>2, <2>1
<1>5. body = o \o id
  BY DEF Body
<1>6. <<k, body>> \in DOMAIN Mac
  BY MacAssumption
<1>7. tag \in Seq(Byte) /\ Len(tag) = TAG_LEN
  <2>1. tag \in Bytes(TAG_LEN)
    BY <1>6, MacAssumption
  <2> HIDE DEF tag
  <2> QED BY <1>1, <1>2, <2>1
<1>8. Raw(k, l, o) = body \o tag
  BY DEF Raw
<1> HIDE DEF id, body, tag
<1>9. body \in Seq(Byte) /\ Len(body) = BODY_LEN
  BY <1>3, <1>4, <1>5, ConcatProperties DEF BODY_LEN
<1>10. body \o tag \in Seq(Byte) /\ Len(body \o tag) = RAW_LEN
  BY <1>7, <1>9, ConcatProperties DEF RAW_LEN
<1>11. BODY_LEN \in Nat \ {0} /\ BODY_LEN = OFFSET_LEN + SNAPSHOT_LEN /\ RAW_LEN = BODY_LEN + TAG_LEN
  BY <1>1 DEF BODY_LEN, RAW_LEN
<1>12. SubSeq(body \o tag, 1, BODY_LEN) = body
  <2>1. 1 \in 1..Len(body) /\ BODY_LEN \in 1..Len(body)
    BY <1>9, <1>11
  <2>2. SubSeq(body \o tag, 1, BODY_LEN) = SubSeq(body, 1, BODY_LEN)
    BY <1>7, <1>9, <2>1, SubSeqOfConcat1
  <2>3. SubSeq(body, 1, BODY_LEN) = body
    BY <1>9, SubSeqFull
  <2> QED BY <2>2, <2>3
<1>13. SubSeq(body \o tag, BODY_LEN + 1, RAW_LEN) = tag
  <2>1. BODY_LEN + 1 \in Len(body) + 1 .. Len(body) + Len(tag)
        /\ RAW_LEN \in Len(body) + 1 .. Len(body) + Len(tag)
    BY <1>1, <1>7, <1>9, <1>11
  <2>2. SubSeq(body \o tag, BODY_LEN + 1, RAW_LEN) = SubSeq(tag, (BODY_LEN + 1) - Len(body), RAW_LEN - Len(body))
    BY <1>7, <1>9, <2>1, SubSeqOfConcat2
  <2>3. (BODY_LEN + 1) - Len(body) = 1 /\ RAW_LEN - Len(body) = Len(tag)
    BY <1>1, <1>7, <1>9, <1>11
  <2>4. SubSeq(tag, 1, Len(tag)) = tag
    BY <1>7, SubSeqFull
  <2> QED BY <2>2, <2>3, <2>4
<1>14. SubSeq(body, OFFSET_LEN + 1, BODY_LEN) = id
  <2>1. OFFSET_LEN + 1 \in Len(o) + 1 .. Len(o) + Len(id)
        /\ BODY_LEN \in Len(o) + 1 .. Len(o) + Len(id)
    BY <1>1, <1>3, <1>4, <1>11
  <2>2. SubSeq(o \o id, OFFSET_LEN + 1, BODY_LEN) = SubSeq(id, (OFFSET_LEN + 1) - Len(o), BODY_LEN - Len(o))
    BY <1>3, <1>4, <2>1, SubSeqOfConcat2
  <2>3. (OFFSET_LEN + 1) - Len(o) = 1 /\ BODY_LEN - Len(o) = Len(id)
    BY <1>1, <1>3, <1>4, <1>11
  <2>4. SubSeq(id, 1, Len(id)) = id
    BY <1>4, SubSeqFull
  <2> QED BY <1>5, <2>2, <2>3, <2>4
<1>15. SubSeq(body, 1, OFFSET_LEN) = o
  <2>1. 1 \in 1..Len(o) /\ OFFSET_LEN \in 1..Len(o)
    BY <1>1, <1>3
  <2>2. SubSeq(o \o id, 1, OFFSET_LEN) = SubSeq(o, 1, OFFSET_LEN)
    BY <1>3, <1>4, <2>1, SubSeqOfConcat1
  <2>3. SubSeq(o, 1, OFFSET_LEN) = o
    BY <1>3, SubSeqFull
  <2> QED BY <1>5, <2>2, <2>3
<1> QED BY <1>6, <1>8, <1>10, <1>12, <1>13, <1>14, <1>15 DEF id, body, tag

(* A cursor tells which key and which list it was minted for.              *)
LEMMA RawTellsAll ==
  ASSUME NEW l \in Lists, NEW m \in Lists, NEW o \in Offsets, NEW p \in Offsets,
         NEW j \in Keys, NEW k \in Keys, Raw(j, l, o) = Raw(k, m, p)
  PROVE  j = k /\ l = m
<1>1. /\ <<j, Body(l, o)>> \in DOMAIN Mac
      /\ SubSeq(Raw(j, l, o), BODY_LEN + 1, RAW_LEN) = Mac[<<j, Body(l, o)>>]
      /\ SubSeq(Body(l, o), OFFSET_LEN + 1, BODY_LEN) = SnapshotId(l)
  BY RawParts
<1>2. /\ <<k, Body(m, p)>> \in DOMAIN Mac
      /\ SubSeq(Raw(k, m, p), BODY_LEN + 1, RAW_LEN) = Mac[<<k, Body(m, p)>>]
      /\ SubSeq(Body(m, p), OFFSET_LEN + 1, BODY_LEN) = SnapshotId(m)
  BY RawParts
<1>3. Body(l, o) = Body(m, p) /\ j = k
  <2>1. Mac[<<j, Body(l, o)>>] = Mac[<<k, Body(m, p)>>]
    BY <1>1, <1>2
  <2>2. <<j, Body(l, o)>> = <<k, Body(m, p)>>
    BY <1>1, <1>2, <2>1, MacAssumption
  <2> QED BY <2>2
<1>4. SnapshotId(l) = SnapshotId(m)
  BY <1>1, <1>2, <1>3
<1>5. Frame(l) = Frame(m)
  BY <1>4, DigestAssumption DEF SnapshotId
<1>6. l \in Seq(Seq(Byte)) /\ m \in Seq(Seq(Byte))
  BY TextAssumption
<1> QED BY <1>3, <1>5, <1>6, FrameInjective

-----------------------------------------------------------------------------
(* The invariant: what was read so far is what the text spells, an         *)
(* accepted text was read to its end, and an unharmed one is accepted.     *)

MintedRaw == Raw(minted.key, minted.list, minted.offset)

Readers ==
  /\ minted \in [key: Keys, list: Lists, offset: Offsets]
  /\ minted.offset \in Boundaries[<<minted.key, minted.list>>]
  /\ server \in [key: Keys, list: Lists]

Unharmed ==
  /\ text \in Seq(Char \cup {Bad})
  /\ edits \in Nat
  /\ edits = 0 => prefix = TRUE /\ text = Encode(MintedRaw)

Untouched ==
  stage = "editing" => pos = 0 /\ acc = 0 /\ nbits = 0 /\ raw = <<>> /\ verdict = "none"

Reading ==
  stage = "decoding" => prefix = TRUE /\ Len(text) % 4 # 1 /\ Held /\ verdict = "none"

Accepted ==
  /\ Len(raw) = RAW_LEN
  /\ MacOf(server.key, SubSeq(raw, 1, BODY_LEN)) = SubSeq(raw, BODY_LEN + 1, RAW_LEN)
  /\ SubSeq(SubSeq(raw, 1, BODY_LEN), OFFSET_LEN + 1, BODY_LEN) = SnapshotId(server.list)
  /\ SubSeq(SubSeq(raw, 1, BODY_LEN), 1, OFFSET_LEN) \in Boundaries[<<server.key, server.list>>]

WasRead ==
  /\ prefix = TRUE /\ Len(text) % 4 # 1
  /\ Held /\ pos = Len(text) /\ CanonicalEnd
  /\ Accepted

Verdicts ==
  stage = "judged" => (verdict = "ok" => WasRead) /\ MintedTextsDecode

CursorInv ==
  /\ stage \in {"editing", "decoding", "judged"}
  /\ Readers /\ Unharmed /\ Untouched /\ Reading /\ Verdicts

(* What decode() does with a text that nobody edited.                      *)
LEMMA MintedRawParts ==
  ASSUME Readers
  PROVE  /\ MintedRaw \in Seq(Byte) /\ Len(MintedRaw) = RAW_LEN
         /\ Encode(MintedRaw) \in Seq(Char)
         /\ Len(Encode(MintedRaw)) % 4 # 1
         /\ LeftOver(Encode(MintedRaw), Len(Encode(MintedRaw))) = 0
<1>1. MintedRaw \in Seq(Byte) /\ Len(MintedRaw) = RAW_LEN
  <2>1. minted.key \in Keys /\ minted.list \in Lists /\ minted.offset \in Offsets
    BY DEF Readers
  <2> QED BY <2>1, RawParts DEF MintedRaw
<1> HIDE DEF MintedRaw
<1>2. Encode(MintedRaw) \in Seq(Char) /\ Len(Encode(MintedRaw)) = EncodedLen(Len(MintedRaw))
  BY <1>1, EncodeChars
<1>3. EncodedLen(Len(MintedRaw)) % 4 # 1
  <2>1. Len(MintedRaw) \in Nat
    BY <1>1
  <2> QED BY <2>1, EncodedLength
<1> QED BY <1>1, <1>2, <1>3, EncodedEnds

LEMMA InitCursorInv == Init => CursorInv
<1> SUFFICES ASSUME Init PROVE CursorInv
  OBVIOUS
<1>1. Readers /\ stage = "editing" /\ edits = 0 /\ prefix = TRUE /\ text = Encode(MintedRaw)
  BY DEF Init, Readers, MintedRaw
<1>2. text \in Seq(Char \cup {Bad})
  <2>1. text \in Seq(Char)
    BY <1>1, MintedRawParts
  <2> QED BY <2>1, SeqMonotonic
<1>3. Untouched
  BY DEF Init, Untouched
<1> QED BY <1>1, <1>2, <1>3 DEF CursorInv, Unharmed, Reading, Verdicts

LEMMA EditStep == CursorInv /\ Edit => CursorInv'
<1> SUFFICES ASSUME CursorInv, Edit PROVE CursorInv'
  OBVIOUS
<1>1. /\ stage = "editing" /\ stage' = stage /\ edits' = edits + 1
      /\ UNCHANGED <<minted, server, decoder, verdict>>
  BY DEF Edit
<1>2. Readers' /\ Untouched'
  BY <1>1 DEF CursorInv, Readers, Untouched, decoder
<1>3. text' \in Seq(Char \cup {Bad})
  <2> DEFINE C == Char \cup {Bad}
  <2>1. text \in Seq(C) /\ Typed \cup {Bad} \subseteq C
    BY TextAssumption DEF CursorInv, Unharmed, Char
  <2> HIDE DEF C
  <2>2. CASE \E i \in DOMAIN text, c \in Typed \cup {Bad} : text' = [text EXCEPT ![i] = c]
    <3>1. PICK i \in DOMAIN text, c \in Typed \cup {Bad} : text' = [text EXCEPT ![i] = c]
      BY <2>2
    <3>2. i \in 1..Len(text) /\ c \in C
      BY <2>1, <3>1, LenProperties
    <3> QED BY <2>1, <3>1, <3>2, ExceptSeq DEF C
  <2>3. CASE text # <<>> /\ text' = Front(text)
    <3>1. Len(text) \in Nat /\ \A i \in 1..Len(text) - 1 : text[i] \in C
      BY <2>1
    <3>2. SubSeq(text, 1, Len(text) - 1) \in Seq(C)
      BY <3>1, SubSeqProperties
    <3> QED BY <2>3, <3>2 DEF Front, C
  <2>4. CASE \E c \in Typed : text' = Append(text, c)
    <3>1. PICK c \in Typed : text' = Append(text, c)
      BY <2>4
    <3> QED BY <2>1, <3>1, AppendProperties DEF C
  <2>5. CASE text' = text
    BY <2>1, <2>5 DEF C
  <2> QED BY <2>2, <2>3, <2>4, <2>5 DEF Edit
<1>4. Unharmed'
  <2>1. edits' \in Nat /\ edits' # 0
    BY <1>1 DEF CursorInv, Unharmed
  <2> QED BY <1>3, <2>1 DEF Unharmed
<1>5. Reading' /\ Verdicts' /\ stage' \in {"editing", "decoding", "judged"}
  BY <1>1 DEF Reading, Verdicts
<1> QED BY <1>2, <1>4, <1>5 DEF CursorInv

LEMMA SubmitStep == CursorInv /\ Submit => CursorInv'
<1> SUFFICES ASSUME CursorInv, Submit PROVE CursorInv'
  OBVIOUS
<1>1. /\ stage = "editing"
      /\ UNCHANGED <<minted, server, prefix, text, edits, decoder>>
  BY DEF Submit
<1>2. UNCHANGED <<pos, acc, nbits, raw>>
  BY <1>1 DEF decoder
<1>3. Readers' /\ Unharmed'
  BY <1>1 DEF CursorInv, Readers, Unharmed, MintedRaw
<1>4. CASE ~ prefix \/ Len(text) % 4 = 1
  <2>1. stage' = "judged" /\ verdict' = "malformed"
    BY <1>4 DEF Submit, Judge
  <2>2. edits # 0
    <3>1. ASSUME edits = 0 PROVE prefix = TRUE /\ text = Encode(MintedRaw)
      BY <3>1 DEF CursorInv, Unharmed
    <3> QED BY <1>4, <3>1, MintedRawParts DEF CursorInv
  <2>3. MintedTextsDecode'
    BY <1>1, <2>2 DEF MintedTextsDecode
  <2> QED BY <1>3, <2>1, <2>3 DEF CursorInv, Untouched, Reading, Verdicts
<1>5. CASE ~ (~ prefix \/ Len(text) % 4 = 1)
  <2>1. stage' = "decoding" /\ verdict' = verdict
    BY <1>5 DEF Submit
  <2>2. pos = 0 /\ acc = 0 /\ nbits = 0 /\ raw = <<>> /\ verdict = "none" /\ text \in Seq(Char \cup {Bad})
    BY <1>1 DEF CursorInv, Untouched, Unharmed
  <2>3. prefix' = TRUE /\ Len(text)' % 4 # 1
    <3>1. prefix \in BOOLEAN
      BY <1>5, <2>2 DEF CursorInv, Unharmed
    <3> QED BY <1>1, <1>5, <3>1
  <2>4. Held'
    <3>1. text' \in Seq(Char \cup {Bad}) /\ pos' = 0 /\ acc' = 0 /\ nbits' = 0 /\ raw' = <<>>
      BY <1>1, <1>2, <2>2
    <3>2. Decodes(text', 0, <<>>)
      BY DEF Decodes
    <3>3. pos' \in 0..Len(text)' /\ acc' \in Nat /\ nbits' = (6 * pos') % 8
      BY <3>1
    <3> QED BY <3>1, <3>2, <3>3 DEF Held
  <2> QED BY <1>3, <2>1, <2>2, <2>3, <2>4 DEF CursorInv, Untouched, Reading, Verdicts
<1> QED BY <1>4, <1>5

LEMMA DecodeCharStep == CursorInv /\ DecodeChar => CursorInv'
<1> SUFFICES ASSUME CursorInv, DecodeChar PROVE CursorInv'
  OBVIOUS
<1>1. /\ stage = "decoding" /\ pos < Len(text)
      /\ UNCHANGED <<minted, server, prefix, text, edits>>
  BY DEF DecodeChar
<1>2. prefix = TRUE /\ Len(text) % 4 # 1 /\ Held /\ verdict = "none" /\ text \in Seq(Char \cup {Bad})
  BY <1>1 DEF CursorInv, Reading, Unharmed
<1>3. Readers' /\ Unharmed'
  BY <1>1 DEF CursorInv, Readers, Unharmed, MintedRaw
<1>4. CASE text[pos + 1] = Bad
  <2>1. stage' = "judged" /\ verdict' = "malformed"
    BY <1>4 DEF DecodeChar, Judge
  <2>2. edits # 0
    <3>1. ASSUME edits = 0 PROVE text \in Seq(Char)
      BY <3>1, MintedRawParts DEF CursorInv, Unharmed
    <3>2. pos + 1 \in 1..Len(text)
      BY <1>1, <1>2 DEF Held
    <3>3. Bad \notin Char
      BY TextAssumption DEF Char
    <3> QED BY <1>4, <3>1, <3>2, <3>3
  <2>3. MintedTextsDecode'
    BY <1>1, <2>2 DEF MintedTextsDecode
  <2> QED BY <1>3, <2>1, <2>3 DEF CursorInv, Untouched, Reading, Verdicts
<1>5. CASE text[pos + 1] # Bad
  <2>1. stage' = "decoding" /\ verdict' = verdict
    BY <1>1, <1>5 DEF DecodeChar
  <2>2. Held'
    BY <1>2, <1>5, HeldStep
  <2>3. prefix' = TRUE /\ Len(text)' % 4 # 1
    BY <1>1, <1>2
  <2> QED BY <1>2, <1>3, <2>1, <2>2, <2>3 DEF CursorInv, Untouched, Reading, Verdicts
<1> QED BY <1>4, <1>5

LEMMA VerifyStep == CursorInv /\ Verify => CursorInv'
<1> SUFFICES ASSUME CursorInv, Verify PROVE CursorInv'
  OBVIOUS
<1>1. /\ stage = "decoding" /\ pos = Len(text) /\ stage' = "judged"
      /\ UNCHANGED <<minted, server, prefix, text, edits, decoder>>
  BY DEF Verify, Judge
<1>2. prefix = TRUE /\ Len(text) % 4 # 1 /\ Held /\ text \in Seq(Char \cup {Bad})
  BY <1>1 DEF CursorInv, Reading, Unharmed
<1>3. Readers' /\ Unharmed'
  BY <1>1 DEF CursorInv, Readers, Unharmed, MintedRaw
<1>4. UNCHANGED <<pos, acc, nbits, raw>>
  BY <1>1 DEF decoder
<1>5. verdict' = "ok" <=> CanonicalEnd /\ Accepted
  BY Zenon DEF Verify, Judge, Accepted
<1>6. verdict' = "ok" => WasRead'
  <2> SUFFICES ASSUME verdict' = "ok" PROVE WasRead'
    OBVIOUS
  <2>1. CanonicalEnd /\ Accepted
    BY <1>5
  <2>2. CanonicalEnd' /\ Accepted'
    BY <1>1, <1>4, <2>1 DEF CanonicalEnd, Accepted
  <2>3. Held'
    BY <1>1, <1>2, <1>4 DEF Held
  <2> QED BY <1>1, <1>2, <1>4, <2>2, <2>3 DEF WasRead
<1>7. MintedTextsDecode'
  <2> SUFFICES ASSUME edits = 0, minted.key = server.key, minted.list = server.list
               PROVE  verdict' = "ok" /\ raw = MintedRaw
    BY <1>1, <1>4 DEF MintedTextsDecode, MintedRaw
  <2>1. Readers /\ text = Encode(MintedRaw)
    BY DEF CursorInv, Unharmed
  <2>2. raw = MintedRaw
    <3>1. MintedRaw \in Seq(Byte) /\ Decodes(Encode(MintedRaw), Len(Encode(MintedRaw)), raw)
      BY <1>1, <1>2, <2>1, MintedRawParts DEF Held
    <3> QED BY <3>1, DecodeEncode
  <2>3. CanonicalEnd
    <3>1. LeftOver(text, Len(text)) = 0
      BY <2>1, MintedRawParts
    <3> QED BY <1>1, <1>2, <3>1, EndIsLeftOver
  <2>4. Accepted
    <3>1. minted.key \in Keys /\ minted.list \in Lists /\ minted.offset \in Offsets
      BY <2>1 DEF Readers
    <3> DEFINE body == Body(minted.list, minted.offset)
    <3>2. /\ Len(raw) = RAW_LEN
          /\ SubSeq(raw, 1, BODY_LEN) = body
          /\ SubSeq(raw, BODY_LEN + 1, RAW_LEN) = Mac[<<minted.key, body>>]
          /\ SubSeq(body, OFFSET_LEN + 1, BODY_LEN) = SnapshotId(minted.list)
          /\ SubSeq(body, 1, OFFSET_LEN) = minted.offset
          /\ <<minted.key, body>> \in DOMAIN Mac
      BY <2>2, <3>1, RawParts DEF MintedRaw
    <3> HIDE DEF body
    <3>3. MacOf(server.key, body) = Mac[<<minted.key, body>>]
      BY <3>2 DEF MacOf
    <3>4. minted.offset \in Boundaries[<<server.key, server.list>>]
      BY <2>1 DEF Readers
    <3> QED BY <3>2, <3>3, <3>4 DEF Accepted
  <2> QED BY <1>5, <2>2, <2>3, <2>4
<1> QED BY <1>1, <1>3, <1>6, <1>7 DEF CursorInv, Untouched, Reading, Verdicts

LEMMA StutterStep == CursorInv /\ UNCHANGED vars => CursorInv'
<1> SUFFICES ASSUME CursorInv, UNCHANGED vars PROVE CursorInv'
  OBVIOUS
<1>1. UNCHANGED <<minted, server, prefix, text, edits, stage, pos, acc, nbits, raw, verdict>>
  BY DEF vars, decoder
<1>2. Readers' /\ Unharmed' /\ Untouched'
  BY <1>1 DEF CursorInv, Readers, Unharmed, Untouched, MintedRaw
<1>3. Reading'
  BY <1>1 DEF CursorInv, Reading, Held
<1>4. Verdicts'
  BY <1>1 DEF CursorInv, Verdicts, WasRead, Held, CanonicalEnd, Accepted, MintedTextsDecode
<1> QED BY <1>1, <1>2, <1>3, <1>4 DEF CursorInv

LEMMA CursorInvHolds == Spec => []CursorInv
<1>1. CursorInv /\ [Next]_vars => CursorInv'
  <2> SUFFICES ASSUME CursorInv, [Next]_vars PROVE CursorInv'
    OBVIOUS
  <2> QED BY EditStep, SubmitStep, DecodeCharStep, VerifyStep, StutterStep DEF Next, Judged
<1> QED BY InitCursorInv, <1>1, PTL DEF Spec

(* Nobody but a holder of the key makes a cursor: a text that decode()     *)
(* accepts is spelled exactly as encode() spells one that the key signed   *)
(* for the list the reading process shows, at the start of one of its      *)
(* pages; no other text of the same bytes is taken, and one that was       *)
(* minted elsewhere is not.                                                *)
THEOREM MintedOnly == Spec => []OnlyMintedTexts
<1>1. CursorInv => OnlyMintedTexts
  <2> SUFFICES ASSUME CursorInv, verdict = "ok"
               PROVE  /\ edits = 0 => minted.list = server.list /\ minted.key = server.key
                      /\ \E o \in Boundaries[<<server.key, server.list>>] :
                           prefix /\ text = Encode(Raw(server.key, server.list, o))
    BY DEF OnlyMintedTexts
  <2>1. WasRead
    BY DEF CursorInv, Untouched, Reading, Verdicts
  <2>2. Readers /\ text \in Seq(Char \cup {Bad})
    BY DEF CursorInv, Unharmed
  <2>3. text = Encode(raw) /\ raw \in Seq(Byte)
    <3>1. text \in Seq(Char)
      <4>1. \A i \in 1..Len(text) : text[i] \in Char
        BY <2>1 DEF WasRead, Held
      <4> QED BY <2>2, <4>1
    <3>2. Decodes(text, Len(text), raw) /\ Len(text) % 4 # 1
      BY <2>1 DEF WasRead, Held
    <3>3. LeftOver(text, Len(text)) = 0
      BY <2>1, <2>2, EndIsLeftOver DEF WasRead
    <3> QED BY <3>1, <3>2, <3>3, EncodeDecode DEF Decodes
  <2> DEFINE body == SubSeq(raw, 1, BODY_LEN)
             tag == SubSeq(raw, BODY_LEN + 1, RAW_LEN)
  <2>4. /\ Len(raw) = RAW_LEN /\ MacOf(server.key, body) = tag
        /\ SubSeq(body, OFFSET_LEN + 1, BODY_LEN) = SnapshotId(server.list)
        /\ SubSeq(body, 1, OFFSET_LEN) \in Boundaries[<<server.key, server.list>>]
    BY <2>1 DEF WasRead, Accepted
  <2>5. server.key \in Keys /\ server.list \in Lists
    BY <2>2 DEF Readers
  <2>6. raw = body \o tag /\ Len(tag) = TAG_LEN /\ TAG_LEN # 0
    <3>1. BODY_LEN \in Nat /\ TAG_LEN \in Nat \ {0} /\ RAW_LEN = BODY_LEN + TAG_LEN
      BY LengthsAssumption DEF BODY_LEN, RAW_LEN
    <3>2. 1 \in 1..Len(raw) + 1 /\ BODY_LEN \in 1 - 1 .. Len(raw) /\ RAW_LEN \in BODY_LEN .. Len(raw)
      BY <2>4, <3>1
    <3>3. body \o tag = SubSeq(raw, 1, RAW_LEN)
      BY <2>3, <3>2, ConcatAdjacentSubSeq
    <3>4. SubSeq(raw, 1, RAW_LEN) = raw
      BY <2>3, <2>4, SubSeqFull
    <3>5. Len(tag) = (RAW_LEN - (BODY_LEN + 1)) + 1
      <4>1. \A i \in BODY_LEN + 1 .. RAW_LEN : raw[i] \in Byte
        BY <2>3, <2>4, <3>1, ElementOfSeq
      <4>2. BODY_LEN + 1 \in Int /\ RAW_LEN \in Int /\ BODY_LEN + 1 <= RAW_LEN
        BY <3>1
      <4> QED BY <4>1, <4>2, SubSeqProperties
    <3> QED BY <3>1, <3>3, <3>4, <3>5
  <2> HIDE DEF body, tag
  <2>7. <<server.key, body>> \in DOMAIN Mac /\ tag = Mac[<<server.key, body>>]
    <3>1. tag # <<>>
      BY <2>6
    <3> QED BY <2>4, <3>1 DEF MacOf
  <2>8. PICK l \in Lists, o \in Offsets : body = Body(l, o)
    BY <2>7, MacAssumption
  <2>9. l = server.list
    <3>1. SnapshotId(l) = SnapshotId(server.list)
      BY <2>4, <2>5, <2>8, RawParts
    <3>2. Frame(l) = Frame(server.list)
      BY <2>5, <3>1, DigestAssumption DEF SnapshotId
    <3>3. l \in Seq(Seq(Byte)) /\ server.list \in Seq(Seq(Byte))
      BY <2>5, TextAssumption
    <3> QED BY <3>2, <3>3, FrameInjective
  <2>10. raw = Raw(server.key, server.list, o)
    BY <2>6, <2>7, <2>8, <2>9 DEF Raw
  <2>11. edits = 0 => minted.list = server.list /\ minted.key = server.key
    <3> SUFFICES ASSUME edits = 0 PROVE minted.list = server.list /\ minted.key = server.key
      OBVIOUS
    <3>1. text = Encode(MintedRaw) /\ MintedRaw \in Seq(Byte)
      BY <2>2, MintedRawParts DEF CursorInv, Unharmed
    <3>2. raw = MintedRaw
      <4>1. Decodes(Encode(MintedRaw), Len(Encode(MintedRaw)), raw)
        BY <2>1, <3>1 DEF WasRead, Held
      <4> QED BY <3>1, <4>1, DecodeEncode
    <3>3. minted.key \in Keys /\ minted.list \in Lists /\ minted.offset \in Offsets
      BY <2>2 DEF Readers
    <3>4. Raw(minted.key, minted.list, minted.offset) = Raw(server.key, server.list, o)
      BY <2>10, <3>2 DEF MintedRaw
    <3>5. \A j, k \in Keys, m, n \in Lists, p, q \in Offsets : Raw(j, m, p) = Raw(k, n, q) => j = k /\ m = n
      BY RawTellsAll
    <3> QED BY <2>5, <3>3, <3>4, <3>5
  <2>12. prefix
    BY <2>1 DEF WasRead
  <2>13. o \in Boundaries[<<server.key, server.list>>]
    BY <2>4, <2>5, <2>8, RawParts
  <2> QED BY <2>3, <2>10, <2>11, <2>12, <2>13
<1> QED BY CursorInvHolds, <1>1, PTL

(* Whatever the lengths of its parts, and however little of its bits the   *)
(* decoder keeps: a cursor that comes back unharmed to a process with the  *)
(* same key and list is accepted, and decodes to the bytes it was made of. *)
THEOREM MintedDecode == Spec => []MintedTextsDecode
<1>1. CursorInv => MintedTextsDecode
  BY DEF CursorInv, Verdicts, MintedTextsDecode
<1> QED BY CursorInvHolds, <1>1, PTL
=============================================================================
