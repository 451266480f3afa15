--------------------------- MODULE UartFrame_proofs ---------------------------
(***************************************************************************)
(* Proofs about the bytes of the UART session, for every frame, payload    *)
(* and size of the buffer: the codec decodes what it encodes and notices   *)
(* every single damaged byte; the receiver stays in its buffer, never      *)
(* sends a command back, and after a pause of the host stays in sync.      *)
(*                                                                         *)
(* The CRC is a recursive function, and what it computes for data of every *)
(* length is shown by the least counterexample (LeastNat), which needs no  *)
(* theorem about an operator.                                              *)
(***************************************************************************)
EXTENDS UartFrame, SequenceTheorems, WellFoundedInduction, TLAPS

-----------------------------------------------------------------------------
(* Numbers.                                                                *)

\* A set of natural numbers that is not empty has a least element: what a
\* recursive function computes is proved from the least index at which it fails.
LEMMA LeastNat ==
  ASSUME NEW T \in SUBSET Nat, T # {}
  PROVE  \E m \in T : \A n \in T : m <= n
<1>1. IsWellFoundedOn(OpToRel(<, Nat), Nat)
  BY NatLessThanWellFounded
<1>2. \E m \in T : \A n \in T : ~(<<n, m>> \in OpToRel(<, Nat))
  BY <1>1, WFMin
<1>3. \A m, n \in Nat : m < n => <<m, n>> \in OpToRel(<, Nat)
  BY DEF OpToRel
<1>4. \E m \in T : \A n \in T : ~(n < m)
  BY <1>2, <1>3
<1> QED
  BY <1>4

\* Division with remainder.
LEMMA Division ==
  ASSUME NEW n \in Int
  PROVE  /\ n \div Base \in Int /\ n % Base \in Byte
         /\ n = Base * (n \div Base) + (n % Base)
BY FrameAssumption DEF Byte

\* What a register holds is its two bytes.
LEMMA Digits ==
  ASSUME NEW n \in 0 .. Base * Base - 1
  PROVE  /\ n % Base \in Byte /\ n \div Base \in Byte
         /\ n = (n % Base) + Base * (n \div Base)
BY FrameAssumption DEF Byte

\* Two bytes make a register, and are found in it again.
LEMMA DigitsOf ==
  ASSUME NEW h \in Byte, NEW l \in Byte
  PROVE  /\ h * Base + l \in 0 .. Base * Base - 1
         /\ (h * Base + l) % Base = l /\ (h * Base + l) \div Base = h
BY FrameAssumption DEF Byte

\* No multiple of Base but 0 is smaller than Base.
LEMMA NoMultiple ==
  ASSUME NEW d \in Int, NEW x \in Int, x = d * Base, -Base < x, x < Base
  PROVE  d = 0
<1>1. d >= 1 => d * Base >= Base
  BY FrameAssumption
<1>2. d <= -1 => d * Base <= -Base
  BY FrameAssumption
<1> QED
  BY <1>1, <1>2, FrameAssumption

\* Numbers less than Base apart that leave the same remainder are equal.
LEMMA SameRest ==
  ASSUME NEW m \in Int, NEW n \in Int, m % Base = n % Base, -Base < m - n, m - n < Base
  PROVE  m = n
<1> DEFINE p == m \div Base
           q == n \div Base
<1>1. p \in Int /\ q \in Int /\ m = Base * p + (m % Base) /\ n = Base * q + (n % Base)
      /\ m % Base \in Byte /\ n % Base \in Byte
  BY Division
<1> HIDE DEF p, q
<1>2. m % Base \in Int
  BY <1>1 DEF Byte
<1>3. Base \in Int
  BY FrameAssumption
<1>4. m - n = (p - q) * Base
  BY <1>1, <1>2, <1>3
<1>5. p - q = 0
  BY <1>1, <1>4, NoMultiple
<1> QED
  BY <1>3, <1>4, <1>5

\* Multiplying by 3 is invertible: Base is no multiple of 3.
LEMMA ThreeTimes ==
  ASSUME NEW i \in Byte, NEW j \in Byte, (3 * i) % Base = (3 * j) % Base
  PROVE  i = j
<1> DEFINE p == (3 * i) \div Base
           q == (3 * j) \div Base
           r == (3 * i) % Base
<1>1. i \in Int /\ j \in Int /\ 0 <= i /\ i < Base /\ 0 <= j /\ j < Base /\ Base \in Nat
  BY FrameAssumption DEF Byte
<1>2. p \in Int /\ q \in Int /\ 3 * i = Base * p + r /\ 3 * j = Base * q + r /\ r \in Int
  <2>1. 3 * i \in Int /\ 3 * j \in Int
    BY <1>1
  <2>2. p \in Int /\ 3 * i = Base * p + r /\ r \in Byte
    BY <2>1, Division
  <2>3. q \in Int /\ 3 * j = Base * q + r
    BY <2>1, Division
  <2> QED
    BY <2>2, <2>3, FrameAssumption DEF Byte
<1> HIDE DEF p, q, r
<1>3. 3 * (i - j) = (p - q) * Base
  BY <1>1, <1>2
<1> DEFINE d == p - q
<1>4. d \in Int /\ 3 * (i - j) = d * Base
  BY <1>2, <1>3
<1> HIDE DEF d
<1>5. d \in -2 .. 2
  <2>1. d >= 3 => d * Base >= 3 * Base
    BY <1>1, <1>4
  <2>2. d <= -3 => d * Base <= -3 * Base
    BY <1>1, <1>4
  <2> QED
    BY <1>1, <1>4, <2>1, <2>2
<1>6. \A e \in Int : Base # 3 * e
  <2>1. Base \in Nat /\ Base % 3 # 0
    BY FrameAssumption
  <2> QED
    BY <2>1
<1>7. \A e \in Int : d = 1 /\ e = i - j => Base = 3 * e
  BY <1>1, <1>4
<1>8. \A e \in Int : d = -1 /\ e = j - i => Base = 3 * e
  BY <1>1, <1>4
<1>9. \A e \in Int : d = 2 /\ e = Base - (i - j) => Base = 3 * e
  BY <1>1, <1>4
<1>10. \A e \in Int : d = -2 /\ e = Base - (j - i) => Base = 3 * e
  BY <1>1, <1>4
<1>11. i - j \in Int /\ j - i \in Int /\ Base - (i - j) \in Int /\ Base - (j - i) \in Int
  BY <1>1
<1>12. d = 0
  BY <1>5, <1>6, <1>7, <1>8, <1>9, <1>10, <1>11
<1> QED
  BY <1>1, <1>4, <1>12

-----------------------------------------------------------------------------
(* The register of the CRC (_crc16_ccitt).                                 *)

\* What the register can hold.
Register == 0 .. Base * Base - 1

\* A step of the register.
LEMMA ShiftTypes ==
  ASSUME NEW c \in Register, NEW b \in Byte
  PROVE  Shift[c][b] \in Register
<1> DEFINE i == ((c \div Base) + b) % Base
           h == (c + i) % Base
           l == (3 * i) % Base
<1>1. c \div Base \in Nat /\ b \in Nat /\ c \in Nat
  BY Digits DEF Byte, Register
<1>2. i \in Byte
  BY <1>1, Division
<1>3. h \in Byte /\ l \in Byte
  BY <1>1, <1>2, Division DEF Byte
<1> HIDE DEF h, l
<1>4. Shift[c][b] = h * Base + l
  BY DEF Shift, h, l, Register
<1> QED
  BY <1>3, <1>4, DigitsOf DEF Register

\* The two bytes of the register after a step.
LEMMA ShiftParts ==
  ASSUME NEW c \in Register, NEW b \in Byte
  PROVE  LET i == ((c \div Base) + b) % Base
         IN  /\ i \in Byte
             /\ Shift[c][b] \div Base = (c + i) % Base
             /\ Shift[c][b] % Base = (3 * i) % Base
<1> DEFINE i == ((c \div Base) + b) % Base
           h == (c + i) % Base
           l == (3 * i) % Base
<1>1. c \div Base \in Nat /\ b \in Nat /\ c \in Nat
  BY Digits DEF Byte, Register
<1>2. i \in Byte
  BY <1>1, Division
<1>3. h \in Byte /\ l \in Byte
  BY <1>1, <1>2, Division DEF Byte
<1> HIDE DEF h, l
<1>4. Shift[c][b] = h * Base + l
  BY DEF Shift, h, l, Register
<1>5. Shift[c][b] % Base = l /\ Shift[c][b] \div Base = h
  BY <1>3, <1>4, DigitsOf
<1> QED
  BY <1>2, <1>5 DEF h, l

\* A step is invertible in the byte ...
LEMMA ShiftByte ==
  ASSUME NEW c \in Register, NEW a \in Byte, NEW b \in Byte,
         Shift[c][a] = Shift[c][b]
  PROVE  a = b
<1> DEFINE i == ((c \div Base) + a) % Base
           j == ((c \div Base) + b) % Base
<1>1. i \in Byte /\ Shift[c][a] \div Base = (c + i) % Base
  BY ShiftParts
<1>2. j \in Byte /\ Shift[c][b] \div Base = (c + j) % Base
  BY ShiftParts
<1>3. c \div Base \in Int /\ c \in Int
  BY Digits DEF Byte, Register
<1> DEFINE q == c \div Base
<1>4. i = (q + a) % Base /\ j = (q + b) % Base /\ q \in Int
  BY <1>3
<1> HIDE DEF i, j, q
<1>5. \A x, y \in Byte : -Base < x - y /\ x - y < Base /\ x \in Int /\ y \in Int
  BY FrameAssumption DEF Byte
<1>6. i = j
  <2>1. c + i \in Int /\ c + j \in Int /\ (c + i) - (c + j) = i - j
    BY <1>1, <1>2, <1>3, <1>5
  <2>2. (c + i) % Base = (c + j) % Base
    BY <1>1, <1>2
  <2>3. c + i = c + j
    BY <1>1, <1>2, <1>5, <2>1, <2>2, SameRest
  <2> QED
    BY <1>1, <1>2, <1>3, <1>5, <2>3
<1>7. q + a \in Int /\ q + b \in Int /\ (q + a) - (q + b) = a - b
  BY <1>4, <1>5
<1>8. q + a = q + b
  BY <1>4, <1>5, <1>6, <1>7, SameRest
<1> QED
  BY <1>4, <1>5, <1>8

\* ... and in the register.
LEMMA ShiftRegister ==
  ASSUME NEW c \in Register, NEW d \in Register, NEW b \in Byte,
         Shift[c][b] = Shift[d][b]
  PROVE  c = d
<1> DEFINE p == c \div Base
           q == d \div Base
           k == c % Base
           m == d % Base
           i == (p + b) % Base
           j == (q + b) % Base
<1>1. /\ i \in Byte /\ Shift[c][b] \div Base = (c + i) % Base
      /\ Shift[c][b] % Base = (3 * i) % Base
  BY ShiftParts
<1>2. /\ j \in Byte /\ Shift[d][b] \div Base = (d + j) % Base
      /\ Shift[d][b] % Base = (3 * j) % Base
  BY ShiftParts
<1>3. i = j
  BY <1>1, <1>2, ThreeTimes
<1>4. /\ p \in Byte /\ k \in Byte /\ c = k + Base * p
      /\ q \in Byte /\ m \in Byte /\ d = m + Base * q
  BY Digits DEF Register
<1>5. i = (p + b) % Base /\ j = (q + b) % Base
  OBVIOUS
<1> HIDE DEF p, q, k, m, i, j
<1>6. \A x, y \in Byte : -Base < x - y /\ x - y < Base /\ x \in Int /\ y \in Int
  BY FrameAssumption DEF Byte
<1>7. p = q
  <2>1. p + b \in Int /\ q + b \in Int /\ (p + b) - (q + b) = p - q
    BY <1>4, <1>6
  <2>2. (p + b) % Base = (q + b) % Base
    BY <1>3, <1>5
  <2>3. -Base < (p + b) - (q + b) /\ (p + b) - (q + b) < Base
    BY <1>4, <1>6, <2>1
  <2>4. p + b = q + b
    BY <2>1, <2>2, <2>3, SameRest
  <2> QED
    BY <1>4, <1>6, <2>4
<1>8. c = d
  <2>1. Base \in Nat /\ Base * p \in Int /\ i \in Int
    <3>1. Base \in Nat
      BY FrameAssumption
    <3>2. p \in Int /\ i \in Int
      BY <1>1, <1>4, <1>6
    <3> QED
      BY <3>1, <3>2
  <2>2. c + i \in Int /\ d + i \in Int /\ (c + i) - (d + i) = k - m
    BY <1>4, <1>6, <1>7, <2>1
  <2>3. (c + i) % Base = (d + i) % Base
    BY <1>1, <1>2, <1>3
  <2>4. c + i = d + i
    BY <1>4, <1>6, <2>2, <2>3, SameRest
  <2> QED
    BY <1>4, <1>6, <2>1, <2>4
<1> QED
  BY <1>8

\* g is what the register holds after each of the first n bytes of data.
Follows(g, data, n) ==
  \A i \in 0 .. n :
    g[i] = IF i = 0 THEN Base * Base - 1 ELSE Shift[g[i - 1]][data[i]]

\* There is such a function, whatever the data.
LEMMA FollowsExists ==
  ASSUME NEW data \in Seq(Byte), NEW n \in 0 .. Len(data)
  PROVE  \E g \in [0 .. n -> Register] : Follows(g, data, n)
<1> DEFINE Has(k) == \E g \in [0 .. k -> Register] : Follows(g, data, k)
           T == {k \in 0 .. Len(data) : ~Has(k)}
<1> SUFFICES ASSUME ~Has(n) PROVE FALSE
  OBVIOUS
<1>1. Len(data) \in Nat
  OBVIOUS
<1>2. n \in T
  OBVIOUS
<1>3. T \in SUBSET Nat /\ T # {}
  BY <1>1, <1>2
<1> HIDE DEF T
<1>4. PICK m \in T : \A k \in T : m <= k
  BY <1>3, LeastNat
<1> USE DEF T
<1>5. m \in 0 .. Len(data) /\ ~Has(m)
  BY <1>4
<1>6. Base * Base - 1 \in Register
  BY FrameAssumption DEF Register
<1>7. m # 0
  <2> DEFINE g == [i \in 0 .. 0 |-> Base * Base - 1]
  <2>1. g \in [0 .. 0 -> Register]
    BY <1>6
  <2>2. Follows(g, data, 0)
    BY DEF Follows
  <2> QED
    BY <1>5, <2>1, <2>2
<1>8. m - 1 \in 0 .. Len(data) /\ ~(m <= m - 1)
  BY <1>1, <1>5, <1>7
<1>9. Has(m - 1)
  BY <1>4, <1>8
<1>10. PICK g \in [0 .. (m - 1) -> Register] : Follows(g, data, m - 1)
  BY <1>9
<1> DEFINE h == [i \in 0 .. m |->
                   IF i = m THEN Shift[g[m - 1]][data[m]] ELSE g[i]]
<1>11. g[m - 1] \in Register /\ data[m] \in Byte
  BY <1>1, <1>5, <1>8
<1>12. h \in [0 .. m -> Register]
  BY <1>5, <1>7, <1>11, ShiftTypes
<1>13. Follows(h, data, m)
  BY <1>5, <1>7, <1>10 DEF Follows
<1> QED
  BY <1>5, <1>12, <1>13

\* Crc16 is the last value of it.
LEMMA CrcFollows ==
  ASSUME NEW data \in Seq(Byte)
  PROVE  \E g \in [0 .. Len(data) -> Register] :
           Follows(g, data, Len(data)) /\ Crc16(data) = g[Len(data)]
<1> DEFINE n == Len(data)
           Is(c) == c = [i \in 0 .. n |->
             IF i = 0 THEN Base * Base - 1 ELSE Shift[c[i - 1]][data[i]]]
           crc == CHOOSE c : Is(c)
<1>1. n \in Nat /\ DOMAIN data = 1 .. n
  OBVIOUS
<1>2. PICK g \in [0 .. n -> Register] : Follows(g, data, n)
  BY <1>1, FollowsExists
<1>3. Is(g)
  BY <1>1, <1>2 DEF Follows
<1>4. Crc16(data) = crc[n]
  BY DEF Crc16
<1> HIDE DEF Is
<1>5. Is(crc)
  BY <1>3
<1> HIDE DEF crc
<1> USE DEF Is
<1>6. Follows(crc, data, n) /\ crc = [i \in 0 .. n |-> crc[i]]
  BY <1>5, <1>1 DEF Follows
<1>7. \A i \in 0 .. n : crc[i] \in Register
  <2> DEFINE T == {i \in 0 .. n : crc[i] \notin Register}
  <2> SUFFICES ASSUME T # {} PROVE FALSE
    OBVIOUS
  <2>1. T \in SUBSET Nat
    BY <1>1
  <2> HIDE DEF T
  <2>2. PICK m \in T : \A k \in T : m <= k
    BY <2>1, LeastNat
  <2> USE DEF T
  <2>3. m \in 0 .. n /\ crc[m] \notin Register
    BY <2>2
  <2>4. m # 0
    <3>1. 0 \in 0 .. n /\ Base * Base - 1 \in Register
      BY <1>1, FrameAssumption DEF Register
    <3> QED
      BY <2>3, <3>1, <1>6 DEF Follows
  <2>5. m - 1 \in 0 .. n /\ ~(m <= m - 1)
    BY <1>1, <2>3, <2>4
  <2>6. crc[m - 1] \in Register
    BY <2>2, <2>5
  <2>7. data[m] \in Byte
    BY <1>1, <2>3, <2>4
  <2>8. crc[m] = Shift[crc[m - 1]][data[m]]
    BY <1>6, <2>3, <2>4 DEF Follows
  <2> QED
    BY <2>3, <2>6, <2>7, <2>8, ShiftTypes
<1>8. crc \in [0 .. n -> Register]
  BY <1>6, <1>7
<1> QED
  BY <1>4, <1>6, <1>8

\* A CRC fits the register.
LEMMA CrcTypes ==
  ASSUME NEW data \in Seq(Byte) PROVE Crc16(data) \in Register
<1>1. PICK g \in [0 .. Len(data) -> Register] : Crc16(data) = g[Len(data)]
  BY CrcFollows
<1>2. Len(data) \in 0 .. Len(data)
  OBVIOUS
<1> QED
  BY <1>1, <1>2

\* A single damaged byte changes the CRC: the register differs after that byte
\* and, from the same bytes, never becomes the same again.
LEMMA CrcDetects ==
  ASSUME NEW s \in Seq(Byte), NEW t \in Seq(Byte), Len(s) = Len(t),
         NEW j \in 1 .. Len(s), s[j] # t[j],
         \A i \in 1 .. Len(s) : i # j => s[i] = t[i]
  PROVE  Crc16(s) # Crc16(t)
<1> DEFINE n == Len(s)
<1>1. n \in Nat /\ \A i \in 1 .. n : s[i] \in Byte /\ t[i] \in Byte
  OBVIOUS
<1>2. PICK g \in [0 .. n -> Register] : Follows(g, s, n) /\ Crc16(s) = g[n]
  BY CrcFollows
<1>3. PICK h \in [0 .. n -> Register] : Follows(h, t, n) /\ Crc16(t) = h[n]
  BY CrcFollows
<1> HIDE DEF n
<1>4. /\ g[0] = h[0]
      /\ \A i \in 1 .. n : /\ i - 1 \in 0 .. n
                           /\ g[i] = Shift[g[i - 1]][s[i]]
                           /\ h[i] = Shift[h[i - 1]][t[i]]
  BY <1>1, <1>2, <1>3 DEF Follows
<1>5. \A i \in 0 .. n : i < j => g[i] = h[i]
  <2> DEFINE T == {i \in 0 .. n : i < j /\ g[i] # h[i]}
  <2> SUFFICES ASSUME T # {} PROVE FALSE
    OBVIOUS
  <2>1. T \in SUBSET Nat
    BY <1>1
  <2> HIDE DEF T
  <2>2. PICK m \in T : \A k \in T : m <= k
    BY <2>1, LeastNat
  <2> USE DEF T
  <2>3. m \in 0 .. n /\ m < j /\ g[m] # h[m]
    BY <2>2
  <2>4. m \in 1 .. n /\ m - 1 \in 0 .. n /\ m - 1 < j /\ ~(m <= m - 1) /\ m # j
    BY <1>1, <1>4, <2>3 DEF n
  <2>5. g[m - 1] = h[m - 1]
    BY <2>2, <2>4
  <2> QED
    BY <1>4, <2>3, <2>4, <2>5 DEF n
<1>6. g[j] # h[j]
  <2>1. j \in 1 .. n /\ j - 1 \in 0 .. n /\ j - 1 < j
    BY <1>1 DEF n
  <2>2. g[j - 1] = h[j - 1] /\ g[j - 1] \in Register
    BY <1>2, <1>5, <2>1
  <2>3. g[j] = Shift[g[j - 1]][s[j]] /\ h[j] = Shift[g[j - 1]][t[j]]
    BY <1>4, <2>1, <2>2
  <2>4. s[j] \in Byte /\ t[j] \in Byte
    BY <1>1, <2>1
  <2>5. Shift[g[j - 1]][s[j]] # Shift[g[j - 1]][t[j]]
    BY <2>2, <2>4, ShiftByte
  <2> QED
    BY <2>3, <2>5
<1>7. \A i \in 0 .. n : i >= j => g[i] # h[i]
  <2> DEFINE T == {i \in 0 .. n : i >= j /\ g[i] = h[i]}
  <2> SUFFICES ASSUME T # {} PROVE FALSE
    OBVIOUS
  <2>1. T \in SUBSET Nat
    BY <1>1
  <2> HIDE DEF T
  <2>2. PICK m \in T : \A k \in T : m <= k
    BY <2>1, LeastNat
  <2> USE DEF T
  <2>3. m \in 0 .. n /\ m >= j /\ g[m] = h[m]
    BY <2>2
  <2>4. /\ m \in 1 .. n /\ m - 1 \in 0 .. n /\ m - 1 >= j /\ m # j
        /\ ~(m <= m - 1)
    BY <1>1, <1>6, <2>3 DEF n
  <2>5. g[m - 1] # h[m - 1]
    BY <2>2, <2>4
  <2>6. s[m] = t[m] /\ s[m] \in Byte
    BY <1>1, <2>4 DEF n
  <2>7. g[m - 1] \in Register /\ h[m - 1] \in Register
    BY <1>2, <1>3, <2>4
  <2>8. Shift[g[m - 1]][s[m]] # Shift[h[m - 1]][s[m]]
    BY <2>5, <2>6, <2>7, ShiftRegister
  <2>9. g[m] = Shift[g[m - 1]][s[m]] /\ h[m] = Shift[h[m - 1]][s[m]]
    BY <1>4, <2>4, <2>6
  <2> QED
    BY <2>3, <2>8, <2>9
<1> QED
  BY <1>1, <1>2, <1>3, <1>7 DEF n

-----------------------------------------------------------------------------
(* Frames (loxboot_uart_frame_encode and loxboot_uart_frame_decode).       *)

\* A number in two bytes is found in them again.
LEMMA TwoBytesTypes ==
  ASSUME NEW n \in Register
  PROVE  /\ TwoBytes(n) \in Seq(Byte) /\ Len(TwoBytes(n)) = 2
         /\ Number(TwoBytes(n)) = n
BY Digits DEF TwoBytes, Number, Register

\* Two bytes that are the same number are the same bytes.
LEMMA SameNumber ==
  ASSUME NEW a \in Seq(Byte), NEW b \in Seq(Byte), Len(a) = 2, Len(b) = 2,
         Number(a) = Number(b)
  PROVE  a[1] = b[1] /\ a[2] = b[2]
<1>1. a[1] \in Byte /\ a[2] \in Byte /\ b[1] \in Byte /\ b[2] \in Byte
  <2>1. 1 \in 1 .. 2 /\ 2 \in 1 .. 2
    OBVIOUS
  <2> QED
    BY <2>1, ElementOfSeq
<1>2. /\ a[1] \in Nat /\ b[1] \in Nat /\ a[2] \in Nat /\ b[2] \in Nat
      /\ Base \in Nat
  BY <1>1, FrameAssumption DEF Byte
<1>3. a[1] + Base * a[2] = a[2] * Base + a[1] /\ b[1] + Base * b[2] = b[2] * Base + b[1]
  BY <1>2
<1>4. /\ (a[2] * Base + a[1]) % Base = a[1] /\ (a[2] * Base + a[1]) \div Base = a[2]
      /\ (b[2] * Base + b[1]) % Base = b[1] /\ (b[2] * Base + b[1]) \div Base = b[2]
  BY <1>1, DigitsOf
<1> QED
  BY <1>3, <1>4 DEF Number

\* The bytes of a frame that its CRC covers.
Body(cmd, payload) == <<cmd>> \o TwoBytes(Len(payload)) \o payload

\* w is s, t and u, one after the other.
Parts(w, s, t, u) ==
  /\ Len(w) = Len(s) + Len(t) + Len(u)
  /\ \A i \in 1 .. Len(s) : w[i] = s[i]
  /\ \A i \in 1 .. Len(t) : w[Len(s) + i] = t[i]
  /\ \A i \in 1 .. Len(u) : w[Len(s) + Len(t) + i] = u[i]

\* So is their concatenation.
LEMMA ThreeParts ==
  ASSUME NEW S, NEW s \in Seq(S), NEW t \in Seq(S), NEW u \in Seq(S)
  PROVE  s \o t \o u \in Seq(S) /\ Parts(s \o t \o u, s, t, u)
BY DEF Parts

\* Where the parts of a body are.
LEMMA BodyFacts ==
  ASSUME NEW cmd \in Byte, NEW payload \in Seq(Byte), Len(payload) \in Register
  PROVE  /\ Body(cmd, payload) \in Seq(Byte)
         /\ Len(Body(cmd, payload)) = Len(payload) + 3
         /\ Body(cmd, payload)[1] = cmd
         /\ Body(cmd, payload)[2] = TwoBytes(Len(payload))[1]
         /\ Body(cmd, payload)[3] = TwoBytes(Len(payload))[2]
         /\ \A i \in 1 .. Len(payload) : Body(cmd, payload)[i + 3] = payload[i]
<1> DEFINE two == TwoBytes(Len(payload))
<1>1. two \in Seq(Byte) /\ Len(two) = 2
  BY TwoBytesTypes
<1>2. <<cmd>> \in Seq(Byte) /\ Len(<<cmd>>) = 1 /\ Len(payload) \in Nat
  BY LenProperties
<1>3. Body(cmd, payload) = <<cmd>> \o two \o payload
  BY DEF Body
<1> DEFINE b == Body(cmd, payload)
<1> HIDE DEF two, b
<1>4. /\ b \in Seq(Byte) /\ Len(b) = 1 + 2 + Len(payload)
      /\ \A i \in 1 .. 1 : b[i] = <<cmd>>[i]
      /\ \A i \in 1 .. 2 : b[1 + i] = two[i]
      /\ \A i \in 1 .. Len(payload) : b[1 + 2 + i] = payload[i]
  <2>1. b = <<cmd>> \o two \o payload
    BY <1>3 DEF b
  <2>2. payload \in Seq(Byte)
    OBVIOUS
  <2> DEFINE c == <<cmd>>
  <2>3. c \in Seq(Byte) /\ Len(c) = 1 /\ b = c \o two \o payload
    BY <2>1, <1>2
  <2> HIDE DEF b, c
  <2>4. c \o two \o payload \in Seq(Byte) /\ Parts(c \o two \o payload, c, two, payload)
    BY <2>3, <2>2, <1>1, ThreeParts
  <2>5. b \in Seq(Byte) /\ Parts(b, c, two, payload)
    BY <2>3, <2>4
  <2> QED
    BY <2>3, <2>5, <1>1, <1>2 DEF c, Parts
<1>5. /\ Len(b) = Len(payload) + 3
      /\ b[1] = cmd /\ b[2] = two[1] /\ b[3] = two[2]
      /\ \A i \in 1 .. Len(payload) : b[i + 3] = payload[i]
  BY <1>2, <1>4
<1> QED
  BY <1>4, <1>5 DEF b, two

\* The bytes f are the frame of a command and a payload.
IsFrame(f, cmd, payload) ==
  LET n == Len(payload)
  IN  /\ f \in Seq(Byte)
      /\ Len(f) = n + 6
      /\ f[1] = SOF /\ f[2] = cmd
      /\ Announced(f) = n
      /\ SubSeq(f, 5, n + 4) = payload
      /\ SubSeq(f, 2, n + 4) = Body(cmd, payload)
      /\ Number(SubSeq(f, n + 5, n + 6)) = Crc16(Body(cmd, payload))

\* What is encoded is a frame: where its parts are.
LEMMA FrameFacts ==
  ASSUME NEW cmd \in Byte, NEW payload \in Seq(Byte), Len(payload) \in Register
  PROVE  IsFrame(FrameBytes(cmd, payload), cmd, payload)
<1> SUFFICES ASSUME NEW f, f = FrameBytes(cmd, payload)
             PROVE  IsFrame(f, cmd, payload)
  OBVIOUS
<1> DEFINE n == Len(payload)
           body == Body(cmd, payload)
           two == TwoBytes(n)
           crc == TwoBytes(Crc16(body))
<1>1. body \in Seq(Byte) /\ Len(body) = n + 3 /\ n \in Nat
  BY BodyFacts, LenProperties
<1>2. body[1] = cmd /\ body[2] = two[1] /\ body[3] = two[2]
  BY BodyFacts
<1>3. \A i \in 1 .. n : body[i + 3] = payload[i]
  BY BodyFacts
<1>4. /\ crc \in Seq(Byte) /\ Len(crc) = 2
      /\ Number(crc) = Crc16(body)
  BY <1>1, CrcTypes, TwoBytesTypes
<1>5. two \in Seq(Byte) /\ Len(two) = 2 /\ Number(two) = n
  BY TwoBytesTypes
<1>6. f = <<SOF>> \o body \o crc /\ SOF \in Byte
  BY FrameAssumption DEF FrameBytes, Body
<1> HIDE DEF body, two, crc
<1>7. /\ f \in Seq(Byte) /\ Len(f) = n + 6
      /\ \A i \in 1 .. 1 : f[i] = <<SOF>>[i]
      /\ \A i \in 1 .. n + 3 : f[1 + i] = body[i]
      /\ \A i \in 1 .. 2 : f[1 + (n + 3) + i] = crc[i]
  <2>1. <<SOF>> \in Seq(Byte) /\ Len(<<SOF>>) = 1
    BY <1>6
  <2>2. /\ f \in Seq(Byte) /\ Len(f) = 1 + (n + 3) + 2
        /\ \A i \in 1 .. 1 : f[i] = <<SOF>>[i]
        /\ \A i \in 1 .. n + 3 : f[1 + i] = body[i]
        /\ \A i \in 1 .. 2 : f[1 + (n + 3) + i] = crc[i]
    <3> DEFINE c == <<SOF>>
    <3>1. c \in Seq(Byte) /\ Len(c) = 1 /\ f = c \o body \o crc
      BY <2>1, <1>6
    <3> HIDE DEF c
    <3>2. c \o body \o crc \in Seq(Byte) /\ Parts(c \o body \o crc, c, body, crc)
      BY <3>1, <1>1, <1>4, ThreeParts
    <3>3. f \in Seq(Byte) /\ Parts(f, c, body, crc)
      BY <3>1, <3>2
    <3> QED
      BY <3>1, <3>3, <1>1, <1>4 DEF c, Parts
  <2> QED
    BY <2>2, <1>1
<1>8. /\ f[1] = SOF
      /\ \A i \in 1 .. n + 3 : f[i + 1] = body[i]
      /\ f[n + 5] = crc[1] /\ f[n + 6] = crc[2]
  BY <1>1, <1>7
<1>9. f[2] = cmd /\ f[3] = two[1] /\ f[4] = two[2]
  <2>1. 1 \in 1 .. n + 3 /\ 2 \in 1 .. n + 3 /\ 3 \in 1 .. n + 3
    BY <1>1
  <2> QED
    BY <2>1, <1>2, <1>8
<1>10. Announced(f) = n
  <2>1. SubSeq(f, 3, 4)[1] = f[3] /\ SubSeq(f, 3, 4)[2] = f[4]
    BY <1>1, <1>7
  <2> QED
    BY <2>1, <1>5, <1>9 DEF Announced, Number
<1>11. SubSeq(f, 5, n + 4) = payload
  <2> DEFINE s == SubSeq(f, 5, n + 4)
  <2>1. s \in Seq(Byte) /\ Len(s) = n /\ \A i \in 1 .. n : s[i] = f[i + 4]
    BY <1>1, <1>7
  <2>2. \A i \in 1 .. n : /\ i + 3 \in 1 .. n + 3 /\ (i + 3) + 1 = i + 4
                           /\ f[(i + 3) + 1] = body[i + 3]
    BY <1>1, <1>8
  <2>3. \A i \in 1 .. n : s[i] = payload[i]
    BY <2>1, <2>2, <1>3
  <2> HIDE DEF s
  <2>4. s = payload
    BY <2>1, <2>3, SeqEqual
  <2> QED
    BY <2>4 DEF s
<1>12. SubSeq(f, 2, n + 4) = body
  <2> DEFINE s == SubSeq(f, 2, n + 4)
  <2>1. s \in Seq(Byte) /\ Len(s) = n + 3 /\ \A i \in 1 .. n + 3 : s[i] = f[i + 1]
    BY <1>1, <1>7
  <2>2. \A i \in 1 .. n + 3 : s[i] = body[i]
    BY <2>1, <1>8
  <2> HIDE DEF s
  <2>3. s = body
    BY <2>1, <2>2, <1>1, SeqEqual
  <2> QED
    BY <2>3 DEF s
<1>13. Number(SubSeq(f, n + 5, n + 6)) = Number(crc)
  <2>1. /\ SubSeq(f, n + 5, n + 6)[1] = f[n + 5]
        /\ SubSeq(f, n + 5, n + 6)[2] = f[n + 6]
    BY <1>1, <1>7
  <2> QED
    BY <2>1, <1>8 DEF Number
<1> QED
  BY <1>4, <1>7, <1>8, <1>9, <1>10, <1>11, <1>12, <1>13 DEF body, IsFrame

\* What is encoded is decoded to the same command and payload, whatever they
\* are, from a buffer that holds the frame and perhaps more.
THEOREM RoundTrip ==
  ASSUME NEW cmd \in Byte, NEW payload \in Seq(Byte), Len(payload) <= MaxPayload,
         NEW n \in Nat, n >= Len(payload) + 6
  PROVE  Decode(FrameBytes(cmd, payload), n) = <<[cmd |-> cmd, payload |-> payload]>>
<1>1. Len(payload) \in Register /\ Len(payload) \in Nat
  BY FrameAssumption, LenProperties DEF Register
<1> SUFFICES ASSUME NEW f, f = FrameBytes(cmd, payload)
             PROVE  Decode(f, n) = <<[cmd |-> cmd, payload |-> payload]>>
  OBVIOUS
<1> DEFINE k == Len(payload)
<1>2. IsFrame(f, cmd, payload)
  BY <1>1, FrameFacts
<1>3. /\ f[1] = SOF /\ f[2] = cmd /\ Announced(f) = k
      /\ SubSeq(f, 5, k + 4) = payload
      /\ Number(SubSeq(f, k + 5, k + 6)) = Crc16(SubSeq(f, 2, k + 4))
  BY <1>2 DEF IsFrame
<1>4. n >= 6 /\ k <= MaxPayload /\ n >= 6 + k /\ k \in Nat
  BY <1>1
<1> HIDE DEF k
<1>5. Decodes(f, n)
  BY <1>3, <1>4 DEF Decodes
<1> QED
  BY <1>3, <1>5 DEF Decode

\* A length is a number.
LEMMA AnnouncedTypes ==
  ASSUME NEW b \in Seq(Byte), Len(b) >= 4
  PROVE  Announced(b) \in Nat
<1>1. b[3] \in Nat /\ b[4] \in Nat
  <2>1. b[3] \in Byte /\ b[4] \in Byte
    OBVIOUS
  <2> QED
    BY <2>1 DEF Byte
<1>2. SubSeq(b, 3, 4)[1] = b[3] /\ SubSeq(b, 3, 4)[2] = b[4]
  OBVIOUS
<1> QED
  BY <1>1, <1>2, FrameAssumption DEF Announced, Number

\* The length depends on bytes 3 and 4 only.
LEMMA SameAnnounced ==
  ASSUME NEW s \in Seq(Byte), NEW t \in Seq(Byte), Len(s) >= 4, Len(t) >= 4,
         s[3] = t[3], s[4] = t[4]
  PROVE  Announced(s) = Announced(t)
<1>1. /\ SubSeq(t, 3, 4)[1] = t[3] /\ SubSeq(t, 3, 4)[2] = t[4]
      /\ SubSeq(s, 3, 4)[1] = s[3] /\ SubSeq(s, 3, 4)[2] = s[4]
  OBVIOUS
<1> QED
  BY <1>1 DEF Announced, Number

\* No frame with one damaged byte is decoded, be it of the command, the payload
\* or the CRC, whatever the frame and the damage.
THEOREM DamageDetected ==
  ASSUME NEW cmd \in Byte, NEW payload \in Seq(Byte), Len(payload) <= MaxPayload,
         NEW f, f = FrameBytes(cmd, payload),
         NEW i \in (1 .. Len(f)) \ {1, 3, 4}, NEW b \in Byte, b # f[i]
  PROVE  ~Decodes([f EXCEPT ![i] = b], Len(f))
<1> DEFINE k == Len(payload)
           g == [f EXCEPT ![i] = b]
<1>1. k \in Register /\ k \in Nat
  BY FrameAssumption, LenProperties DEF Register
<1>2. IsFrame(f, cmd, payload)
  BY <1>1, FrameFacts
<1>3. /\ f \in Seq(Byte) /\ Len(f) = k + 6 /\ Announced(f) = k
      /\ SubSeq(f, 2, k + 4) = Body(cmd, payload)
      /\ Number(SubSeq(f, k + 5, k + 6)) = Crc16(SubSeq(f, 2, k + 4))
  BY <1>2 DEF IsFrame
<1>4. /\ g \in Seq(Byte) /\ Len(g) = k + 6
      /\ \A x \in 1 .. k + 6 : g[x] = IF x = i THEN b ELSE f[x]
      /\ i \in 1 .. k + 6 /\ i \notin {1, 3, 4}
  BY <1>3
<1> HIDE DEF k, g
<1>5. Announced(g) = k
  <2>1. g[3] = f[3] /\ g[4] = f[4] /\ Len(f) >= 4 /\ Len(g) >= 4
    BY <1>1, <1>3, <1>4
  <2> QED
    BY <1>3, <1>4, <2>1, SameAnnounced
<1> SUFFICES ASSUME Number(SubSeq(g, k + 5, k + 6)) = Crc16(SubSeq(g, 2, k + 4))
             PROVE  FALSE
  BY <1>5 DEF Decodes, g
<1> DEFINE fb == SubSeq(f, 2, k + 4)
           gb == SubSeq(g, 2, k + 4)
           fc == SubSeq(f, k + 5, k + 6)
           gc == SubSeq(g, k + 5, k + 6)
<1>6. /\ fb \in Seq(Byte) /\ Len(fb) = k + 3 /\ \A x \in 1 .. k + 3 : fb[x] = f[x + 1]
      /\ gb \in Seq(Byte) /\ Len(gb) = k + 3 /\ \A x \in 1 .. k + 3 : gb[x] = g[x + 1]
  BY <1>1, <1>3, <1>4
<1>7. /\ fc \in Seq(Byte) /\ Len(fc) = 2 /\ fc[1] = f[k + 5] /\ fc[2] = f[k + 6]
      /\ gc \in Seq(Byte) /\ Len(gc) = 2 /\ gc[1] = g[k + 5] /\ gc[2] = g[k + 6]
  BY <1>1, <1>3, <1>4
<1>8. Number(fc) = Crc16(fb) /\ Number(gc) = Crc16(gb)
  BY <1>3
<1> HIDE DEF fb, gb, fc, gc
<1>9. CASE i \in {k + 5, k + 6}
  <2>1. \A x \in 1 .. k + 3 : gb[x] = fb[x]
    BY <1>1, <1>4, <1>6, <1>9
  <2>2. gb = fb
    BY <1>6, <2>1, SeqEqual
  <2>3. fc[1] = gc[1] /\ fc[2] = gc[2]
    BY <1>7, <1>8, <2>2, SameNumber
  <2> QED
    BY <1>1, <1>4, <1>7, <1>9, <2>3
<1>10. CASE i \in 2 .. k + 4
  <2>1. fc[1] = gc[1] /\ fc[2] = gc[2]
    BY <1>1, <1>4, <1>7, <1>10
  <2>2. Crc16(fb) = Crc16(gb)
    BY <1>8, <2>1 DEF Number
  <2>3. i - 1 \in 1 .. k + 3 /\ (i - 1) + 1 = i
    BY <1>1, <1>10
  <2>4. fb[i - 1] # gb[i - 1]
    BY <1>4, <1>6, <2>3
  <2>5. ASSUME NEW x \in 1 .. k + 3, x # i - 1 PROVE fb[x] = gb[x]
    <3>1. x + 1 \in 1 .. k + 6 /\ x + 1 # i
      BY <1>1, <1>10, <2>5
    <3>2. g[x + 1] = f[x + 1]
      BY <1>4, <3>1
    <3> QED
      BY <1>6, <3>2
  <2> DEFINE j == i - 1
  <2>6. j \in 1 .. Len(fb) /\ Len(fb) = Len(gb) /\ fb[j] # gb[j]
    BY <1>6, <2>3, <2>4
  <2>7. \A x \in 1 .. Len(fb) : x # j => fb[x] = gb[x]
    BY <1>6, <2>5
  <2> HIDE DEF j
  <2> QED
    BY <1>6, <2>2, <2>6, <2>7, CrcDetects
<1> QED
  BY <1>1, <1>4, <1>9, <1>10

\* What is decoded is a frame.
LEMMA DecodeTypes ==
  ASSUME NEW b \in Seq(Byte), NEW n \in Nat, n <= Len(b)
  PROVE  Decode(b, n) \in Seq(Frame)
<1>1. CASE ~Decodes(b, n)
  BY <1>1 DEF Decode
<1>2. CASE Decodes(b, n)
  <2> DEFINE k == Announced(b)
  <2>1. n >= 6 /\ n >= 6 + k
    BY <1>2 DEF Decodes
  <2>2. k \in Nat
    BY <2>1, AnnouncedTypes
  <2> HIDE DEF k
  <2>3. SubSeq(b, 5, k + 4) \in Seq(Byte) /\ b[2] \in Byte
    BY <2>1, <2>2
  <2>4. [cmd |-> b[2], payload |-> SubSeq(b, 5, k + 4)] \in Frame
    BY <2>3 DEF Frame
  <2> QED
    BY <1>2, <2>4 DEF Decode, k
<1> QED
  BY <1>1, <1>2

-----------------------------------------------------------------------------
(* Types, and what the host receives.                                      *)

\* Bytes the host may receive.
Response(r) ==
  /\ r \in Seq(Byte)
  /\ Decodes(r, Len(r)) => r[2] \in {RspOK, RspError, RspStatus}

\* In the middle of a frame its length was accepted, and its end was not read:
\* that is why what BreakOff sends back is no frame.
HeaderInv ==
  Len(buf) >= 4 => Announced(buf) <= MaxPayload /\ Len(buf) < Announced(buf) + 6

\* The inductive invariant.
FrameInv == TypeOK /\ HeaderInv /\ \A i \in 1 .. Len(tx) : Response(tx[i])

\* What is built in a large enough room is a response.
LEMMA ReplyIsResponse ==
  ASSUME NEW b, NEW cmd \in {RspOK, RspError, RspStatus}, NEW n \in {0, 1, 4},
         NEW room \in Nat, room >= 6 + n
  PROVE  /\ Response(Reply(b, cmd, n, room))
         /\ Len(Reply(b, cmd, n, room)) = n + 6
<1> DEFINE z == Zeros(n)
           f == FrameBytes(cmd, z)
<1>1. z \in Seq(Byte) /\ Len(z) = n /\ n \in Nat
  BY FrameAssumption DEF Zeros, Byte
<1>2. cmd \in Byte /\ Len(z) \in Register /\ ~(Len(z) > MaxPayload)
  BY <1>1, FrameAssumption DEF Register
<1> HIDE DEF z
<1>3. IsFrame(f, cmd, z)
  BY <1>1, <1>2, FrameFacts
<1> HIDE DEF f
<1>4. f \in Seq(Byte) /\ Len(f) = n + 6 /\ f[2] = cmd
  BY <1>1, <1>3 DEF IsFrame
<1>5. f # <<>>
  BY <1>1, <1>4
<1>6. Encode(cmd, z, room) = f
  BY <1>1, <1>2 DEF Encode, f
<1>7. Reply(b, cmd, n, room) = f
  BY <1>5, <1>6 DEF Reply, z
<1> QED
  BY <1>4, <1>7 DEF Response

\* The buffer is large enough for all of them.
LEMMA BufferRoom == BufferSize \in Nat /\ \A n \in {0, 1, 4} : BufferSize >= 6 + n
BY FrameAssumption DEF BufferSize

\* The end of a frame, decoded or not, leaves the types and sends responses.
LEMMA ConcludeTypes ==
  ASSUME FrameInv, open \in BOOLEAN,
         NEW b \in Seq(Byte), NEW n \in Nat, n <= Len(b),
         NEW responses \in Seq(Seq(Byte)),
         \A i \in 1 .. Len(responses) : Response(responses[i]),
         Conclude(b, n, responses)
  PROVE  /\ buf' = <<>>
         /\ handled' \in Seq(Frame)
         /\ answered' \in Nat
         /\ open' \in BOOLEAN
         /\ tx' \in Seq(Seq(Byte))
         /\ \A i \in 1 .. Len(tx') : Response(tx[i]')
<1>1. handled \in Seq(Frame) /\ answered \in Nat
  BY DEF FrameInv, TypeOK
<1>2. handled' \in Seq(Frame)
  <2>1. Decode(b, n) \in Seq(Frame)
    BY DecodeTypes
  <2> QED
    BY <1>1, <2>1 DEF Conclude
<1>3. \E r \in Seq(Byte) : Response(r) /\ Send(Append(responses, r))
  <2>1. CASE Decode(b, n) = <<>>
    <3>1. Response(Reply(b, RspError, 1, BufferSize))
      BY BufferRoom, ReplyIsResponse
    <3> QED
      BY <2>1, <3>1 DEF Conclude, Response
  <2>2. CASE Decode(b, n) # <<>>
    <3>1. PICK r \in {<<RspOK, 0>>, <<RspError, 1>>, <<RspStatus, 4>>} :
            Send(Append(responses, Reply(b, r[1], r[2], BufferSize)))
      BY <2>2 DEF Conclude
    <3>2. r[1] \in {RspOK, RspError, RspStatus} /\ r[2] \in {0, 1, 4}
      OBVIOUS
    <3>3. Response(Reply(b, r[1], r[2], BufferSize))
      BY <3>2, BufferRoom, ReplyIsResponse
    <3> QED
      BY <3>1, <3>3 DEF Response
  <2> QED
    BY <2>1, <2>2
<1>4. PICK r \in Seq(Byte) : Response(r) /\ Send(Append(responses, r))
  BY <1>3
<1> DEFINE t == Append(responses, r)
<1>5. /\ t \in Seq(Seq(Byte)) /\ Len(t) \in Nat
      /\ \A i \in 1 .. Len(t) : t[i] = r \/ \E j \in 1 .. Len(responses) : t[i] = responses[j]
  OBVIOUS
<1>6. \A i \in 1 .. Len(t) : Response(t[i])
  BY <1>4, <1>5
<1> HIDE DEF t
<1>7. tx' = t /\ answered' \in Nat
  BY <1>1, <1>4, <1>5 DEF Send, t
<1>8. buf' = <<>> /\ open' \in BOOLEAN
  BY DEF Conclude
<1> QED
  BY <1>2, <1>5, <1>6, <1>7, <1>8

\* Types of what the next byte makes of the buffer and the line.
LEMMA NextByte ==
  ASSUME FrameInv, line # <<>>
  PROVE  /\ Head(line) \in Byte /\ Tail(line) \in Seq(Byte)
         /\ Next1 \in Seq(Byte) /\ Len(Next1) = Len(buf) + 1
<1>1. line \in Seq(Byte) /\ buf \in Seq(Byte)
  BY DEF FrameInv, TypeOK
<1>2. Head(line) \in Byte /\ Tail(line) \in Seq(Byte)
  BY <1>1
<1> DEFINE b == Head(line)
<1> HIDE DEF b
<1>3. Append(buf, b) \in Seq(Byte) /\ Len(Append(buf, b)) = Len(buf) + 1
  BY <1>1, <1>2 DEF b
<1> QED
  BY <1>2, <1>3 DEF Next1, b

\* The steps of the receiver preserve the invariant.
LEMMA ReceiveInv ==
  ASSUME FrameInv, Receive \/ WindowEnds PROVE FrameInv'
<1>1. /\ line \in Seq(Byte) /\ open \in BOOLEAN
      /\ buf \in Seq(Byte) /\ Len(buf) < MaxPayload + 6
      /\ Len(buf) \in Nat
      /\ sync \in BOOLEAN /\ sent \in 0 .. MaxSent /\ answered \in Nat
      /\ expected \in Seq(Frame) /\ handled \in Seq(Frame)
  BY LenProperties DEF FrameInv, TypeOK
<1>2. MaxPayload \in Nat /\ BufferSize = MaxPayload + 8
  BY FrameAssumption DEF BufferSize
<1>3. ASSUME tx' = <<>> PROVE tx' \in Seq(Seq(Byte)) /\ \A i \in 1 .. Len(tx') : Response(tx[i]')
  BY <1>3
<1>4. ASSUME ReadByte
      PROVE  /\ line' \in Seq(Byte) /\ UNCHANGED host
             /\ Head(line) \in Byte
             /\ Next1 \in Seq(Byte) /\ Len(Next1) = Len(buf) + 1
  BY <1>4, NextByte DEF ReadByte
<1>5. ASSUME UNCHANGED host
      PROVE  sync' \in BOOLEAN /\ sent' \in 0 .. MaxSent /\ expected' \in Seq(Frame)
  BY <1>1, <1>5 DEF host
<1>6. ASSUME buf' = <<>> PROVE buf' \in Seq(Byte) /\ Len(buf') < MaxPayload + 6 /\ HeaderInv'
  BY <1>2, <1>6 DEF HeaderInv
<1>7. CASE SkipByte
  <2>1. HeaderInv'
    BY <1>7 DEF SkipByte, FrameInv, HeaderInv
  <2> QED
    BY <1>1, <1>3, <1>4, <1>5, <1>7, <2>1 DEF SkipByte, FrameInv, TypeOK
<1>8. CASE StartFrame
  <2>1. buf' \in Seq(Byte) /\ Len(buf') = 1
    BY <1>4, <1>8 DEF StartFrame
  <2>2. HeaderInv'
    BY <2>1 DEF HeaderInv
  <2> QED
    BY <1>1, <1>2, <1>3, <1>4, <1>5, <1>8, <2>1, <2>2 DEF StartFrame, FrameInv, TypeOK
<1>9. CASE Collect
  <2>1. buf' \in Seq(Byte) /\ Len(buf') = Len(buf) + 1 /\ buf' = Next1
    BY <1>4, <1>9 DEF Collect
  <2>2. ASSUME Len(Next1) >= 4
        PROVE  /\ Announced(Next1) \in Nat /\ Announced(Next1) <= MaxPayload
               /\ Len(Next1) < Announced(Next1) + 6
    <3>1. Announced(Next1) \in Nat /\ Len(Next1) # Announced(Next1) + 6
      BY <1>4, <1>9, <2>2, AnnouncedTypes DEF Collect, Ends, Complete
    <3>2. CASE Len(buf) >= 4
      <4>1. Announced(Next1) = Announced(buf)
        <5>1. Next1[3] = buf[3] /\ Next1[4] = buf[4]
          BY <1>1, <1>4, <1>9, <3>2 DEF Collect, Next1
        <5> QED
          BY <1>1, <1>4, <1>9, <2>2, <3>2, <5>1, SameAnnounced DEF Collect
      <4>2. Announced(buf) <= MaxPayload /\ Len(buf) < Announced(buf) + 6
        BY <3>2 DEF FrameInv, HeaderInv
      <4> QED
        BY <1>1, <1>4, <1>9, <3>1, <4>1, <4>2 DEF Collect
    <3>3. CASE Len(buf) < 4
      <4>1. Len(Next1) = 4
        BY <1>1, <1>4, <1>9, <2>2, <3>3 DEF Collect
      <4> QED
        BY <1>2, <1>9, <3>1, <4>1 DEF Collect, TooLong
    <3> QED
      BY <1>1, <3>2, <3>3
  <2>3. HeaderInv'
    BY <2>1, <2>2 DEF HeaderInv
  <2>4. Len(buf') < MaxPayload + 6
    <3>1. CASE Len(Next1) >= 4
      BY <1>2, <2>1, <2>2, <3>1
    <3>2. CASE Len(Next1) < 4
      BY <1>2, <2>1, <3>2
    <3> QED
      BY <1>1, <2>1, <3>1, <3>2
  <2> QED
    BY <1>1, <1>3, <1>4, <1>5, <1>9, <2>1, <2>3, <2>4 DEF Collect, FrameInv, TypeOK
<1>10. CASE EndFrame
  <2> DEFINE b == Next1
             none == <<>>
  <2>1. /\ b \in Seq(Byte) /\ Len(b) \in Nat /\ Len(b) <= Len(b)
        /\ Conclude(b, Len(b), none)
    BY <1>1, <1>4, <1>10 DEF EndFrame
  <2>2. none \in Seq(Seq(Byte)) /\ \A i \in 1 .. Len(none) : Response(none[i])
    OBVIOUS
  <2> HIDE DEF b, none
  <2>3. /\ buf' = <<>> /\ handled' \in Seq(Frame) /\ answered' \in Nat
        /\ open' \in BOOLEAN /\ tx' \in Seq(Seq(Byte))
        /\ \A i \in 1 .. Len(tx') : Response(tx[i]')
    BY <1>1, <2>1, <2>2, ConcludeTypes
  <2> QED
    BY <1>4, <1>5, <1>6, <1>10, <2>3 DEF EndFrame, FrameInv, TypeOK
<1>11. CASE RejectTooLong
  <2> DEFINE r == Reply(Next1, RspError, 1, BufferSize)
             b == Overwritten(Next1, r)
  <2>1. Next1 \in Seq(Byte) /\ Len(Next1) = 4 /\ Conclude(b, Len(Next1), <<r>>)
    BY <1>4, <1>11 DEF RejectTooLong, TooLong
  <2>2. Response(r) /\ Len(r) = 7
    BY BufferRoom, ReplyIsResponse
  <2>3. r \in Seq(Byte)
    BY <2>2 DEF Response
  <2> HIDE DEF r
  <2>4. SubSeq(Next1, Len(r) + 1, Len(Next1)) = <<>>
    BY <2>1, <2>2
  <2>5. r \o <<>> = r
    BY <2>3
  <2>6. b = r
    BY <2>4, <2>5 DEF Overwritten
  <2> DEFINE rs == <<r>>
  <2>7. rs \in Seq(Seq(Byte)) /\ \A i \in 1 .. Len(rs) : Response(rs[i])
    BY <2>2, <2>3
  <2> HIDE DEF b, rs
  <2>8. b \in Seq(Byte) /\ Len(Next1) \in Nat /\ Len(Next1) <= Len(b)
    <3>1. b \in Seq(Byte) /\ Len(b) = 7
      BY <2>2, <2>3, <2>6
    <3> QED
      BY <2>1, <3>1
  <2>9. Conclude(b, Len(Next1), rs)
    BY <2>1 DEF rs
  <2>10. /\ buf' = <<>> /\ handled' \in Seq(Frame) /\ answered' \in Nat
         /\ open' \in BOOLEAN /\ tx' \in Seq(Seq(Byte))
         /\ \A i \in 1 .. Len(tx') : Response(tx[i]')
    BY <1>1, <2>7, <2>8, <2>9, ConcludeTypes
  <2> QED
    BY <1>4, <1>5, <1>6, <1>11, <2>10 DEF RejectTooLong, FrameInv, TypeOK
<1>12. CASE BreakOff
  <2> DEFINE r == Reply(buf, RspError, 1, Len(buf))
  <2>1. Response(r)
    <3>1. CASE Len(buf) >= 7
      <4>1. /\ RspError \in {RspOK, RspError, RspStatus} /\ 1 \in {0, 1, 4}
            /\ Len(buf) >= 6 + 1
        BY <1>1, <3>1
      <4> QED
        BY <1>1, <4>1, ReplyIsResponse
    <3>2. CASE Len(buf) < 7
      <4> DEFINE z == Zeros(1)
      <4>1. Len(z) = 1
        BY DEF Zeros
      <4> HIDE DEF z
      <4>2. Encode(RspError, z, Len(buf)) = <<>>
        BY <1>1, <3>2, <4>1 DEF Encode
      <4>3. r = buf
        BY <4>2 DEF Reply, z
      <4>4. ~Decodes(buf, Len(buf))
        <5>1. CASE Len(buf) < 4
          BY <1>1, <5>1 DEF Decodes
        <5>2. CASE Len(buf) >= 4
          <6>1. Announced(buf) \in Nat /\ Len(buf) < Announced(buf) + 6
            BY <1>1, <5>2, AnnouncedTypes DEF FrameInv, HeaderInv
          <6> QED
            BY <1>1, <6>1 DEF Decodes
        <5> QED
          BY <1>1, <5>1, <5>2
      <4> QED
        BY <1>1, <4>3, <4>4 DEF Response
    <3> QED
      BY <1>1, <3>1, <3>2
  <2> HIDE DEF r
  <2>2. Send(<<r>>)
    BY <1>12 DEF BreakOff, r
  <2>3. tx' \in Seq(Seq(Byte)) /\ \A i \in 1 .. Len(tx') : Response(tx[i]')
    BY <2>1, <2>2 DEF Send, Response
  <2>4. answered' \in Nat
    BY <1>1, <2>2 DEF Send
  <2> QED
    BY <1>1, <1>5, <1>6, <1>12, <2>3, <2>4 DEF BreakOff, FrameInv, TypeOK
<1>13. CASE WindowEnds
  <2>1. HeaderInv'
    BY <1>13 DEF WindowEnds, FrameInv, HeaderInv
  <2> QED
    BY <1>1, <1>3, <1>13, <2>1 DEF WindowEnds, history, host, FrameInv, TypeOK
<1> QED
  BY <1>7, <1>8, <1>9, <1>10, <1>11, <1>12, <1>13 DEF Receive

\* What the host sends of a frame.
LEMMA BytesOfTypes ==
  ASSUME NEW f \in HostFrames
  PROVE  /\ BytesOf[f] = FrameBytes(f.cmd, f.payload)
         /\ BytesOf[f] \in Seq(Byte) /\ BytesOf[f] # <<>>
<1>1. f.cmd \in Byte /\ f.payload \in Seq(Byte) /\ Len(f.payload) \in Register
  BY FrameAssumption, LenProperties DEF Frame, Register
<1> DEFINE g == FrameBytes(f.cmd, f.payload)
<1>2. IsFrame(g, f.cmd, f.payload)
  BY <1>1, FrameFacts
<1>3. BytesOf[f] = g
  BY DEF BytesOf
<1> HIDE DEF g
<1>4. g \in Seq(Byte) /\ Len(g) = Len(f.payload) + 6
  BY <1>2 DEF IsFrame
<1>5. g # <<>>
  BY <1>1, <1>4 DEF Register
<1> QED
  BY <1>3, <1>4, <1>5 DEF g

\* The steps of the host and the line preserve the invariant.
LEMMA HostInv ==
  ASSUME FrameInv, HostStep PROVE FrameInv'
<1>1. /\ line \in Seq(Byte) /\ open \in BOOLEAN
      /\ buf \in Seq(Byte) /\ Len(buf) < MaxPayload + 6
      /\ tx \in Seq(Seq(Byte))
      /\ sync \in BOOLEAN /\ sent \in 0 .. MaxSent /\ answered \in Nat
      /\ expected \in Seq(Frame) /\ handled \in Seq(Frame)
  BY DEF FrameInv, TypeOK
<1>2. ASSUME UNCHANGED buf PROVE HeaderInv'
  BY <1>2 DEF FrameInv, HeaderInv
<1>3. ASSUME NEW bytes \in Seq(Byte), Put(bytes),
             NEW f \in HostFrames,
             OutOfStep \/ \E a \in BOOLEAN : InStep(f, a)
      PROVE  FrameInv'
  <2>1. /\ line' \in Seq(Byte) /\ sent + 1 \in 0 .. MaxSent
        /\ UNCHANGED <<open, buf, tx>>
    BY <1>1, <1>3, FrameAssumption DEF Put
  <2>2. f \in Frame
    BY FrameAssumption
  <2>3. /\ sync' \in BOOLEAN /\ sent' \in 0 .. MaxSent /\ answered' \in Nat
        /\ expected' \in Seq(Frame) /\ handled' \in Seq(Frame)
    <3>1. CASE OutOfStep
      <4>1. /\ sync' = FALSE /\ sent' = sent + 1 /\ answered' = 0
            /\ expected' = <<>> /\ handled' = <<>>
        BY <3>1 DEF OutOfStep
      <4>2. <<>> \in Seq(Frame) /\ FALSE \in BOOLEAN /\ 0 \in Nat
        OBVIOUS
      <4> QED
        BY <2>1, <4>1, <4>2, Zenon
    <3>2. CASE \E a \in BOOLEAN : InStep(f, a)
      BY <1>1, <2>1, <2>2, <3>2 DEF InStep
    <3> QED
      BY <1>3, <3>1, <3>2
  <2>4. \A i \in 1 .. Len(tx') : Response(tx[i]')
    BY <2>1 DEF FrameInv
  <2> QED
    BY <1>1, <1>2, <2>1, <2>3, <2>4 DEF FrameInv, TypeOK
<1>4. ASSUME NEW f \in HostFrames, SendFrame(f) PROVE FrameInv'
  BY <1>3, <1>4, BytesOfTypes DEF SendFrame
<1>5. ASSUME NEW f \in HostFrames, NEW i \in 1 .. Len(BytesOf[f]),
             NEW b \in NoiseBytes, Damage(f, i, b)
      PROVE  FrameInv'
  <2>1. BytesOf[f] \in Seq(Byte) /\ b \in Byte
    BY BytesOfTypes, FrameAssumption
  <2>2. [BytesOf[f] EXCEPT ![i] = b] \in Seq(Byte)
    BY <2>1
  <2> QED
    BY <1>3, <1>5, <2>2 DEF Damage
<1>6. ASSUME NEW f \in HostFrames, NEW i \in 1 .. Len(BytesOf[f]), Lose(f, i)
      PROVE  FrameInv'
  <2> DEFINE g == BytesOf[f]
  <2>1. g \in Seq(Byte) /\ Len(g) \in Nat
    BY BytesOfTypes, LenProperties
  <2> HIDE DEF g
  <2>2. i \in 1 .. Len(g)
    BY DEF g
  <2>3. SubSeq(g, 1, i - 1) \in Seq(Byte) /\ SubSeq(g, i + 1, Len(g)) \in Seq(Byte)
    BY <2>1, <2>2
  <2>4. RemoveAt(g, i) \in Seq(Byte)
    BY <2>3 DEF RemoveAt
  <2>5. \E bytes \in Seq(Byte) : Put(bytes)
    BY <1>6, <2>3, <2>4 DEF Lose, g
  <2> QED
    BY <1>3, <1>6, <2>5 DEF Lose
<1>7. CASE Pause
  <2>1. /\ sync' \in BOOLEAN /\ sent' \in 0 .. MaxSent /\ answered' \in Nat
        /\ expected' \in Seq(Frame) /\ handled' \in Seq(Frame)
    BY <1>7, FrameAssumption DEF Pause
  <2>2. tx' \in Seq(Seq(Byte)) /\ \A i \in 1 .. Len(tx') : Response(tx[i]')
    BY <1>7 DEF Pause
  <2> QED
    BY <1>1, <1>2, <1>7, <2>1, <2>2 DEF Pause, FrameInv, TypeOK
<1> QED
  BY <1>4, <1>5, <1>6, <1>7 DEF HostStep

\* The invariant holds.
THEOREM FrameInvariant == Spec => []FrameInv
<1>1. Init => FrameInv
  BY FrameAssumption DEF Init, FrameInv, TypeOK, HeaderInv
<1>2. FrameInv /\ [Next]_vars => FrameInv'
  <2> SUFFICES ASSUME FrameInv, [Next]_vars PROVE FrameInv'
    OBVIOUS
  <2>1. CASE Next
    BY <2>1, ReceiveInv, HostInv DEF Next
  <2>2. CASE UNCHANGED vars
    BY <2>2 DEF vars, host, history, FrameInv, TypeOK, HeaderInv
  <2> QED
    BY <2>1, <2>2
<1> QED
  BY <1>1, <1>2, PTL DEF Spec

\* The types hold: loxboot_uart_run_session never writes beyond _frame_buf, and
\* leaves two bytes of it unused.
THEOREM TypeCorrect == Spec => []TypeOK
<1>1. FrameInv => TypeOK
  BY DEF FrameInv
<1> QED
  BY <1>1, FrameInvariant, PTL

\* No command is ever echoed to the host, although a response is built over the
\* bytes received, and these are sent back when it does not fit.
THEOREM NeverEchoes == Spec => []NoEcho
<1>1. FrameInv => NoEcho
  BY DEF FrameInv, NoEcho, Response
<1> QED
  BY <1>1, FrameInvariant, PTL

-----------------------------------------------------------------------------
(* In sync.                                                                *)

\* g is the frame f with one byte damaged that does not decide where it ends.
Damaged(f, g) ==
  \E i \in (1 .. Len(BytesOf[f])) \ {1, 3, 4}, b \in NoiseBytes :
    b # BytesOf[f][i] /\ g = [BytesOf[f] EXCEPT ![i] = b]

\* Nothing is under way, and all that was sent is accounted for.
Quiet == line = <<>> /\ buf = <<>> /\ handled = expected /\ answered = sent

\* One frame is under way, partly read; it is the only one not accounted for.
OnTheWay(f) ==
  /\ Legal(f) /\ line # <<>> /\ sent = answered + 1
  /\ \/ buf \o line = BytesOf[f] /\ expected = Append(handled, f)
     \/ Damaged(f, buf \o line) /\ expected = handled

\* While in sync one of the two is the case.
SyncInv == sync => Quiet \/ \E f \in HostFrames : OnTheWay(f)

\* What is under way is as long as its length says, and is decoded if and only
\* if it is undamaged.
LEMMA OneFrame ==
  ASSUME NEW f \in HostFrames, Legal(f),
         NEW g, g = BytesOf[f] \/ Damaged(f, g)
  PROVE  /\ g \in Seq(Byte) /\ Len(g) = Len(f.payload) + 6
         /\ g[1] = SOF /\ Announced(g) = Len(f.payload)
         /\ g = BytesOf[f] => Decode(g, Len(g)) = <<f>>
         /\ Damaged(f, g) => Decode(g, Len(g)) = <<>>
<1> DEFINE k == Len(f.payload)
           o == BytesOf[f]
<1>1. /\ f \in Frame /\ f.cmd \in Byte /\ f.payload \in Seq(Byte)
      /\ k \in Register /\ k \in Nat /\ k <= MaxPayload
  BY FrameAssumption, LenProperties DEF Frame, Register, Legal
<1>2. o = FrameBytes(f.cmd, f.payload)
  BY BytesOfTypes
<1>3. IsFrame(o, f.cmd, f.payload)
  BY <1>1, <1>2, FrameFacts
<1>4. o \in Seq(Byte) /\ Len(o) = k + 6 /\ o[1] = SOF /\ Announced(o) = k
  BY <1>3 DEF IsFrame
<1>5. CASE g = o
  <2>1. f = [cmd |-> f.cmd, payload |-> f.payload]
    BY <1>1 DEF Frame
  <2>2. k + 6 \in Nat /\ k + 6 >= k + 6
    BY <1>1
  <2>3. Decode(o, k + 6) = <<[cmd |-> f.cmd, payload |-> f.payload]>>
    BY <1>1, <1>2, <2>2, RoundTrip
  <2>4. Decode(g, Len(g)) = <<f>>
    BY <1>4, <1>5, <2>1, <2>3
  <2>5. ~Damaged(f, g)
    <3> SUFFICES ASSUME NEW i \in 1 .. Len(o), NEW b, b # o[i], g = [o EXCEPT ![i] = b]
                 PROVE  FALSE
      BY DEF Damaged
    <3> QED
      BY <1>4, <1>5
  <2> QED
    BY <1>4, <1>5, <2>4, <2>5
<1>6. CASE Damaged(f, g)
  <2>1. PICK i \in (1 .. Len(o)) \ {1, 3, 4}, b \in NoiseBytes :
          b # o[i] /\ g = [o EXCEPT ![i] = b]
    BY <1>6 DEF Damaged
  <2>2. b \in Byte
    BY FrameAssumption
  <2>3. g \in Seq(Byte) /\ Len(g) = Len(o) /\ g[1] = o[1] /\ g[3] = o[3] /\ g[4] = o[4]
        /\ Len(g) >= 4 /\ Len(o) >= 4 /\ g # o
    BY <1>1, <1>4, <2>1, <2>2
  <2>4. Announced(g) = k
    BY <1>4, <2>3, SameAnnounced
  <2>5. ~Decodes([o EXCEPT ![i] = b], Len(o))
    BY <1>1, <1>2, <2>1, <2>2, DamageDetected
  <2>6. Decode(g, Len(g)) = <<>>
    BY <2>1, <2>3, <2>5 DEF Decode
  <2> QED
    BY <1>4, <2>3, <2>4, <2>6
<1> QED
  BY <1>5, <1>6

\* The first byte of t moves to the end of s: what n and rest then are.
Advances(n, rest, s, t) ==
  /\ n \o rest = s \o t
  /\ \A i \in 1 .. Len(n) : n[i] = (s \o t)[i]
  /\ Len(s \o t) = Len(n) + Len(rest)
  /\ (s \o t)[Len(s) + 1] = Head(t)
  /\ Len(rest) \in Nat /\ Len(n) = Len(s) + 1
  /\ Len(rest) = 0 => n = s \o t

\* So it is when the next byte is read.
LEMMA NextPrefix ==
  ASSUME NEW s \in Seq(Byte), NEW t \in Seq(Byte), t # <<>>
  PROVE  Advances(Append(s, Head(t)), Tail(t), s, t)
<1> SUFFICES ASSUME NEW n, n = Append(s, Head(t)), NEW g, g = s \o t
             PROVE  /\ n \o Tail(t) = g
                    /\ \A i \in 1 .. Len(n) : n[i] = g[i]
                    /\ Len(g) = Len(n) + Len(Tail(t))
                    /\ g[Len(s) + 1] = Head(t)
                    /\ Len(Tail(t)) \in Nat /\ Len(n) = Len(s) + 1
                    /\ Len(Tail(t)) = 0 => n = g
  BY Zenon DEF Advances
<1> QED
  OBVIOUS

\* Reading the next byte of the frame under way: it is collected to its end,
\* and there is decoded.
LEMMA ReadSync ==
  ASSUME FrameInv, sync, NEW f \in HostFrames, OnTheWay(f),
         SkipByte \/ StartFrame \/ Collect \/ EndFrame \/ RejectTooLong
  PROVE  SyncInv'
<1> DEFINE g == buf \o line
           k == Len(f.payload)
           rest == Tail(line)
<1>1. /\ buf \in Seq(Byte) /\ line \in Seq(Byte) /\ Len(buf) \in Nat
      /\ handled \in Seq(Frame) /\ expected \in Seq(Frame) /\ answered \in Nat
  BY LenProperties DEF FrameInv, TypeOK
<1>2. /\ Legal(f) /\ line # <<>> /\ sent = answered + 1
      /\ \/ g = BytesOf[f] /\ expected = Append(handled, f)
         \/ Damaged(f, g) /\ expected = handled
  BY DEF OnTheWay
<1>3. /\ g \in Seq(Byte) /\ Len(g) = k + 6
      /\ g[1] = SOF /\ Announced(g) = k
      /\ g = BytesOf[f] => Decode(g, Len(g)) = <<f>>
      /\ Damaged(f, g) => Decode(g, Len(g)) = <<>>
  BY <1>2, OneFrame
<1>4. k \in Nat /\ k <= MaxPayload /\ MaxPayload \in Nat
  BY <1>2, FrameAssumption, LenProperties DEF Legal, Frame
<1>5. ReadByte /\ UNCHANGED host /\ line' = rest
  BY DEF SkipByte, StartFrame, Collect, EndFrame, RejectTooLong, ReadByte
<1>6. UNCHANGED <<sync, sent, expected>>
  BY <1>5 DEF host
<1>7. /\ Next1 \o rest = g
      /\ \A i \in 1 .. Len(Next1) : Next1[i] = g[i]
      /\ Len(g) = Len(Next1) + Len(rest)
      /\ g[Len(buf) + 1] = Head(line)
      /\ Len(rest) \in Nat /\ Len(Next1) = Len(buf) + 1
      /\ Len(rest) = 0 => Next1 = g
  <2>1. Advances(Append(buf, Head(line)), Tail(line), buf, line)
    BY <1>1, <1>2, NextPrefix
  <2> QED
    BY <2>1, Zenon DEF Advances, Next1
<1>8. Next1 \in Seq(Byte) /\ rest \in Seq(Byte)
  BY <1>2, NextByte
<1> HIDE DEF g, k, rest
<1>9. Len(Next1) >= 4 => Announced(Next1) = k
  <2> SUFFICES ASSUME Len(Next1) >= 4 PROVE Announced(Next1) = k
    OBVIOUS
  <2>1. Next1[3] = g[3] /\ Next1[4] = g[4] /\ Len(g) >= 4
    BY <1>7
  <2> QED
    BY <1>3, <1>8, <2>1, SameAnnounced
<1>10. ASSUME buf' = Next1, rest # <<>>, UNCHANGED <<handled, answered>>
       PROVE  OnTheWay(f)'
  <2>1. buf' \o line' = g
    BY <1>5, <1>7, <1>10
  <2> QED
    BY <1>2, <1>5, <1>6, <1>10, <2>1 DEF OnTheWay, Legal, Damaged
<1>11. rest = <<>> => Next1 = g
  BY <1>7, <1>8
<1>12. CASE SkipByte
  <2>1. Len(buf) = 0 /\ Head(line) # SOF
    BY <1>12 DEF SkipByte
  <2> QED
    BY <1>3, <1>7, <2>1
<1>13. CASE StartFrame
  <2>1. Len(buf) = 0 /\ buf' = Next1 /\ UNCHANGED <<handled, answered>>
    BY <1>13 DEF StartFrame
  <2>2. rest # <<>>
    BY <1>3, <1>4, <1>7, <1>11, <2>1
  <2> QED
    BY <1>10, <2>1, <2>2 DEF SyncInv
<1>14. CASE Collect
  <2>1. buf' = Next1 /\ UNCHANGED <<handled, answered>> /\ ~Ends(Next1)
    BY <1>14 DEF Collect
  <2>2. rest # <<>>
    BY <1>3, <1>4, <1>11, <2>1 DEF Ends, Complete
  <2> QED
    BY <1>10, <2>1, <2>2 DEF SyncInv
<1>15. CASE EndFrame
  <2>1. Ends(Next1) /\ Conclude(Next1, Len(Next1), <<>>)
    BY <1>15 DEF EndFrame
  <2>2. Len(Next1) < BufferSize
    BY <1>3, <1>4, <1>7 DEF BufferSize
  <2>3. Len(Next1) = k + 6
    BY <1>9, <2>1, <2>2 DEF Ends, Complete
  <2>4. rest = <<>> /\ Next1 = g
    BY <1>3, <1>4, <1>7, <1>8, <2>3
  <2>5. buf' = <<>> /\ line' = <<>>
    BY <1>5, <2>1, <2>4 DEF Conclude
  <2>6. handled' = handled \o Decode(g, Len(g))
    BY <2>1, <2>4 DEF Conclude
  <2>7. handled' = expected
    <3>1. CASE Damaged(f, g) /\ expected = handled
      BY <1>1, <1>3, <2>6, <3>1
    <3>2. CASE g = BytesOf[f] /\ expected = Append(handled, f)
      <4>1. handled \o <<f>> = Append(handled, f)
        BY <1>1
      <4> QED
        BY <1>3, <2>6, <3>2, <4>1
    <3> QED
      BY <1>2, <3>1, <3>2
  <2>8. \E r : Send(Append(<<>>, r))
    BY <2>1 DEF Conclude
  <2>9. answered' = answered + 1
    BY <1>1, <2>8 DEF Send
  <2>10. Quiet'
    BY <1>2, <1>6, <2>5, <2>7, <2>9 DEF Quiet
  <2> QED
    BY <2>10 DEF SyncInv
<1>16. CASE RejectTooLong
  BY <1>4, <1>9, <1>16 DEF RejectTooLong, TooLong
<1> QED
  BY <1>12, <1>13, <1>14, <1>15, <1>16

\* The steps of the receiver keep in sync.
LEMMA ReceiveSync ==
  ASSUME FrameInv, SyncInv, Receive \/ WindowEnds PROVE SyncInv'
<1>1. UNCHANGED host
  BY DEF Receive, WindowEnds, SkipByte, StartFrame, Collect, EndFrame, RejectTooLong,
         BreakOff, ReadByte, history
<1> SUFFICES ASSUME sync PROVE SyncInv'
  BY <1>1 DEF host, SyncInv
<1>2. CASE WindowEnds
  <2>1. UNCHANGED <<line, buf, sync, sent, expected, handled, answered>>
    BY <1>2 DEF WindowEnds, history, host
  <2>2. Quiet => Quiet'
    BY <2>1 DEF Quiet
  <2>3. \A f \in HostFrames : OnTheWay(f) => OnTheWay(f)'
    BY <2>1 DEF OnTheWay, Damaged, Legal
  <2> QED
    BY <2>1, <2>2, <2>3 DEF SyncInv
<1>3. CASE BreakOff
  <2>1. buf # <<>> /\ line = <<>>
    BY <1>3 DEF BreakOff
  <2> QED
    BY <2>1 DEF SyncInv, Quiet, OnTheWay
<1>4. CASE SkipByte \/ StartFrame \/ Collect \/ EndFrame \/ RejectTooLong
  <2>1. line # <<>>
    BY <1>4 DEF SkipByte, StartFrame, Collect, EndFrame, RejectTooLong, ReadByte
  <2>2. PICK f \in HostFrames : OnTheWay(f)
    BY <2>1 DEF SyncInv, Quiet
  <2> QED
    BY <1>4, <2>2, ReadSync
<1> QED
  BY <1>2, <1>3, <1>4 DEF Receive

\* The steps of the host and the line keep in sync, or are recorded as not.
LEMMA HostSync ==
  ASSUME FrameInv, SyncInv, HostStep PROVE SyncInv'
<1>1. ASSUME OutOfStep PROVE SyncInv'
  BY <1>1 DEF OutOfStep, SyncInv
<1>2. ASSUME NEW bytes, Put(bytes), sync
      PROVE  /\ handled = expected /\ answered = sent
             /\ buf' \o line' = buf \o bytes /\ line' = bytes /\ buf = <<>>
  BY <1>2 DEF Put, SyncInv, Quiet, OnTheWay
<1>3. ASSUME NEW f \in HostFrames, NEW bytes \in Seq(Byte), bytes # <<>>,
             Put(bytes), sync, Legal(f), NEW a \in BOOLEAN, InStep(f, a),
             a => bytes = BytesOf[f], ~a => Damaged(f, bytes)
      PROVE  SyncInv'
  <2>1. /\ handled = expected /\ answered = sent
        /\ buf' \o line' = buf \o bytes /\ line' = bytes /\ buf = <<>>
    BY <1>2, <1>3
  <2>2. buf' \o line' = bytes
    BY <1>3, <2>1
  <2>3. OnTheWay(f)'
    BY <1>3, <2>1, <2>2 DEF InStep, OnTheWay, Legal, Damaged
  <2> QED
    BY <2>3 DEF SyncInv
<1>4. \A f \in HostFrames : BytesOf[f] \in Seq(Byte) /\ BytesOf[f] # <<>>
  BY BytesOfTypes
<1>5. ASSUME NEW f \in HostFrames, SendFrame(f) PROVE SyncInv'
  <2>1. CASE sync /\ Legal(f)
    <3>1. Put(BytesOf[f]) /\ InStep(f, TRUE)
      BY <1>5, <2>1 DEF SendFrame
    <3>2. BytesOf[f] \in Seq(Byte) /\ BytesOf[f] # <<>>
      BY <1>4
    <3> QED
      BY <1>3, <2>1, <3>1, <3>2
  <2>2. CASE ~(sync /\ Legal(f))
    BY <1>1, <1>5, <2>2 DEF SendFrame
  <2> QED
    BY <2>1, <2>2
<1>6. ASSUME NEW f \in HostFrames, NEW i \in 1 .. Len(BytesOf[f]),
             NEW b \in NoiseBytes, Damage(f, i, b)
      PROVE  SyncInv'
  <2>1. CASE sync /\ Legal(f) /\ i \notin {1, 3, 4}
    <3> DEFINE g == [BytesOf[f] EXCEPT ![i] = b]
    <3>1. Put(g) /\ InStep(f, FALSE) /\ b # BytesOf[f][i]
      BY <1>6, <2>1 DEF Damage
    <3>2. Damaged(f, g)
      BY <2>1, <3>1 DEF Damaged
    <3>3. g \in Seq(Byte) /\ g # <<>>
      <4>1. b \in Byte
        BY FrameAssumption
      <4> QED
        BY <1>4, <4>1
    <3> HIDE DEF g
    <3> QED
      BY <1>3, <2>1, <3>1, <3>2, <3>3
  <2>2. CASE ~(sync /\ Legal(f) /\ i \notin {1, 3, 4})
    BY <1>1, <1>6, <2>2 DEF Damage
  <2> QED
    BY <2>1, <2>2
<1>7. ASSUME NEW f \in HostFrames, NEW i \in 1 .. Len(BytesOf[f]), Lose(f, i)
      PROVE  SyncInv'
  BY <1>1, <1>7 DEF Lose
<1>8. CASE Pause
  BY <1>8 DEF Pause, SyncInv, Quiet
<1> QED
  BY <1>5, <1>6, <1>7, <1>8 DEF HostStep

\* The invariant holds.
THEOREM SyncInvariant == Spec => [](FrameInv /\ SyncInv)
<1>1. Init => SyncInv
  BY DEF Init, SyncInv, Quiet
<1>2. FrameInv /\ SyncInv /\ [Next]_vars => SyncInv'
  <2> SUFFICES ASSUME FrameInv, SyncInv, [Next]_vars PROVE SyncInv'
    OBVIOUS
  <2>1. CASE Next
    BY <2>1, ReceiveSync, HostSync DEF Next
  <2>2. CASE UNCHANGED vars
    <3>1. UNCHANGED <<line, buf, sync, sent, expected, handled, answered>>
      BY <2>2 DEF vars
    <3>2. Quiet => Quiet'
      BY <3>1 DEF Quiet
    <3>3. \A f \in HostFrames : OnTheWay(f) => OnTheWay(f)'
      BY <3>1 DEF OnTheWay, Damaged, Legal
    <3> QED
      BY <3>1, <3>2, <3>3 DEF SyncInv
  <2> QED
    BY <2>1, <2>2
<1> QED
  BY <1>1, <1>2, FrameInvariant, PTL DEF Spec

\* After a pause every undamaged frame is handled once and in order, nothing
\* else is, and each frame sent is answered once; a damaged byte that is not of
\* SOF or the length costs its frame and no other.
THEOREM StaysInSync == Spec => []InSync
<1>1. ASSUME FrameInv, SyncInv, sync
      PROVE  /\ IsPrefix(handled, expected)
             /\ answered <= sent
             /\ line = <<>> => handled = expected /\ answered = sent
  <2>1. handled \in Seq(Frame) /\ answered \in Nat /\ Len(handled) \in Nat
    BY <1>1, LenProperties DEF FrameInv, TypeOK
  <2>2. CASE Quiet
    <3>1. handled = expected /\ answered = sent
      BY <2>2 DEF Quiet
    <3> QED
      BY <2>1, <3>1 DEF IsPrefix
  <2>3. ASSUME NEW f \in HostFrames, OnTheWay(f) PROVE IsPrefix(handled, expected)
    <3>1. CASE expected = handled
      BY <2>1, <3>1 DEF IsPrefix
    <3>2. CASE expected = Append(handled, f)
      BY <2>1, <3>2 DEF IsPrefix
    <3> QED
      BY <2>3, <3>1, <3>2 DEF OnTheWay
  <2>4. CASE \E f \in HostFrames : OnTheWay(f)
    BY <2>1, <2>3, <2>4 DEF OnTheWay
  <2> QED
    BY <1>1, <2>2, <2>4 DEF SyncInv
<1>2. FrameInv /\ SyncInv => InSync
  BY <1>1, Zenon DEF InSync
<1> QED
  BY <1>2, SyncInvariant, PTL
=============================================================================
