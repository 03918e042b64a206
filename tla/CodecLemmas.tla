---------------------------- MODULE CodecLemmas ----------------------------
(* Frames are read as they were meant: a client's by the program, and the     *)
(* program's by its client.  Both rest on numbers and their digits, and the   *)
(* masking on the exclusive or being its own inverse.                         *)
EXTENDS FrameCodec, CommonLemmas

LEMMA BytesAreNumbers == \A b \in Byte : b \in Nat /\ b \in Int
  BY DEF Byte

(* How many numbers n bytes tell apart.                                       *)
LEMMA Powers ==
  /\ Power[0] = 1 /\ \A n \in 1 .. WideBytes : Power[n] = 256 * Power[n - 1]
  /\ \A n \in 0 .. WideBytes : Power[n] \in Nat /\ Power[n] > 0
<1>1. WideBytes \in Nat
  BY CodecAssumption
<1> DEFINE Is(v) == v = [n \in 0 .. WideBytes |-> IF n = 0 THEN 1 ELSE 256 * v[n - 1]]
           v == CHOOSE v : Is(v)
<1>2. \E w : Is(w)
  <2> DEFINE step == [i \in 1 .. WideBytes |-> [x \in Nat |-> 256 * x]]
  <2>1. step \in [1 .. WideBytes -> [Nat -> Nat]]
    OBVIOUS
  <2> HIDE DEF step
  <2>2. PICK w : /\ w \in [0 .. WideBytes -> Nat] /\ w[0] = 1
                 /\ \A i \in 1 .. WideBytes : w[i] = step[i][w[i - 1]]
    <3>1. 1 \in Nat
      OBVIOUS
    <3>2. Runs(WideBytes, Nat, 1, step) # {}
      BY <1>1, <2>1, <3>1, RunExists
    <3> QED
      BY <3>2 DEF Runs
  <2>3. ASSUME NEW i \in 1 .. WideBytes PROVE w[i] = 256 * w[i - 1]
    <3>1. w[i - 1] \in Nat
      BY <1>1, <2>2
    <3> QED
      BY <2>2, <3>1 DEF step
  <2>4. \A i \in 0 .. WideBytes : w[i] = IF i = 0 THEN 1 ELSE 256 * w[i - 1]
    BY <1>1, <2>2, <2>3
  <2>5. Is(w)
    BY <2>2, <2>4
  <2> HIDE DEF Is
  <2> QED
    BY <2>5
<1>3. Is(v)
  <2> HIDE DEF Is
  <2> QED
    BY <1>2
<1>4. Power = v
  BY DEF Power
<1> HIDE DEF v
<1>5. \A n \in 0 .. WideBytes : Power[n] = IF n = 0 THEN 1 ELSE 256 * Power[n - 1]
  BY <1>3, <1>4
<1>6. Power[0] = 1 /\ \A n \in 1 .. WideBytes : Power[n] = 256 * Power[n - 1]
  BY <1>1, <1>5
<1> DEFINE P == {n \in 0 .. WideBytes : Power[n] \in Nat /\ Power[n] > 0}
<1>7. 0 \in P
  BY <1>1, <1>6
<1>8. ASSUME NEW i \in 1 .. WideBytes, i - 1 \in P PROVE i \in P
  BY <1>1, <1>6, <1>8
<1>9. \A n \in 0 .. WideBytes : n \in P
  <2> HIDE DEF P
  <2> QED
    BY <1>1, <1>7, <1>8, UpTo
<1> QED
  BY <1>6, <1>9

(* The value of a number builds up byte by byte.                              *)
LEMMA NumberSteps ==
  ASSUME NEW s \in Seq(Byte)
  PROVE  \E v : /\ Number(s) = v[Len(s)] /\ v[0] = 0
                /\ \A i \in 1 .. Len(s) : v[i] = (256 * v[i - 1]) + s[i]
<1>1. Len(s) \in Nat /\ \A i \in 1 .. Len(s) : s[i] \in Nat
  BY LenProperties, ElementOfSeq, BytesAreNumbers
<1> DEFINE Is(v) == v = [i \in 0 .. Len(s) |-> IF i = 0 THEN 0 ELSE (256 * v[i - 1]) + s[i]]
           v == CHOOSE v : Is(v)
<1>2. \E w : Is(w)
  <2> DEFINE step == [i \in 1 .. Len(s) |-> [x \in Nat |-> (256 * x) + s[i]]]
  <2>1. step \in [1 .. Len(s) -> [Nat -> Nat]]
    BY <1>1
  <2> HIDE DEF step
  <2>2. PICK w : /\ w \in [0 .. Len(s) -> Nat] /\ w[0] = 0
                 /\ \A i \in 1 .. Len(s) : w[i] = step[i][w[i - 1]]
    <3>1. 0 \in Nat
      OBVIOUS
    <3>2. Runs(Len(s), Nat, 0, step) # {}
      BY <1>1, <2>1, <3>1, RunExists
    <3> QED
      BY <3>2 DEF Runs
  <2>3. ASSUME NEW i \in 1 .. Len(s) PROVE w[i] = (256 * w[i - 1]) + s[i]
    <3>0. i - 1 \in 0 .. Len(s)
      BY <1>1
    <3>1. w[i - 1] \in Nat
      BY <2>2, <3>0
    <3> QED
      BY <2>2, <3>1 DEF step
  <2>4. \A i \in 0 .. Len(s) : w[i] = IF i = 0 THEN 0 ELSE (256 * w[i - 1]) + s[i]
    BY <1>1, <2>2, <2>3
  <2>5. Is(w)
    BY <2>2, <2>4
  <2> HIDE DEF Is
  <2> QED
    BY <2>5
<1>3. Is(v)
  <2> HIDE DEF Is
  <2> QED
    BY <1>2
<1>4. Number(s) = v[Len(s)]
  BY Zenon DEF Number
<1> HIDE DEF v
<1>5. \A i \in 0 .. Len(s) : v[i] = IF i = 0 THEN 0 ELSE (256 * v[i - 1]) + s[i]
  BY <1>3
<1>6. v[0] = 0 /\ \A i \in 1 .. Len(s) : v[i] = (256 * v[i - 1]) + s[i]
  BY <1>1, <1>5
<1> QED
  BY <1>4, <1>6

LEMMA DivTwice ==
  ASSUME NEW n \in Nat, NEW a \in Nat, a > 0
  PROVE  (n \div a) \div 256 = n \div (256 * a) /\ n \div a \in Nat
  OBVIOUS

(* A number that fits width bytes is read back from its digits.               *)
LEMMA NumberOfDigits ==
  ASSUME NEW width \in 0 .. WideBytes, NEW n \in Nat, n < Power[width]
  PROVE  /\ Digits(n, width) \in Seq(Byte) /\ Len(Digits(n, width)) = width
         /\ Number(Digits(n, width)) = n
<1>1. width \in Nat /\ WideBytes \in Nat
  BY CodecAssumption
<1> DEFINE d == Digits(n, width)
           rest(i) == n \div Power[width - i]
<1>2. ASSUME NEW i \in 0 .. width
      PROVE  /\ rest(i) \in Nat
             /\ i > 0 => rest(i - 1) = rest(i) \div 256
  <2>1. width - i \in 0 .. WideBytes
    BY <1>1
  <2>2. Power[width - i] \in Nat /\ Power[width - i] > 0
    BY <2>1, Powers
  <2>3. rest(i) \in Nat
    BY <2>2, DivTwice
  <2>4. ASSUME i > 0 PROVE rest(i - 1) = rest(i) \div 256
    <3>1. width - (i - 1) \in 1 .. WideBytes /\ (width - (i - 1)) - 1 = width - i
      BY <1>1, <2>4
    <3>2. Power[width - (i - 1)] = 256 * Power[width - i]
      BY <3>1, Powers
    <3> QED
      BY <2>2, <3>2, DivTwice
  <2> QED
    BY <2>3, <2>4
<1>3. d = [i \in 1 .. width |-> rest(i) % 256]
  BY DEF Digits
<1>4. d \in Seq(Byte) /\ Len(d) = width
  <2>1. ASSUME NEW i \in 1 .. width PROVE rest(i) % 256 \in Byte
    <3>1. rest(i) \in Nat
      BY <1>1, <1>2
    <3> HIDE DEF rest
    <3> QED
      BY <3>1 DEF Byte
  <2>2. d \in [1 .. width -> Byte]
    BY <1>3, <2>1
  <2> HIDE DEF d
  <2> QED
    BY <1>1, <2>2, FunctionIsSeq
<1>5. PICK v : /\ Number(d) = v[Len(d)] /\ v[0] = 0
               /\ \A i \in 1 .. Len(d) : v[i] = (256 * v[i - 1]) + d[i]
  <2> HIDE DEF d
  <2> QED
    BY <1>4, NumberSteps
<1> DEFINE P == {i \in 0 .. width : v[i] = rest(i)}
<1>6. 0 \in P
  <2>1. rest(0) = 0
    <3>1. Power[width] \in Nat
      BY Powers
    <3>2. width - 0 = width
      BY <1>1
    <3>3. n \div Power[width] = 0
      BY <3>1
    <3> QED
      BY <3>2, <3>3
  <2> HIDE DEF rest
  <2> QED
    BY <1>1, <1>5, <2>1
<1>7. ASSUME NEW i \in 1 .. width, i - 1 \in P PROVE i \in P
  <2>1. rest(i) \in Nat /\ rest(i - 1) = rest(i) \div 256
    BY <1>1, <1>2
  <2>2. v[i] = (256 * v[i - 1]) + d[i] /\ d[i] = rest(i) % 256
    BY <1>3, <1>4, <1>5
  <2>3. v[i - 1] = rest(i - 1)
    BY <1>7
  <2> HIDE DEF rest, d
  <2>4. v[i] = rest(i)
    BY <2>1, <2>2, <2>3
  <2> QED
    BY <1>1, <2>4
<1>8. width \in P
  <2>1. \A i \in 0 .. width : i \in P
    <3> HIDE DEF P
    <3> QED
      BY <1>1, <1>6, <1>7, UpTo
  <2> HIDE DEF P
  <2> QED
    BY <1>1, <2>1
<1>9. rest(width) = n
  <2>1. width - width = 0 /\ Power[0] = 1 /\ n \div 1 = n
    BY <1>1, Powers
  <2> QED
    BY <2>1
<1> QED
  BY <1>4, <1>5, <1>8, <1>9

(* One bit more of an exclusive or, given that of the higher bits.            *)
XorStep(F) == [a \in Byte |-> [b \in Byte |->
                 IF a + b = 0 THEN 0 ELSE (2 * F[a \div 2][b \div 2]) + ((a + b) % 2)]]
Alike(F, G, h) == \A a, b \in 0 .. h - 1 : F[a][b] = G[a][b]

LEMMA XorStepIs ==
  ASSUME NEW F, NEW a \in Byte, NEW b \in Byte
  PROVE  XorStep(F)[a][b] = IF a + b = 0 THEN 0 ELSE (2 * F[a \div 2][b \div 2]) + ((a + b) % 2)
  BY DEF XorStep

LEMMA XorStepsAlike ==
  ASSUME NEW F, NEW G, NEW h \in 1 .. 128, Alike(F, G, h)
  PROVE  Alike(XorStep(F), XorStep(G), 2 * h)
<1>1. ASSUME NEW a \in 0 .. (2 * h) - 1, NEW b \in 0 .. (2 * h) - 1
      PROVE  XorStep(F)[a][b] = XorStep(G)[a][b]
  <2>1. a \in Byte /\ b \in Byte /\ a \div 2 \in 0 .. h - 1 /\ b \div 2 \in 0 .. h - 1
    BY DEF Byte
  <2>2. F[a \div 2][b \div 2] = G[a \div 2][b \div 2]
    BY <2>1 DEF Alike
  <2>3. XorStep(F)[a][b] = IF a + b = 0 THEN 0 ELSE (2 * F[a \div 2][b \div 2]) + ((a + b) % 2)
    BY <2>1, XorStepIs
  <2>4. XorStep(G)[a][b] = IF a + b = 0 THEN 0 ELSE (2 * G[a \div 2][b \div 2]) + ((a + b) % 2)
    BY <2>1, XorStepIs
  <2> QED
    BY <2>2, <2>3, <2>4
<1> QED
  BY <1>1 DEF Alike

(* The exclusive or of bytes is what eight such steps make of anything.       *)
LEMMA XorIsStep == Xor = XorStep(Xor)
<1> DEFINE Is(F) == F = [a \in Byte |-> [b \in Byte |->
                           IF a + b = 0 THEN 0 ELSE (2 * F[a \div 2][b \div 2]) + ((a + b) % 2)]]
           X == CHOOSE F : Is(F)
<1>1. \E F : Is(F)
  <2> DEFINE zero == [a \in Byte |-> [b \in Byte |-> 0]]
             F1 == XorStep(zero) F2 == XorStep(F1) F3 == XorStep(F2) F4 == XorStep(F3)
             F5 == XorStep(F4) F6 == XorStep(F5) F7 == XorStep(F6) F8 == XorStep(F7)
             F9 == XorStep(F8)
  <2>1. Alike(zero, F1, 1)
    <3>1. ASSUME NEW a \in 0 .. 1 - 1, NEW b \in 0 .. 1 - 1 PROVE zero[a][b] = F1[a][b]
      <4>1. a = 0 /\ b = 0 /\ 0 \in Byte
        BY DEF Byte
      <4>2. F1[0][0] = 0
        BY <4>1, XorStepIs
      <4>3. zero[0][0] = 0
        BY <4>1
      <4> QED
        BY <4>1, <4>2, <4>3
    <3> HIDE DEF F1, zero
    <3> QED
      BY <3>1 DEF Alike
  <2> HIDE DEF zero
  <2>2. Alike(F1, F2, 2 * 1)
    BY <2>1, XorStepsAlike
  <2> HIDE DEF F1
  <2>3. Alike(F2, F3, 2 * 2)
    BY <2>2, XorStepsAlike
  <2> HIDE DEF F2
  <2>4. Alike(F3, F4, 2 * 4)
    BY <2>3, XorStepsAlike
  <2> HIDE DEF F3
  <2>5. Alike(F4, F5, 2 * 8)
    BY <2>4, XorStepsAlike
  <2> HIDE DEF F4
  <2>6. Alike(F5, F6, 2 * 16)
    BY <2>5, XorStepsAlike
  <2> HIDE DEF F5
  <2>7. Alike(F6, F7, 2 * 32)
    BY <2>6, XorStepsAlike
  <2> HIDE DEF F6
  <2>8. Alike(F7, F8, 2 * 64)
    BY <2>7, XorStepsAlike
  <2> HIDE DEF F7
  <2>9. Alike(F8, F9, 2 * 128)
    BY <2>8, XorStepsAlike
  <2>10. \A a, b \in Byte : F8[a][b] = F9[a][b]
    <3>1. Byte = 0 .. (2 * 128) - 1
      BY DEF Byte
    <3> HIDE DEF F8, F9
    <3>2. \A a, b \in 0 .. (2 * 128) - 1 : F8[a][b] = F9[a][b]
      BY <2>9, Zenon DEF Alike
    <3> QED
      BY <3>1, <3>2, Zenon
  <2>11. F8 = F9
    <3>1. /\ F8 = [a \in Byte |-> [b \in Byte |->
                    IF a + b = 0 THEN 0 ELSE (2 * F7[a \div 2][b \div 2]) + ((a + b) % 2)]]
          /\ F9 = [a \in Byte |-> [b \in Byte |->
                    IF a + b = 0 THEN 0 ELSE (2 * F8[a \div 2][b \div 2]) + ((a + b) % 2)]]
      BY DEF F8, XorStep
    <3> HIDE DEF F8, F9
    <3> QED
      BY <2>10, <3>1
  <2>12. Is(F8)
    <3>1. F9 = [a \in Byte |-> [b \in Byte |->
                 IF a + b = 0 THEN 0 ELSE (2 * F8[a \div 2][b \div 2]) + ((a + b) % 2)]]
      BY DEF XorStep
    <3> HIDE DEF F8, F9
    <3> QED
      BY <2>11, <3>1
  <2> HIDE DEF F8, Is
  <2> QED
    BY <2>12
<1>2. Is(X)
  <2> HIDE DEF Is
  <2> QED
    BY <1>1
<1>3. Xor = X
  BY Zenon DEF Xor
<1> HIDE DEF X
<1> QED
  BY <1>2, <1>3 DEF XorStep

LEMMA XorIs ==
  ASSUME NEW a \in Byte, NEW b \in Byte
  PROVE  Xor[a][b] = IF a + b = 0 THEN 0 ELSE (2 * Xor[a \div 2][b \div 2]) + ((a + b) % 2)
<1> DEFINE Y == XorStep(Xor)
<1>1. Y[a][b] = IF a + b = 0 THEN 0 ELSE (2 * Xor[a \div 2][b \div 2]) + ((a + b) % 2)
  BY XorStepIs
<1>2. Xor = Y
  BY XorIsStep
<1> HIDE DEF Y
<1> QED
  BY <1>1, <1>2

(* Below h it keeps below h, and is its own inverse.                          *)
Inverts(h) == \A a, b \in 0 .. h - 1 : Xor[a][b] \in 0 .. h - 1 /\ Xor[Xor[a][b]][b] = a

LEMMA InvertsTwice ==
  ASSUME NEW h \in 1 .. 128, Inverts(h)
  PROVE  Inverts(2 * h)
<1>1. ASSUME NEW a \in 0 .. (2 * h) - 1, NEW b \in 0 .. (2 * h) - 1
      PROVE  Xor[a][b] \in 0 .. (2 * h) - 1 /\ Xor[Xor[a][b]][b] = a
  <2>1. a \in Byte /\ b \in Byte /\ a \div 2 \in 0 .. h - 1 /\ b \div 2 \in 0 .. h - 1
    BY DEF Byte
  <2>2. PICK high \in 0 .. h - 1 : high = Xor[a \div 2][b \div 2] /\ Xor[high][b \div 2] = a \div 2
    BY <2>1 DEF Inverts
  <2>3. PICK c : c = Xor[a][b]
    OBVIOUS
  <2>4. c = IF a + b = 0 THEN 0 ELSE (2 * high) + ((a + b) % 2)
    BY <2>1, <2>2, <2>3, XorIs
  <2>5. CASE a + b = 0
    <3>1. a = 0 /\ b = 0 /\ c = 0
      BY <2>4, <2>5
    <3>2. Xor[0][0] = 0
      BY <2>3, <3>1
    <3> QED
      BY <2>3, <3>1, <3>2
  <2>6. CASE a + b # 0
    <3>1. c = (2 * high) + ((a + b) % 2) /\ c \in 0 .. (2 * h) - 1 /\ c \in Byte
      BY <2>4, <2>6 DEF Byte
    <3>2. c \div 2 = high /\ (c + b) % 2 = a % 2
      BY <3>1
    <3>3. Xor[c][b] = IF c + b = 0 THEN 0 ELSE (2 * Xor[c \div 2][b \div 2]) + ((c + b) % 2)
      BY <2>1, <3>1, XorIs
    <3>4. CASE c + b # 0
      <4>1. Xor[c][b] = (2 * (a \div 2)) + (a % 2)
        BY <2>2, <3>2, <3>3, <3>4
      <4> QED
        BY <2>3, <3>1, <4>1
    <3>5. CASE c + b = 0
      <4>1. c = 0 /\ b = 0 /\ high = 0 /\ a % 2 = 0 /\ b \div 2 = 0
        BY <3>1, <3>2, <3>5
      <4>2. Xor[0][0] = 0
        <5>1. 0 \in Byte
          BY DEF Byte
        <5> QED
          BY <5>1, XorIs
      <4>3. a \div 2 = 0
        BY <2>2, <4>1, <4>2
      <4>4. a = 0
        BY <4>1, <4>3
      <4> QED
        BY <2>3, <3>1, <4>1, <4>2, <4>4
    <3> QED
      BY <3>4, <3>5
  <2> QED
    BY <2>5, <2>6
<1> QED
  BY <1>1 DEF Inverts

LEMMA XorInverts ==
  ASSUME NEW a \in Byte, NEW b \in Byte
  PROVE  Xor[a][b] \in Byte /\ Xor[Xor[a][b]][b] = a
<1>1. Inverts(1)
  <2>1. 0 \in Byte /\ \A x, y \in 0 .. 1 - 1 : x = 0 /\ y = 0
    BY DEF Byte
  <2>2. Xor[0][0] = 0
    BY <2>1, XorIs
  <2> QED
    BY <2>1, <2>2 DEF Inverts
<1>2. Inverts(2 * 1)
  BY <1>1, InvertsTwice
<1>3. Inverts(2 * 2)
  BY <1>2, InvertsTwice
<1>4. Inverts(2 * 4)
  BY <1>3, InvertsTwice
<1>5. Inverts(2 * 8)
  BY <1>4, InvertsTwice
<1>6. Inverts(2 * 16)
  BY <1>5, InvertsTwice
<1>7. Inverts(2 * 32)
  BY <1>6, InvertsTwice
<1>8. Inverts(2 * 64)
  BY <1>7, InvertsTwice
<1>9. Inverts(2 * 128)
  BY <1>8, InvertsTwice
<1>10. Byte = 0 .. (2 * 128) - 1
  BY DEF Byte
<1>11. \A x, y \in 0 .. (2 * 128) - 1 : Xor[x][y] \in 0 .. (2 * 128) - 1 /\ Xor[Xor[x][y]][y] = x
  BY <1>9, Zenon DEF Inverts
<1> QED
  BY <1>10, <1>11, Zenon

(* Masking twice with one key brings the data back.                           *)
LEMMA MaskInverts ==
  ASSUME NEW data \in Seq(Byte), NEW key \in Seq(Byte), Len(key) = 4
  PROVE  /\ Masked(data, key) \in Seq(Byte) /\ Len(Masked(data, key)) = Len(data)
         /\ Masked(Masked(data, key), key) = data
<1>1. Len(data) \in Nat /\ \A i \in 1 .. Len(data) : data[i] \in Byte
  BY LenProperties, ElementOfSeq
<1> DEFINE k(i) == key[((i - 1) % 4) + 1]
           m == Masked(data, key)
<1>2. ASSUME NEW i \in 1 .. Len(data) PROVE k(i) \in Byte
  <2>1. ((i - 1) % 4) + 1 \in 1 .. Len(key)
    BY <1>1
  <2> QED
    BY <2>1, ElementOfSeq
<1>3. m = [i \in 1 .. Len(data) |-> Xor[data[i]][k(i)]]
  BY DEF Masked
<1>4. m \in Seq(Byte) /\ Len(m) = Len(data)
  <2>1. ASSUME NEW i \in 1 .. Len(data) PROVE Xor[data[i]][k(i)] \in Byte
    BY <1>1, <1>2, XorInverts
  <2>2. m \in [1 .. Len(data) -> Byte]
    BY <1>3, <2>1
  <2> HIDE DEF m
  <2> QED
    BY <1>1, <2>2, FunctionIsSeq
<1>5. Masked(m, key) = [i \in 1 .. Len(data) |-> Xor[m[i]][k(i)]]
  <2> HIDE DEF m
  <2> QED
    BY <1>4 DEF Masked
<1>6. ASSUME NEW i \in 1 .. Len(data) PROVE Xor[m[i]][k(i)] = data[i]
  <2>1. m[i] = Xor[data[i]][k(i)]
    BY <1>3
  <2> HIDE DEF m
  <2> QED
    BY <1>1, <1>2, <2>1, XorInverts
<1>7. data = [i \in 1 .. Len(data) |-> data[i]]
  BY <1>1
<1> HIDE DEF m, k
<1>8. Masked(m, key) = data
  BY <1>5, <1>6, <1>7
<1> QED
  BY <1>4, <1>8 DEF m

-----------------------------------------------------------------------------
(* Sequences that agree from a to b have the same part there.                 *)
LEMMA SamePart ==
  ASSUME NEW S, NEW s \in Seq(S), NEW t \in Seq(S), NEW a \in Nat \ {0}, NEW b \in Nat,
         a <= b + 1, b <= Len(s), b <= Len(t), \A i \in a .. b : s[i] = t[i]
  PROVE  SubSeq(s, a, b) = SubSeq(t, a, b)
<1> DEFINE u == SubSeq(s, a, b)
           v == SubSeq(t, a, b)
<1>1. /\ u \in Seq(S) /\ Len(u) = b + 1 - a
      /\ \A i \in 1 .. Len(u) : u[i] = s[a + i - 1]
  BY PartOfSeq
<1>2. /\ v \in Seq(S) /\ Len(v) = b + 1 - a
      /\ \A i \in 1 .. Len(v) : v[i] = t[a + i - 1]
  BY PartOfSeq
<1> HIDE DEF u, v
<1>3. \A i \in 1 .. Len(u) : u[i] = v[i]
  <2>1. ASSUME NEW i \in 1 .. Len(u) PROVE a + i - 1 \in a .. b
    BY <1>1
  <2> QED
    BY <1>1, <1>2, <2>1
<1>4. u = v
  BY <1>1, <1>2, <1>3, SeqEqual
<1> QED
  BY <1>4 DEF u, v

(* Three sequences put together.                                              *)
HasParts(u, x, y, z) ==
  /\ Len(u) = Len(x) + Len(y) + Len(z)
  /\ \A i \in 1 .. Len(x) : u[i] = x[i]
  /\ SubSeq(u, Len(x) + 1, Len(x) + Len(y)) = y
  /\ SubSeq(u, Len(x) + Len(y) + 1, Len(u)) = z

LEMMA ThreeParts ==
  ASSUME NEW S, NEW x \in Seq(S), NEW y \in Seq(S), NEW z \in Seq(S)
  PROVE  (x \o y) \o z \in Seq(S) /\ HasParts((x \o y) \o z, x, y, z)
<1>0. PICK u : u = (x \o y) \o z
  OBVIOUS
<1>1. Len(x) \in Nat /\ Len(y) \in Nat /\ Len(z) \in Nat
  BY LenProperties
<1>2. PICK w : w = x \o y
  OBVIOUS
<1>3. w \in Seq(S) /\ Len(w) = Len(x) + Len(y) /\ \A i \in 1 .. Len(x) : w[i] = x[i]
  BY <1>2, FirstPart
<1>4. w \in Seq(S) /\ u = w \o z
  BY <1>0, <1>2, <1>3
<1>5. u \in Seq(S) /\ Len(u) = Len(w) + Len(z) /\ \A i \in 1 .. Len(w) : u[i] = w[i]
  BY <1>4, FirstPart
<1>6. SubSeq(u, Len(w) + 1, Len(u)) = z
  BY <1>4, SecondPart
<1>7. SubSeq(w, Len(x) + 1, Len(w)) = y
  BY <1>2, SecondPart
<1>8. SubSeq(u, Len(x) + 1, Len(w)) = SubSeq(w, Len(x) + 1, Len(w))
  <2>1. PICK a \in Nat \ {0}, b \in Nat : a = Len(x) + 1 /\ b = Len(w)
    BY <1>1, <1>3
  <2>2. a <= b + 1 /\ b <= Len(u) /\ b <= Len(w) /\ \A i \in a .. b : i \in 1 .. Len(w)
    BY <1>1, <1>3, <1>5, <2>1
  <2>3. \A i \in a .. b : u[i] = w[i]
    BY <1>5, <2>2
  <2>4. u \in Seq(S) /\ w \in Seq(S)
    BY <1>3, <1>5
  <2>5. SubSeq(u, a, b) = SubSeq(w, a, b)
    BY <2>2, <2>3, <2>4, SamePart
  <2> QED
    BY <2>1, <2>5
<1>9. Len(u) = Len(x) + Len(y) + Len(z) /\ \A i \in 1 .. Len(x) : u[i] = x[i]
  BY <1>1, <1>3, <1>5
<1>10. u \in Seq(S) /\ HasParts(u, x, y, z)
  BY <1>3, <1>5, <1>6, <1>7, <1>8, <1>9 DEF HasParts
<1> QED
  BY <1>0, <1>10

(* A client's frame: its head h and the bytes of its payload.                 *)
IsHead(h, op, ext, key, len) ==
  /\ h \in Seq(Byte) /\ Len(h) = 2 + ext + Len(key)
  /\ WS_GET_OP(h[1]) = op
  /\ WS_GET_MASK(h[2]) <=> key # <<>>
  /\ ExtBytes(WS_GET_LEN(h[2])) = ext
  /\ ext = 0 => WS_GET_LEN(h[2]) = len
  /\ ext # 0 => Number(SubSeq(h, 3, 2 + ext)) = len
  /\ key # <<>> => SubSeq(h, Len(h) - 3, Len(h)) = key
IsBody(body, key, data) ==
  /\ body \in Seq(Byte) /\ Len(body) = Len(data)
  /\ data = IF key = <<>> THEN body ELSE Masked(body, key)

LEMMA BodyOf ==
  ASSUME NEW data \in Seq(Byte), NEW key \in Seq(Byte), Len(key) \in {0, 4}
  PROVE  IsBody(IF key = <<>> THEN data ELSE Masked(data, key), key, data)
<1>1. CASE key = <<>>
  BY <1>1 DEF IsBody
<1>2. CASE key # <<>>
  <2>1. Len(key) = 4
    BY <1>2, EmptySeq
  <2>2. /\ Masked(data, key) \in Seq(Byte) /\ Len(Masked(data, key)) = Len(data)
        /\ Masked(Masked(data, key), key) = data
    BY <2>1, MaskInverts
  <2> QED
    BY <1>2, <2>2 DEF IsBody
<1> QED
  BY <1>1, <1>2

Says(start, digits, op, ext, key, len) ==
  /\ Len(start) = 2 /\ Len(digits) = ext /\ Len(key) \in {0, 4}
  /\ WS_GET_OP(start[1]) = op
  /\ WS_GET_MASK(start[2]) <=> key # <<>>
  /\ ExtBytes(WS_GET_LEN(start[2])) = ext
  /\ ext = 0 => WS_GET_LEN(start[2]) = len
  /\ ext # 0 => Number(digits) = len

LEMMA HeadOf ==
  ASSUME NEW start \in Seq(Byte), NEW key \in Seq(Byte), NEW digits \in Seq(Byte),
         NEW op, NEW ext \in Nat, NEW len, Says(start, digits, op, ext, key, len)
  PROVE  IsHead((start \o digits) \o key, op, ext, key, len)
<1>1. PICK h : h = (start \o digits) \o key
  OBVIOUS
<1>0. /\ Len(start) = 2 /\ Len(digits) = ext /\ Len(key) \in {0, 4}
      /\ WS_GET_OP(start[1]) = op
      /\ WS_GET_MASK(start[2]) <=> key # <<>>
      /\ ExtBytes(WS_GET_LEN(start[2])) = ext
      /\ ext = 0 => WS_GET_LEN(start[2]) = len
      /\ ext # 0 => Number(digits) = len
  BY DEF Says
<1>2. /\ h \in Seq(Byte) /\ Len(h) = Len(start) + Len(digits) + Len(key)
      /\ \A i \in 1 .. Len(start) : h[i] = start[i]
      /\ SubSeq(h, Len(start) + 1, Len(start) + Len(digits)) = digits
      /\ SubSeq(h, Len(start) + Len(digits) + 1, Len(h)) = key
  <2>1. h \in Seq(Byte) /\ HasParts(h, start, digits, key)
    BY <1>1, ThreeParts
  <2> QED
    BY <2>1, Zenon DEF HasParts
<1>3. h \in Seq(Byte) /\ Len(h) = 2 + ext + Len(key) /\ SubSeq(h, 3, 2 + ext) = digits
  BY <1>0, <1>2
<1>4. h[1] = start[1] /\ h[2] = start[2]
  <2>1. 1 \in 1 .. Len(start) /\ 2 \in 1 .. Len(start)
    BY <1>0
  <2> QED
    BY <1>2, <2>1, Zenon
<1>5. key # <<>> => SubSeq(h, Len(h) - 3, Len(h)) = key
  <2>1. ASSUME key # <<>> PROVE Len(start) + Len(digits) + 1 = Len(h) - 3
    <3>1. Len(key) = 4
      BY <1>0, <2>1, EmptySeq
    <3> QED
      BY <1>0, <1>3, <3>1
  <2> QED
    BY <1>2, <2>1
<1>6. IsHead(h, op, ext, key, len)
  BY <1>0, <1>3, <1>4, <1>5, Zenon DEF IsHead
<1> QED
  BY <1>1, <1>6

LEMMA FrameParts ==
  ASSUME NEW f, IsClientFrame(f)
  PROVE  /\ f.data \in Seq(Byte) /\ f.key \in Seq(Byte) /\ Len(f.key) \in {0, 4} /\ f.ext \in 0 .. WideBytes
         /\ \E h, body : /\ IsHead(h, f.op, f.ext, f.key, Len(f.data)) /\ IsBody(body, f.key, f.data)
                         /\ ClientFrame(f) = h \o body
<1>1. PICK op \in 0 .. 15, fin \in {0, FIN}, data \in Seq(Byte), key \in Seq(Byte),
             ext \in {0, 2, WideBytes} :
        /\ op = f.op /\ fin = f.fin /\ data = f.data /\ key = f.key /\ ext = f.ext
        /\ Len(key) \in {0, 4}
        /\ \/ ext = 0 /\ Len(data) <= ShortLen
           \/ ext \in {2, WideBytes} /\ Len(data) < Power[ext]
  BY DEF IsClientFrame
<1>2. /\ ShortLen \in Nat /\ ShortLen + 2 < 128 /\ WideBytes \in Nat /\ WideBytes > 2
      /\ Len(data) \in Nat
  BY CodecAssumption, LenProperties
<1>3. /\ ext \in 0 .. WideBytes /\ ext \in Nat /\ (ext # 0 => ext = 2 \/ ext = WideBytes)
      /\ ext = 0 => Len(data) <= ShortLen
      /\ ext # 0 => Len(data) < Power[ext]
  BY <1>1, <1>2
<1>4. PICK mask \in {0, 128} : mask = (IF key = <<>> THEN 0 ELSE 128)
  OBVIOUS
<1>5. PICK low \in 0 .. 127 :
        low = IF ext = 0 THEN Len(data) ELSE IF ext = 2 THEN ShortLen + 1 ELSE ShortLen + 2
  <2>1. ASSUME ext = 0 PROVE Len(data) \in 0 .. 127
    <3>1. PICK len \in Nat : len = Len(data)
      BY <1>2
    <3>2. len <= ShortLen
      BY <1>3, <2>1, <3>1
    <3>3. len \in 0 .. 127
      BY <1>2, <3>2
    <3> QED
      BY <3>1, <3>3
  <2>2. ShortLen + 1 \in 0 .. 127 /\ ShortLen + 2 \in 0 .. 127
    BY <1>2
  <2> QED
    BY <2>1, <2>2
<1>6. ExtBytes(low) = ext /\ (ext = 0 => low = Len(data))
  BY <1>2, <1>3, <1>5 DEF ExtBytes
<1>7. mask = 128 <=> key # <<>>
  BY <1>4
<1>8. PICK start : start = <<fin + op, mask + low>>
  OBVIOUS
<1>9. /\ start \in Seq(Byte) /\ Len(start) = 2
      /\ WS_GET_OP(start[1]) = op /\ (WS_GET_MASK(start[2]) <=> mask = 128)
      /\ WS_GET_LEN(start[2]) = low
  <2>1. fin + op \in Byte /\ mask + low \in Byte
    BY DEF Byte, FIN
  <2>2. start \in Seq(Byte) /\ Len(start) = 2 /\ start[1] = fin + op /\ start[2] = mask + low
    BY <1>8, <2>1
  <2>3. (fin + op) % 16 = op
    BY DEF FIN
  <2>4. (mask + low >= 128 <=> mask = 128) /\ (mask + low) % 128 = low
    OBVIOUS
  <2> QED
    BY <2>2, <2>3, <2>4 DEF WS_GET_OP, WS_GET_MASK, WS_GET_LEN
<1>10. PICK digits : digits = Digits(Len(data), ext)
  OBVIOUS
<1>11. digits \in Seq(Byte) /\ Len(digits) = ext /\ (ext # 0 => Number(digits) = Len(data))
  <2>1. CASE ext # 0
    BY <1>2, <1>3, <1>10, <2>1, NumberOfDigits
  <2>2. CASE ext = 0
    <3>1. digits = [i \in 1 .. 0 |-> (Len(data) \div Power[0 - i]) % 256]
      BY <1>10, <2>2 DEF Digits
    <3>2. digits \in [1 .. 0 -> Byte]
      BY <3>1
    <3> QED
      BY <2>2, <3>2, FunctionIsSeq
  <2> QED
    BY <2>1, <2>2
<1>12. PICK h : h = (start \o digits) \o key
  OBVIOUS
<1>13. PICK body : body = IF key = <<>> THEN data ELSE Masked(data, key)
  OBVIOUS
<1>14. ClientFrame(f) = h \o body
  BY <1>1, <1>4, <1>5, <1>8, <1>10, <1>12, <1>13, Zenon DEF ClientFrame
<1>15. IsBody(body, key, data)
  BY <1>1, <1>13, BodyOf
<1>16. IsHead(h, op, ext, key, Len(data))
  <2>1. /\ start \in Seq(Byte) /\ Len(start) = 2 /\ WS_GET_OP(start[1]) = op
        /\ Len(key) \in {0, 4} /\ (WS_GET_MASK(start[2]) <=> key # <<>>)
    BY <1>1, <1>7, <1>9, Zenon
  <2>2. ext \in Nat /\ ExtBytes(WS_GET_LEN(start[2])) = ext
    BY <1>3, <1>6, <1>9
  <2>3. Len(data) \in Nat /\ (ext = 0 => WS_GET_LEN(start[2]) = Len(data))
    BY <1>2, <1>6, <1>9
  <2>4. PICK len \in Nat : len = Len(data)
    BY <1>2
  <2>5. Says(start, digits, op, ext, key, len)
    BY <1>11, <2>1, <2>2, <2>3, <2>4, Zenon DEF Says
  <2>6. IsHead((start \o digits) \o key, op, ext, key, len)
    BY <1>1, <1>11, <2>1, <2>2, <2>5, HeadOf
  <2> QED
    BY <1>12, <2>4, <2>6, Zenon
<1> QED
  BY <1>1, <1>3, <1>14, <1>15, <1>16

LEMMA BelowItsModulus ==
  ASSUME NEW a \in Nat, NEW w \in Nat, a < w
  PROVE  a % w = a
  OBVIOUS

(* What the program reads of bytes that agree with a frame's.                 *)
Agrees(s, t) == \A i \in 1 .. Len(s) : i <= Len(t) => s[i] = t[i]

LEMMA HeadRead ==
  ASSUME NEW h \in Seq(Byte), NEW op, NEW ext \in Nat, NEW key \in Seq(Byte), Len(key) \in {0, 4}, NEW len,
         IsHead(h, op, ext, key, len), NEW s \in Seq(Byte), Agrees(s, h), Len(s) >= 2
  PROVE  /\ HeaderLen(s) = Len(h) /\ Len(h) >= 2 /\ WS_GET_OP(s[1]) = op
         /\ WS_GET_MASK(s[2]) <=> key # <<>>
         /\ Len(s) >= Len(h) => PayloadLen(s) = len
<1>1. /\ Len(h) = 2 + ext + Len(key) /\ WS_GET_OP(h[1]) = op
      /\ WS_GET_MASK(h[2]) <=> key # <<>>
      /\ ExtBytes(WS_GET_LEN(h[2])) = ext
      /\ ext = 0 => WS_GET_LEN(h[2]) = len
      /\ ext # 0 => Number(SubSeq(h, 3, 2 + ext)) = len
  BY DEF IsHead
<1>2. Len(h) \in Nat /\ Len(h) >= 2 /\ Len(s) \in Nat
  BY <1>1, LenProperties
<1>3. s[1] = h[1] /\ s[2] = h[2]
  <2>1. 1 \in 1 .. Len(s) /\ 2 \in 1 .. Len(s) /\ 1 <= Len(h) /\ 2 <= Len(h)
    BY <1>2
  <2> QED
    BY <2>1, Zenon DEF Agrees
<1>4. Len(key) = IF key # <<>> THEN 4 ELSE 0
  BY EmptySeq
<1>5. HeaderLen(s) = Len(h)
  <2>1. KeyBytes(s) = IF key # <<>> THEN 4 ELSE 0
    BY <1>1, <1>3, Zenon DEF KeyBytes
  <2>2. HeaderLen(s) = 2 + ext + KeyBytes(s)
    BY <1>1, <1>3, Zenon DEF HeaderLen
  <2> QED
    BY <1>1, <1>4, <2>1, <2>2
<1>6. ASSUME Len(s) >= Len(h) PROVE PayloadLen(s) = len
  <2>1. PayloadLen(s) = IF ext = 0 THEN WS_GET_LEN(h[2]) ELSE Number(SubSeq(s, 3, 2 + ext))
    BY <1>1, <1>3, Zenon DEF PayloadLen
  <2>2. ASSUME ext # 0 PROVE SubSeq(s, 3, 2 + ext) = SubSeq(h, 3, 2 + ext)
    <3>1. PICK b \in Nat : b = 2 + ext
      OBVIOUS
    <3>2. b <= Len(s) /\ b <= Len(h) /\ 3 <= b + 1 /\ \A i \in 3 .. b : i \in 1 .. Len(s) /\ i <= Len(h)
      BY <1>1, <1>2, <1>4, <1>6, <3>1
    <3>3. \A i \in 3 .. b : s[i] = h[i]
      BY <3>2, Zenon DEF Agrees
    <3>4. SubSeq(s, 3, b) = SubSeq(h, 3, b)
      BY <3>2, <3>3, SamePart
    <3> QED
      BY <3>1, <3>4
  <2> QED
    BY <1>1, <2>1, <2>2
<1> QED
  BY <1>1, <1>2, <1>3, <1>5, <1>6

LEMMA BodyRead ==
  ASSUME NEW h \in Seq(Byte), NEW op, NEW ext \in Nat, NEW key \in Seq(Byte), Len(key) \in {0, 4},
         NEW data \in Seq(Byte), NEW body \in Seq(Byte),
         IsHead(h, op, ext, key, Len(data)), IsBody(body, key, data),
         NEW s \in Seq(Byte), Agrees(s, h \o body), Len(s) >= Len(h) + Len(data)
  PROVE  Payload(s) = data
<1>1. PICK f : f = h \o body
  OBVIOUS
<1>2. /\ f \in Seq(Byte) /\ Len(f) = Len(h) + Len(body) /\ \A i \in 1 .. Len(h) : f[i] = h[i]
      /\ SubSeq(f, Len(h) + 1, Len(f)) = body
  BY <1>1, FirstPart, SecondPart
<1>3. Len(body) = Len(data) /\ data = IF key = <<>> THEN body ELSE Masked(body, key)
  BY DEF IsBody
<1>4. PICK n \in Nat, len \in Nat : n = Len(h) /\ len = Len(data)
  BY LenProperties
<1>5. Len(s) \in Nat /\ Len(s) >= n + len /\ n >= 2 /\ n = 2 + ext + Len(key) /\ Len(f) = n + len
  <2>1. Len(h) = 2 + ext + Len(key)
    BY DEF IsHead
  <2>2. Len(s) \in Nat /\ Len(s) >= n + len /\ Len(f) = n + len
    BY <1>2, <1>3, <1>4, LenProperties
  <2>3. PICK k \in Nat : k = Len(key)
    OBVIOUS
  <2>4. n = 2 + ext + k
    BY <1>4, <2>1, <2>3
  <2>5. n >= 2
    BY <2>4
  <2> QED
    BY <2>2, <2>3, <2>4, <2>5
<1>6. Agrees(s, h)
  <2>1. ASSUME NEW i \in 1 .. Len(s), i <= Len(h) PROVE s[i] = h[i]
    <3>1. i <= Len(f) /\ i \in 1 .. Len(h)
      BY <1>4, <1>5, <2>1
    <3>2. s[i] = f[i]
      BY <1>1, <3>1 DEF Agrees
    <3> QED
      BY <1>2, <3>1, <3>2
  <2> QED
    BY <2>1 DEF Agrees
<1>7. /\ HeaderLen(s) = n /\ PayloadLen(s) = len
      /\ WS_GET_MASK(s[2]) <=> key # <<>>
  <2>1. Len(s) >= 2 /\ Len(s) >= Len(h)
    BY <1>4, <1>5
  <2>2. /\ HeaderLen(s) = Len(h) /\ Len(h) >= 2 /\ WS_GET_OP(s[1]) = op
        /\ WS_GET_MASK(s[2]) <=> key # <<>>
        /\ Len(s) >= Len(h) => PayloadLen(s) = Len(data)
    BY <1>6, <2>1, HeadRead
  <2> QED
    BY <1>4, <2>1, <2>2
<1>8. SubSeq(s, n + 1, n + len) = body
  <2>1. PICK a \in Nat \ {0}, b \in Nat : a = n + 1 /\ b = n + len
    OBVIOUS
  <2>2. a <= b + 1 /\ b <= Len(s) /\ b <= Len(f) /\ \A i \in a .. b : i \in 1 .. Len(s) /\ i <= Len(f)
    BY <1>5, <2>1
  <2>3. \A i \in a .. b : s[i] = f[i]
    BY <1>1, <2>2, Zenon DEF Agrees
  <2>4. SubSeq(s, a, b) = SubSeq(f, a, b)
    BY <1>2, <2>2, <2>3, SamePart
  <2> QED
    BY <1>2, <1>4, <1>5, <2>1, <2>4
<1>9. ASSUME key # <<>> PROVE SubSeq(s, n - 3, n) = key
  <2>1. Len(key) = 4
    BY <1>9, EmptySeq
  <2>2. PICK a \in Nat \ {0} : a = n - 3
    BY <1>5, <2>1
  <2>3. a <= n + 1 /\ n <= Len(s) /\ n <= Len(h) /\ \A i \in a .. n : i \in 1 .. Len(s) /\ i <= Len(h)
    BY <1>4, <1>5, <2>2
  <2>4. \A i \in a .. n : s[i] = h[i]
    BY <1>6, <2>3, Zenon DEF Agrees
  <2>5. SubSeq(s, a, n) = SubSeq(h, a, n)
    BY <2>3, <2>4, SamePart
  <2>6. SubSeq(h, Len(h) - 3, Len(h)) = key
    BY <1>9 DEF IsHead
  <2> QED
    BY <1>4, <2>2, <2>5, <2>6
<1>10. Payload(s) = IF WS_GET_MASK(s[2]) THEN Masked(body, SubSeq(s, n - 3, n)) ELSE body
  BY <1>7, <1>8, Zenon DEF Payload
<1> QED
  BY <1>3, <1>7, <1>9, <1>10, Zenon

LEMMA FrameIsBytes ==
  ASSUME NEW f, IsClientFrame(f)
  PROVE  ClientFrame(f) \in Seq(Byte) /\ Len(ClientFrame(f)) >= 2
<1>1. PICK h, body : /\ IsHead(h, f.op, f.ext, f.key, Len(f.data)) /\ IsBody(body, f.key, f.data)
                     /\ ClientFrame(f) = h \o body
  BY FrameParts
<1>2. h \in Seq(Byte) /\ body \in Seq(Byte) /\ Len(h) = 2 + f.ext + Len(f.key) /\ Len(body) \in Nat
  BY <1>1, LenProperties DEF IsHead, IsBody
<1>3. f.ext \in 0 .. WideBytes /\ Len(f.key) \in {0, 4}
  BY FrameParts
<1>4. WideBytes \in Nat
  BY CodecAssumption
<1>5. Len(h) >= 2 /\ Len(h) \in Nat
  BY <1>2, <1>3, <1>4
<1> QED
  BY <1>1, <1>2, <1>5, FirstPart

(* A frame a client may send is found as soon as all of its bytes are there,  *)
(* and no sooner, and read as it was meant.                                   *)
LEMMA FrameRead ==
  ASSUME NEW f, IsClientFrame(f), NEW s \in Seq(Byte), Agrees(s, ClientFrame(f))
  PROVE  /\ HasFrame(s) <=> Len(s) >= Len(ClientFrame(f))
         /\ HasFrame(s) => /\ FrameLen(s) = Len(ClientFrame(f)) /\ Payload(s) = f.data
                           /\ WS_GET_OP(s[1]) = f.op
                           /\ WS_GET_MASK(s[2]) <=> f.key # <<>>
<1>0. PICK op : op = f.op
  OBVIOUS
<1>1. PICK data \in Seq(Byte), key \in Seq(Byte), ext \in 0 .. WideBytes :
        data = f.data /\ key = f.key /\ ext = f.ext /\ Len(key) \in {0, 4}
  BY FrameParts
<1>2. PICK h, body : /\ IsHead(h, op, ext, key, Len(data)) /\ IsBody(body, key, data)
                     /\ ClientFrame(f) = h \o body
  BY <1>0, <1>1, FrameParts
<1>3. WideBytes \in Nat /\ ext \in Nat /\ Power[WideBytes] \in Nat
  <2>1. WideBytes \in Nat
    BY CodecAssumption
  <2>2. WideBytes \in 0 .. WideBytes
    BY <2>1
  <2> QED
    BY <2>1, <2>2, Powers
<1>4. h \in Seq(Byte) /\ body \in Seq(Byte) /\ Len(body) = Len(data)
  BY <1>2 DEF IsHead, IsBody
<1>5. PICK c : c = ClientFrame(f)
  OBVIOUS
<1>6. /\ c = h \o body /\ Agrees(s, c) /\ Len(c) = Len(h) + Len(data) /\ Len(c) < Power[WideBytes]
      /\ \A i \in 1 .. Len(h) : c[i] = h[i]
  <2>1. c = h \o body /\ Agrees(s, c) /\ Len(c) < Power[WideBytes]
    BY <1>2, <1>5 DEF IsClientFrame
  <2>2. /\ c \in Seq(Byte) /\ Len(c) = Len(h) + Len(body)
        /\ \A i \in 1 .. Len(h) : c[i] = h[i]
    <3>1. h \in Seq(Byte) /\ body \in Seq(Byte) /\ c = h \o body
      BY <1>4, <2>1
    <3> QED
      BY <3>1, FirstPart
  <2> QED
    BY <1>4, <2>1, <2>2
<1>7. PICK n \in Nat, len \in Nat : n = Len(h) /\ len = Len(data)
  BY <1>4, LenProperties
<1>8. Len(s) \in Nat /\ Len(c) = n + len
  BY <1>6, <1>7, LenProperties
<1>9. Agrees(s, h)
  <2>1. ASSUME NEW i \in 1 .. Len(s), i <= Len(h) PROVE s[i] = h[i]
    <3>1. i <= Len(c) /\ i \in 1 .. Len(h)
      BY <1>7, <1>8, <2>1
    <3>2. s[i] = c[i]
      BY <1>6, <3>1 DEF Agrees
    <3> QED
      BY <1>6, <3>1, <3>2
  <2> QED
    BY <2>1 DEF Agrees
<1>10. n >= 2
  <2>1. Len(h) = 2 + ext + Len(key)
    BY <1>2 DEF IsHead
  <2> QED
    BY <1>1, <1>3, <1>7, <2>1
<1>11. ASSUME Len(s) >= 2
       PROVE  /\ HeaderLen(s) = n /\ WS_GET_OP(s[1]) = op
              /\ WS_GET_MASK(s[2]) <=> key # <<>>
              /\ Len(s) >= n => PayloadLen(s) = len /\ FrameLen(s) = n + len
  <2>1. /\ HeaderLen(s) = Len(h) /\ WS_GET_OP(s[1]) = op
        /\ WS_GET_MASK(s[2]) <=> key # <<>>
        /\ Len(s) >= Len(h) => PayloadLen(s) = Len(data)
    <3>1. IsHead(h, op, ext, key, Len(data)) /\ ext \in Nat /\ Len(key) \in {0, 4} /\ h \in Seq(Byte)
      BY <1>1, <1>2, <1>3, <1>4
    <3> QED
      BY <1>9, <1>11, <3>1, HeadRead
  <2>2. n + len < Power[WideBytes]
    BY <1>6, <1>8
  <2>3. (n + len) % Power[WideBytes] = n + len
    <3>1. PICK w \in Nat : w = Power[WideBytes]
      BY <1>3
    <3>2. n + len < w /\ n + len \in Nat
      BY <2>2, <3>1
    <3>3. (n + len) % w = n + len
      BY <3>2, BelowItsModulus
    <3> QED
      BY <3>1, <3>3
  <2>4. ASSUME Len(s) >= n PROVE PayloadLen(s) = len /\ FrameLen(s) = n + len
    <3>1. HeaderLen(s) = n /\ PayloadLen(s) = len
      BY <1>7, <2>1, <2>4
    <3> QED
      BY <2>3, <3>1 DEF FrameLen
  <2> QED
    BY <1>7, <2>1, <2>4
<1>12. HasFrame(s) <=> Len(s) >= n + len
  <2>1. CASE Len(s) >= n
    <3>1. Len(s) >= 2 /\ Len(s) >= HeaderLen(s) /\ FrameLen(s) = n + len
      <4>1. Len(s) >= 2
        BY <1>8, <1>10, <2>1
      <4>2. HeaderLen(s) = n /\ FrameLen(s) = n + len
        BY <1>11, <2>1, <4>1
      <4> QED
        BY <2>1, <4>1, <4>2
    <3>2. HasFrame(s) <=> FrameLen(s) \in 0 .. Len(s)
      BY <3>1 DEF HasFrame
    <3> QED
      BY <1>8, <3>1, <3>2
  <2>2. CASE ~(Len(s) >= n)
    <3>1. ~(Len(s) >= n + len)
      BY <1>8, <2>2
    <3>2. CASE Len(s) >= 2
      <4>1. HeaderLen(s) = n
        BY <1>11, <3>2
      <4> QED
        BY <2>2, <3>1, <4>1 DEF HasFrame
    <3>3. CASE ~(Len(s) >= 2)
      BY <3>1, <3>3 DEF HasFrame
    <3> QED
      BY <3>2, <3>3
  <2> QED
    BY <2>1, <2>2
<1>13. ASSUME HasFrame(s)
       PROVE  /\ FrameLen(s) = Len(c) /\ Payload(s) = data /\ WS_GET_OP(s[1]) = op
              /\ WS_GET_MASK(s[2]) <=> key # <<>>
  <2>1. Len(s) >= n + len /\ Len(s) >= 2 /\ Len(s) >= n
    BY <1>8, <1>10, <1>12, <1>13
  <2>2. Agrees(s, h \o body) /\ Len(s) >= Len(h) + Len(data)
    BY <1>6, <1>7, <2>1
  <2>3. Payload(s) = data
    BY <1>1, <1>2, <1>3, <1>4, <2>2, BodyRead
  <2> QED
    BY <1>8, <1>11, <2>1, <2>3
<1> QED
  BY <1>0, <1>1, <1>5, <1>8, <1>12, <1>13

-----------------------------------------------------------------------------
(* The payload of a frame is shorter than the frame can be.                   *)
LEMMA DataFits ==
  ASSUME NEW f, IsClientFrame(f)
  PROVE  f.data \in Seq(Byte) /\ Len(f.data) < Power[WideBytes]
<1>1. f.data \in Seq(Byte) /\ Len(f.data) \in Nat
  BY LenProperties DEF IsClientFrame
<1>2. PICK h, body : /\ IsHead(h, f.op, f.ext, f.key, Len(f.data)) /\ IsBody(body, f.key, f.data)
                     /\ ClientFrame(f) = h \o body
  BY FrameParts
<1>3. /\ h \in Seq(Byte) /\ body \in Seq(Byte) /\ Len(body) = Len(f.data)
      /\ Len(h) \in Nat
  BY <1>2, LenProperties DEF IsHead, IsBody
<1>4. Len(ClientFrame(f)) = Len(h) + Len(body) /\ Len(ClientFrame(f)) < Power[WideBytes]
  <2>1. Len(ClientFrame(f)) = Len(h) + Len(body)
    <3>1. PICK x \in Seq(Byte), y \in Seq(Byte), u \in {ClientFrame(f)} : x = h /\ y = body
      BY <1>3
    <3>2. u = x \o y
      BY <1>2, <3>1
    <3>3. Len(u) = Len(x) + Len(y)
      BY <3>2, FirstPart
    <3> QED
      BY <3>1, <3>3
  <2>2. Len(ClientFrame(f)) < Power[WideBytes]
    BY DEF IsClientFrame
  <2> QED
    BY <2>1, <2>2
<1>5. PICK p \in Nat : p = Power[WideBytes]
  <2>1. WideBytes \in 0 .. WideBytes
    BY CodecAssumption
  <2> QED
    BY <2>1, Powers
<1>6. Len(f.data) < p
  BY <1>1, <1>3, <1>4, <1>5
<1> QED
  BY <1>1, <1>5, <1>6

(* No two opcodes have one number, and all fit four bits.                     *)
LEMMA OpCodesDiffer ==
  /\ \A op \in Op : OpCode[op] \in 0 .. 11
  /\ \A a, b \in Op : OpCode[a] = OpCode[b] => a = b
<1>1. /\ OpCode["continuation"] = 0 /\ OpCode["text"] = 1 /\ OpCode["binary"] = 2
      /\ OpCode["close"] = 8 /\ OpCode["ping"] = 9 /\ OpCode["pong"] = 10
      /\ OpCode["discard"] = 11
  BY DEF Op, OpCode
<1> QED
  BY <1>1 DEF Op

(* The bytes in front of a payload: the length is in the second byte, or in   *)
(* ext bytes after it.                                                        *)
SentExt(len) == IF len <= ShortLen THEN 0 ELSE IF len <= LongLen THEN 2 ELSE WideBytes
Head_of(op, len) ==
  LET first == FIN + OpCode[op]
  IN IF len <= ShortLen THEN <<first, len>>
     ELSE IF len <= LongLen THEN <<first, ShortLen + 1>> \o Digits(len, 2)
     ELSE <<first, ShortLen + 2>> \o Digits(len, WideBytes)
IsSentHead(h, op, len) ==
  /\ h \in Seq(Byte) /\ Len(h) = 2 + SentExt(len) /\ h[1] - FIN = OpCode[op]
  /\ ExtField(h[2]) = SentExt(len)
  /\ SentExt(len) = 0 => h[2] = len
  /\ SentExt(len) # 0 => Number(SubSeq(h, 3, 2 + SentExt(len))) = len

LEMMA ExtOfLen ==
  ASSUME NEW len \in Nat, len < Power[WideBytes]
  PROVE  /\ SentExt(len) \in 0 .. WideBytes
         /\ SentExt(len) # 0 => len < Power[SentExt(len)]
<1>1. WideBytes \in Nat /\ WideBytes > 2 /\ 2 \in 1 .. WideBytes /\ 1 \in 1 .. WideBytes
  BY CodecAssumption
<1>2. Power[2] = 65536
  BY <1>1, Powers
<1>3. len <= LongLen => len < Power[2]
  BY <1>2 DEF LongLen
<1> QED
  BY <1>1, <1>3 DEF SentExt

LEMMA HeadBytes ==
  ASSUME NEW op \in Op, NEW len \in Nat, len < Power[WideBytes]
  PROVE  IsSentHead(Head_of(op, len), op, len)
<1>1. ShortLen \in Nat /\ ShortLen + 2 < 128 /\ OpCode[op] \in 0 .. 11 /\ WideBytes \in Nat
  BY CodecAssumption, OpCodesDiffer
<1>2. PICK first : first = FIN + OpCode[op]
  OBVIOUS
<1>3. first \in Byte /\ first - FIN = OpCode[op]
  BY <1>1, <1>2 DEF FIN, Byte
<1>4. PICK ext \in 0 .. WideBytes : ext = SentExt(len) /\ (ext # 0 => len < Power[ext])
  BY ExtOfLen
<1>5. CASE len <= ShortLen
  <2>1. len \in Byte /\ ExtField(len) = 0
    BY <1>1, <1>5 DEF Byte, ExtField
  <2>2. Head_of(op, len) = <<first, len>> /\ SentExt(len) = 0
    BY <1>2, <1>5, Zenon DEF Head_of, SentExt
  <2>3. <<first, len>> \in Seq(Byte) /\ Len(<<first, len>>) = 2 + 0
    BY <1>3, <2>1
  <2> QED
    BY <1>3, <2>1, <2>2, <2>3 DEF IsSentHead
<1>6. CASE ~(len <= ShortLen)
  <2>1. PICK second : second = IF len <= LongLen THEN ShortLen + 1 ELSE ShortLen + 2
    OBVIOUS
  <2>2. second \in Byte /\ ExtField(second) = ext /\ ext # 0
    BY <1>1, <1>4, <1>6, <2>1, CodecAssumption DEF Byte, ExtField, SentExt
  <2>3. PICK digits : digits = Digits(len, ext)
    OBVIOUS
  <2>4. digits \in Seq(Byte) /\ Len(digits) = ext /\ Number(digits) = len
    BY <1>4, <2>2, <2>3, NumberOfDigits
  <2>5. PICK start : start = <<first, second>>
    OBVIOUS
  <2>6. start \in Seq(Byte) /\ Len(start) = 2 /\ start[1] = first /\ start[2] = second
    BY <1>3, <2>2, <2>5
  <2>7. PICK h : h = start \o digits
    OBVIOUS
  <2>8. /\ h \in Seq(Byte) /\ Len(h) = Len(start) + Len(digits)
        /\ \A i \in 1 .. Len(start) : h[i] = start[i]
    <3>1. start \in Seq(Byte) /\ digits \in Seq(Byte) /\ h = start \o digits
      BY <2>4, <2>6, <2>7
    <3> QED
      BY <3>1, FirstPart
  <2>9. SubSeq(h, Len(start) + 1, Len(h)) = digits
    BY <2>4, <2>6, <2>7, SecondPart
  <2>10. h[1] = first /\ h[2] = second /\ Len(h) = 2 + ext /\ SubSeq(h, 3, 2 + ext) = digits
    <3>1. Len(h) = 2 + ext
      BY <2>4, <2>6, <2>8
    <3>2. 1 \in 1 .. Len(start) /\ 2 \in 1 .. Len(start) /\ Len(start) + 1 = 3
      BY <2>6
    <3> QED
      BY <2>6, <2>8, <2>9, <3>1, <3>2
  <2>11. Head_of(op, len) = h
    <3>1. CASE len <= LongLen
      BY <1>2, <1>4, <1>6, <2>1, <2>3, <2>5, <2>7, <3>1, Zenon DEF Head_of, SentExt
    <3>2. CASE ~(len <= LongLen)
      BY <1>2, <1>4, <1>6, <2>1, <2>3, <2>5, <2>7, <3>2, Zenon DEF Head_of, SentExt
    <3> QED
      BY <3>1, <3>2
  <2>12. IsSentHead(h, op, len)
    BY <1>3, <1>4, <2>2, <2>4, <2>8, <2>10 DEF IsSentHead
  <2> QED
    BY <2>11, <2>12
<1> QED
  BY <1>5, <1>6

LEMMA SentIsHeadAndData ==
  ASSUME NEW op, NEW s
  PROVE  ws_send_frame(op, s) = Head_of(op, Len(s)) \o s
  BY Zenon DEF ws_send_frame, Head_of

LEMMA ReadAsMeant ==
  ASSUME NEW op \in Op, NEW f, f[1] - FIN = OpCode[op], NEW ext, NEW len, Len(f) = 2 + ext + len,
         NEW s, SubSeq(f, 3 + ext, Len(f)) = s
  PROVE  ReadAs(f, ext, len) = [type |-> op, data |-> s]
<1>1. {o \in Op : OpCode[o] = f[1] - FIN} = {op}
  BY OpCodesDiffer
<1> QED
  BY <1>1 DEF ReadAs

(* Every frame the program sends is read by its client as it was meant.       *)
LEMMA ClientReadsWhatIsSent ==
  ASSUME NEW op \in Op, NEW s \in Seq(Byte), Len(s) < Power[WideBytes]
  PROVE  ClientReads(ws_send_frame(op, s)) = [type |-> op, data |-> s]
<1>1. PICK len \in Nat : len = Len(s) /\ len < Power[WideBytes]
  BY LenProperties
<1>2. PICK h : h = Head_of(op, len)
  OBVIOUS
<1>3. PICK ext : ext = SentExt(len) /\ ext \in 0 .. WideBytes
  BY <1>1, ExtOfLen
<1>4. /\ h \in Seq(Byte) /\ Len(h) = 2 + ext /\ h[1] - FIN = OpCode[op]
      /\ ExtField(h[2]) = ext
      /\ ext = 0 => h[2] = len
      /\ ext # 0 => Number(SubSeq(h, 3, 2 + ext)) = len
  BY <1>1, <1>2, <1>3, HeadBytes DEF IsSentHead
<1>5. PICK f : f = ws_send_frame(op, s)
  OBVIOUS
<1>6. f = h \o s
  BY <1>1, <1>2, <1>5, SentIsHeadAndData
<1>7. /\ f \in Seq(Byte) /\ Len(f) = Len(h) + Len(s)
      /\ \A i \in 1 .. Len(h) : f[i] = h[i]
  <2>1. h \in Seq(Byte) /\ s \in Seq(Byte) /\ f = h \o s
    BY <1>4, <1>6
  <2> QED
    BY <2>1, FirstPart
<1>8. SubSeq(f, Len(h) + 1, Len(f)) = s
  BY <1>4, <1>6, SecondPart
<1>9. ext \in Nat
  BY <1>3, CodecAssumption
<1>10. f[1] = h[1] /\ f[2] = h[2]
  <2>1. 1 \in 1 .. Len(h) /\ 2 \in 1 .. Len(h)
    BY <1>4, <1>9
  <2> QED
    BY <1>7, <2>1
<1>11. Len(f) = 2 + ext + len /\ SubSeq(f, 3 + ext, Len(f)) = s
  <2>1. Len(f) = 2 + ext + len /\ Len(h) + 1 = 3 + ext
    BY <1>1, <1>4, <1>7, <1>9
  <2> QED
    BY <1>8, <2>1
<1>12. SubSeq(f, 3, 2 + ext) = SubSeq(h, 3, 2 + ext)
  <2>1. PICK b \in Nat : b = 2 + ext
    BY <1>9
  <2>2. 3 <= b + 1 /\ b <= Len(f) /\ b <= Len(h) /\ \A i \in 3 .. b : i \in 1 .. Len(h)
    BY <1>1, <1>4, <1>9, <1>11, <2>1
  <2>3. \A i \in 3 .. b : f[i] = h[i]
    BY <1>7, <2>2
  <2>4. SubSeq(f, 3, b) = SubSeq(h, 3, b)
    BY <1>4, <1>7, <2>2, <2>3, SamePart
  <2> QED
    BY <2>1, <2>4
<1>13. ClientReads(f) = ReadAs(f, ext, len)
  BY <1>4, <1>10, <1>12 DEF ClientReads
<1>14. f[1] - FIN = OpCode[op]
  BY <1>4, <1>10
<1>15. ReadAs(f, ext, len) = [type |-> op, data |-> s]
  BY <1>11, <1>14, ReadAsMeant
<1> QED
  BY <1>5, <1>13, <1>15

(* A frame is bytes.                                                          *)
LEMMA FramesAreBytes ==
  ASSUME NEW op \in Op, NEW s \in Seq(Byte), Len(s) < Power[WideBytes]
  PROVE  ws_send_frame(op, s) \in Seq(Byte)
<1>1. Len(s) \in Nat
  BY LenProperties
<1>2. Head_of(op, Len(s)) \in Seq(Byte)
  BY <1>1, HeadBytes DEF IsSentHead
<1> QED
  BY <1>2, SentIsHeadAndData, FirstPart
=============================================================================
