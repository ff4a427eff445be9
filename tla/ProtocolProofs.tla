--------------------------- MODULE ProtocolProofs ---------------------------
(***************************************************************************)
(* Theorems of Protocol, for every number of slots, all texts and names,   *)
(* and whatever lies behind an array.                                      *)
(***************************************************************************)
EXTENDS Protocol, SequenceTheorems, TLAPS

-----------------------------------------------------------------------------
(* Numbers *)

LEMMA Powers == Power(0) = 1 /\ Power(1) = 10 /\ Power(2) = 100 /\ Power(3) = 1000
BY DEF Power

\* A field is so many digits wide.
LEMMA FieldType ==
  ASSUME NEW n \in Nat, NEW w \in {2, 3, 4}
  PROVE  /\ Field(n, w) \in [1..w -> 0..9]
         /\ \A i \in 1..w : Field(n, w)[i] = (n \div Power(w - i)) % 10
<1>1. \A i \in 1..w : Power(w - i) \in {1, 10, 100, 1000}
  BY Powers
<1>2. \A i \in 1..w : (n \div Power(w - i)) % 10 \in 0..9
  BY <1>1
<1> QED BY <1>2 DEF Field

\* The number is written into a field that is wide enough.
Fits(n, w) == w \in {2, 3, 4} /\ n \in Numbers(w)

Sum2(s) == 10 * s[1] + s[2]
Sum3(s) == 100 * s[1] + 10 * s[2] + s[3]
Sum4(s) == 1000 * s[1] + 100 * s[2] + 10 * s[3] + s[4]

\* Its digits are those of the number.
LEMMA FieldSum2 ==
  ASSUME NEW n, Fits(n, 2)
  PROVE  Sum2(Field(n, 2)) = n
<1>0. n \in 0..99
  BY DEF Fits, Numbers
<1>1. Power(2 - 1) = 10 /\ Power(2 - 2) = 1
  BY Powers
<1>2. Field(n, 2)[1] = (n \div 10) % 10
  BY <1>1 DEF Field
<1>3. Field(n, 2)[2] = (n \div 1) % 10
  BY <1>1 DEF Field
<1>4. 10 * ((n \div 10) % 10) + ((n \div 1) % 10) = n
  BY <1>0
<1> QED BY <1>2, <1>3, <1>4 DEF Sum2

LEMMA FieldSum3 ==
  ASSUME NEW n, Fits(n, 3)
  PROVE  Sum3(Field(n, 3)) = n
<1>0. n \in 0..999
  BY DEF Fits, Numbers
<1>1. Power(3 - 1) = 100 /\ Power(3 - 2) = 10 /\ Power(3 - 3) = 1
  BY Powers
<1>2. Field(n, 3)[1] = (n \div 100) % 10
  BY <1>1 DEF Field
<1>3. Field(n, 3)[2] = (n \div 10) % 10
  BY <1>1 DEF Field
<1>4. Field(n, 3)[3] = (n \div 1) % 10
  BY <1>1 DEF Field
<1>5. 100 * ((n \div 100) % 10) + 10 * ((n \div 10) % 10) + ((n \div 1) % 10) = n
  BY <1>0
<1> QED BY <1>2, <1>3, <1>4, <1>5 DEF Sum3

LEMMA FieldSum4 ==
  ASSUME NEW n, Fits(n, 4)
  PROVE  Sum4(Field(n, 4)) = n
<1>0. n \in 0..9999
  BY DEF Fits, Numbers
<1>1. Power(4 - 1) = 1000 /\ Power(4 - 2) = 100 /\ Power(4 - 3) = 10 /\ Power(4 - 4) = 1
  BY Powers
<1>2. Field(n, 4)[1] = (n \div 1000) % 10
  BY <1>1 DEF Field
<1>3. Field(n, 4)[2] = (n \div 100) % 10
  BY <1>1 DEF Field
<1>4. Field(n, 4)[3] = (n \div 10) % 10
  BY <1>1 DEF Field
<1>5. Field(n, 4)[4] = (n \div 1) % 10
  BY <1>1 DEF Field
<1>6. 1000 * ((n \div 1000) % 10) + 100 * ((n \div 100) % 10) + 10 * ((n \div 10) % 10)
        + ((n \div 1) % 10) = n
  BY <1>0
<1> QED BY <1>2, <1>3, <1>4, <1>5, <1>6 DEF Sum4

\* The running value of atoi over a short array exists.
LEMMA AtoiSteps ==
  ASSUME NEW n \in 0..4, NEW s \in [1..n -> Characters], Len(s) = n
  PROVE  \E v \in [0..n -> Nat] :
           /\ v[0] = 0
           /\ \A i \in 1..n :
                v[i] = IF \A j \in 1..i : s[j] \in 0..9 THEN 10 * v[i - 1] + s[i] ELSE v[i - 1]
           /\ Atoi(s) = v[n]
<1> DEFINE D(i) == \A j \in 1..i : s[j] \in 0..9
           v1 == IF D(1) THEN s[1] ELSE 0
           v2 == IF D(2) THEN 10 * v1 + s[2] ELSE v1
           v3 == IF D(3) THEN 10 * v2 + s[3] ELSE v2
           v4 == IF D(4) THEN 10 * v3 + s[4] ELSE v3
           f == [i \in 0..n |-> IF i = 0 THEN 0 ELSE IF i = 1 THEN v1 ELSE IF i = 2 THEN v2
                                ELSE IF i = 3 THEN v3 ELSE v4]
           NextOf(g) == [i \in 0..n |->
                           IF i = 0 THEN 0 ELSE IF D(i) THEN 10 * g[i - 1] + s[i] ELSE g[i - 1]]
           value == CHOOSE g : g = NextOf(g)
<1>1. f = NextOf(f)
  <2>1. \A i \in 0..n :
          f[i] = IF i = 0 THEN 0 ELSE IF D(i) THEN 10 * f[i - 1] + s[i] ELSE f[i - 1]
    <3> TAKE i \in 0..n
    <3>1. CASE i = 0
      BY <3>1
    <3>2. CASE i = 1
      <4>1. f[1] = v1 /\ f[0] = 0
        BY <3>2
      <4>2. D(1) => s[1] \in 0..9
        OBVIOUS
      <4> HIDE DEF f, D
      <4> QED BY <4>1, <4>2, <3>2
    <3>3. CASE i = 2
      <4>1. f[2] = v2 /\ f[1] = v1
        BY <3>3
      <4> HIDE DEF f, v1, D
      <4> QED BY <4>1, <3>3
    <3>4. CASE i = 3
      <4>1. f[3] = v3 /\ f[2] = v2
        BY <3>4
      <4> HIDE DEF f, v2, D
      <4> QED BY <4>1, <3>4
    <3>5. CASE i = 4
      <4>1. f[4] = v4 /\ f[3] = v3
        BY <3>5
      <4> HIDE DEF f, v3, D
      <4> QED BY <4>1, <3>5
    <3> HIDE DEF f, D
    <3> QED BY <3>1, <3>2, <3>3, <3>4, <3>5
  <2> HIDE DEF D, v1, v2, v3, v4
  <2> QED BY <2>1
<1>2. value = NextOf(value)
  <2> HIDE DEF f, NextOf
  <2> QED BY <1>1
<1>3. Atoi(s) = value[n]
  BY DEF Atoi
<1> HIDE DEF value, f
<1>4. DOMAIN value = 0..n /\ value[0] = 0
      /\ \A i \in 1..n : value[i] = IF D(i) THEN 10 * value[i - 1] + s[i] ELSE value[i - 1]
  <2> HIDE DEF D
  <2>1. value = [i \in 0..n |-> NextOf(value)[i]]
    BY <1>2
  <2> QED BY <1>2
<1>5. value \in [0..n -> Nat]
  <2>1. \A i \in 1..n : D(i) => s[i] \in 0..9
    OBVIOUS
  <2> HIDE DEF D
  <2>2. value[0] \in Nat
    BY <1>4
  <2>3. \A i \in 1..n : value[i - 1] \in Nat => value[i] \in Nat
    BY <1>4, <2>1
  <2>4. \A i \in 0..n : value[i] \in Nat
    BY <2>2, <2>3
  <2>5. value = [i \in 0..n |-> value[i]]
    BY <1>2
  <2> QED BY <2>4, <2>5
<1> QED BY <1>3, <1>4, <1>5

LEMMA AtoiNat ==
  ASSUME NEW n \in 0..4, NEW s \in [1..n -> Characters], Len(s) = n
  PROVE  Atoi(s) \in Nat
<1> PICK v \in [0..n -> Nat] : Atoi(s) = v[n]
  BY AtoiSteps
<1> QED OBVIOUS

LEMMA Horner3 ==
  ASSUME NEW a \in 0..9, NEW b \in 0..9, NEW c \in 0..9, NEW v, v = 10 * a + b
  PROVE  10 * v + c = 100 * a + 10 * b + c
OBVIOUS

LEMMA Horner4 ==
  ASSUME NEW a \in 0..9, NEW b \in 0..9, NEW c \in 0..9, NEW d \in 0..9, NEW v,
         v = 100 * a + 10 * b + c
  PROVE  10 * v + d = 1000 * a + 100 * b + 10 * c + d
OBVIOUS

\* Read to the end, an array of digits is the sum of them; one that begins with
\* none is zero.
LEMMA AtoiDigits ==
  ASSUME NEW n \in 1..4, NEW s \in [1..n -> Characters], Len(s) = n
  PROVE  /\ s[1] \notin 0..9 => Atoi(s) = 0
         /\ n = 2 /\ s[1] \in 0..9 /\ s[2] \in 0..9 => Atoi(s) = Sum2(s)
         /\ n = 3 /\ s[1] \in 0..9 /\ s[2] \in 0..9 /\ s[3] \in 0..9 => Atoi(s) = Sum3(s)
         /\ n = 4 /\ s[1] \in 0..9 /\ s[2] \in 0..9 /\ s[3] \in 0..9 =>
              Atoi(s) = IF s[4] \in 0..9 THEN Sum4(s) ELSE Sum3(s)
<1> DEFINE D(i) == \A j \in 1..i : s[j] \in 0..9
<1>0. n \in 0..4
  OBVIOUS
<1> PICK v \in [0..n -> Nat] :
           /\ v[0] = 0
           /\ \A i \in 1..n : v[i] = IF D(i) THEN 10 * v[i - 1] + s[i] ELSE v[i - 1]
           /\ Atoi(s) = v[n]
  BY <1>0, AtoiSteps
<1>1. /\ D(1) <=> s[1] \in 0..9
      /\ D(2) <=> s[1] \in 0..9 /\ s[2] \in 0..9
      /\ D(3) <=> s[1] \in 0..9 /\ s[2] \in 0..9 /\ s[3] \in 0..9
      /\ D(4) <=> s[1] \in 0..9 /\ s[2] \in 0..9 /\ s[3] \in 0..9 /\ s[4] \in 0..9
  OBVIOUS
<1> HIDE DEF D
<1>2. v[1] = IF D(1) THEN 10 * v[0] + s[1] ELSE v[0]
  OBVIOUS
<1>3. 2 <= n => v[2] = IF D(2) THEN 10 * v[1] + s[2] ELSE v[1]
  OBVIOUS
<1>4. 3 <= n => v[3] = IF D(3) THEN 10 * v[2] + s[3] ELSE v[2]
  OBVIOUS
<1>5. 4 <= n => v[4] = IF D(4) THEN 10 * v[3] + s[4] ELSE v[3]
  OBVIOUS
<1>6. Atoi(s) = v[n] /\ v[0] = 0
  OBVIOUS
<1>7. ASSUME s[1] \notin 0..9 PROVE v[n] = 0
  BY <1>7, <1>1, <1>2, <1>3, <1>4, <1>5, <1>6
<1>8. ASSUME s[1] \in 0..9, s[2] \in 0..9, 2 <= n
      PROVE  v[2] = 10 * s[1] + s[2]
  <2>1. v[1] = s[1] /\ v[2] = 10 * v[1] + s[2]
    BY <1>8, <1>1, <1>2, <1>3, <1>6
  <2> QED BY <2>1
<1>9. ASSUME s[1] \in 0..9, s[2] \in 0..9, s[3] \in 0..9, 3 <= n
      PROVE  v[3] = 100 * s[1] + 10 * s[2] + s[3]
  <2>1. v[2] = 10 * s[1] + s[2]
    BY <1>8, <1>9
  <2>2. v[3] = 10 * v[2] + s[3]
    BY <1>9, <1>1, <1>4
  <2>3. 10 * v[2] + s[3] = 100 * s[1] + 10 * s[2] + s[3]
    <3> DEFINE a == s[1] b == s[2] c == s[3] v2 == v[2]
    <3>1. a \in 0..9 /\ b \in 0..9 /\ c \in 0..9 /\ v2 = 10 * a + b
      BY <1>9, <2>1
    <3> HIDE DEF a, b, c, v2
    <3>2. 10 * v2 + c = 100 * a + 10 * b + c
      BY <3>1, Horner3
    <3> QED BY <3>2 DEF a, b, c, v2
  <2> QED BY <2>2, <2>3, Zenon
<1>10. ASSUME s[1] \in 0..9, s[2] \in 0..9, s[3] \in 0..9, n = 4
       PROVE  v[4] = IF s[4] \in 0..9 THEN 1000 * s[1] + 100 * s[2] + 10 * s[3] + s[4]
                                      ELSE 100 * s[1] + 10 * s[2] + s[3]
  <2>1. v[3] = 100 * s[1] + 10 * s[2] + s[3]
    BY <1>9, <1>10
  <2>2. CASE s[4] \in 0..9
    <3>1. v[4] = 10 * v[3] + s[4]
      BY <1>10, <2>2, <1>1, <1>5
    <3>2. v[4] = 1000 * s[1] + 100 * s[2] + 10 * s[3] + s[4]
      <4>1. 10 * v[3] + s[4] = 1000 * s[1] + 100 * s[2] + 10 * s[3] + s[4]
        <5> DEFINE a == s[1] b == s[2] c == s[3] d == s[4] v3 == v[3]
        <5>1. a \in 0..9 /\ b \in 0..9 /\ c \in 0..9 /\ d \in 0..9 /\ v3 = 100 * a + 10 * b + c
          BY <1>10, <2>1, <2>2
        <5> HIDE DEF a, b, c, d, v3
        <5>2. 10 * v3 + d = 1000 * a + 100 * b + 10 * c + d
          BY <5>1, Horner4
        <5> QED BY <5>2 DEF a, b, c, d, v3
      <4> QED BY <3>1, <4>1, Zenon
    <3> QED BY <2>2, <3>2
  <2>3. CASE s[4] \notin 0..9
    <3>1. v[4] = v[3]
      BY <1>10, <2>3, <1>1, <1>5
    <3> QED BY <2>1, <2>3, <3>1
  <2> QED BY <2>2, <2>3
<1>11. ASSUME s[1] \in 0..9, s[2] \in 0..9, s[3] \in 0..9, n = 4
       PROVE  v[4] = IF s[4] \in 0..9 THEN Sum4(s) ELSE Sum3(s)
  BY <1>10, <1>11 DEF Sum3, Sum4
<1>12. ASSUME s[1] \in 0..9, s[2] \in 0..9, s[3] \in 0..9, n = 3
       PROVE  v[3] = Sum3(s)
  BY <1>9, <1>12 DEF Sum3
<1>13. ASSUME s[1] \in 0..9, s[2] \in 0..9, n = 2
       PROVE  v[2] = Sum2(s)
  BY <1>8, <1>13 DEF Sum2
<1> QED BY <1>6, <1>7, <1>11, <1>12, <1>13

LEMMA FieldString ==
  ASSUME NEW n, NEW w, Fits(n, w)
  PROVE  /\ w \in {2, 3, 4} /\ n \in Nat
         /\ Field(n, w) \in [1..w -> 0..9] /\ Field(n, w) \in [1..w -> Characters]
         /\ Field(n, w) \in Strings /\ Field(n, w) \in Seq(Characters) /\ Len(Field(n, w)) = w
<1>1. w \in {2, 3, 4} /\ n \in Nat
  <2>1. w \in {2, 3, 4} /\ n \in Numbers(w)
    BY DEF Fits
  <2>2. Numbers(2) \subseteq Nat /\ Numbers(3) \subseteq Nat /\ Numbers(4) \subseteq Nat
    BY DEF Numbers
  <2> QED BY <2>1, <2>2
<1>2. Field(n, w) \in [1..w -> 0..9]
  BY <1>1, FieldType
<1>3. 0..9 \subseteq Characters \ {NUL}
  BY DEF Characters, NUL
<1>4. Field(n, w) \in [1..w -> Characters \ {NUL}]
  BY <1>2, <1>3
<1>5. w \in Nat
  BY <1>1
<1>6. Field(n, w) \in Strings
  BY <1>4, <1>5 DEF Strings
<1>7. Len(Field(n, w)) = w
  BY <1>5 DEF Field
<1>8. Field(n, w) \in [1..w -> Characters]
  BY <1>4
<1>9. Field(n, w) \in Seq(Characters)
  BY <1>5, <1>8
<1> QED BY <1>1, <1>2, <1>6, <1>7, <1>8, <1>9

\* atoi returns what sprintf wrote.
LEMMA AtoiOfField ==
  ASSUME NEW n, NEW w, Fits(n, w)
  PROVE  Atoi(Field(n, w)) = n
<1> DEFINE s == Field(n, w)
<1>1. s \in [1..w -> Characters] /\ s \in [1..w -> 0..9] /\ Len(s) = w /\ w \in 1..4
  BY FieldString
<1>2. CASE w = 2
  <2>1. Sum2(s) = n
    BY <1>2, FieldSum2
  <2>2. s[1] \in 0..9 /\ s[2] \in 0..9
    BY <1>1, <1>2
  <2> HIDE DEF s
  <2>3. Atoi(s) = Sum2(s)
    BY <1>1, <1>2, <2>2, AtoiDigits
  <2>4. Atoi(s) = n
    BY <2>1, <2>3
  <2> QED BY <2>4 DEF s
<1>3. CASE w = 3
  <2>1. Sum3(s) = n
    BY <1>3, FieldSum3
  <2>2. s[1] \in 0..9 /\ s[2] \in 0..9 /\ s[3] \in 0..9
    BY <1>1, <1>3
  <2> HIDE DEF s
  <2>3. Atoi(s) = Sum3(s)
    BY <1>1, <1>3, <2>2, AtoiDigits
  <2>4. Atoi(s) = n
    BY <2>1, <2>3
  <2> QED BY <2>4 DEF s
<1>4. CASE w = 4
  <2>1. Sum4(s) = n
    BY <1>4, FieldSum4
  <2>2. s[1] \in 0..9 /\ s[2] \in 0..9 /\ s[3] \in 0..9 /\ s[4] \in 0..9
    BY <1>1, <1>4
  <2> HIDE DEF s
  <2>3. Atoi(s) = Sum4(s)
    BY <1>1, <1>4, <2>2, AtoiDigits
  <2>4. Atoi(s) = n
    BY <2>1, <2>3
  <2> QED BY <2>4 DEF s
<1>5. w \in {2, 3, 4}
  BY FieldString
<1> HIDE DEF s
<1> QED BY <1>2, <1>3, <1>4, <1>5

LEMMA Appending ==
  ASSUME NEW S, NEW s \in Seq(S), NEW c \in S
  PROVE  /\ Append(s, c) \in Seq(S) /\ Len(Append(s, c)) = Len(s) + 1
         /\ Append(s, c)[Len(s) + 1] = c
         /\ \A i \in 1..Len(s) : Append(s, c)[i] = s[i]
OBVIOUS

\* A digit behind three makes the number another one.
LEMMA AtoiBehind ==
  ASSUME NEW n, Fits(n, 3), NEW c \in Characters
  PROVE  /\ Append(Field(n, 3), c) \in [1..4 -> Characters] /\ Len(Append(Field(n, 3), c)) = 4
         /\ Atoi(Append(Field(n, 3), c)) = IF c \in 0..9 THEN 10 * n + c ELSE n
<1> DEFINE f == Field(n, 3) s == Append(f, c)
<1>1. f \in [1..3 -> 0..9] /\ f \in Seq(Characters) /\ Len(f) = 3
  BY FieldString, Zenon
<1>2. Sum3(f) = n
  BY FieldSum3
<1> HIDE DEF f
<1>3. s \in [1..4 -> Characters] /\ Len(s) = 4 /\ s[4] = c
  <2>1. s \in Seq(Characters) /\ Len(s) = Len(f) + 1
    BY <1>1, Appending
  <2>2. s[Len(f) + 1] = c
    BY <1>1, Appending
  <2> HIDE DEF s
  <2>3. Len(s) = 4
    BY <1>1, <2>1
  <2>4. s \in [1..Len(s) -> Characters]
    BY <2>1, LenProperties, Zenon
  <2>5. s[4] = c
    BY <1>1, <2>2
  <2> QED BY <2>3, <2>4, <2>5
<1>4. s[1] = f[1] /\ s[2] = f[2] /\ s[3] = f[3]
  BY <1>1
<1>5. f[1] \in 0..9 /\ f[2] \in 0..9 /\ f[3] \in 0..9
  BY <1>1
<1> HIDE DEF s
<1>6. Atoi(s) = IF s[4] \in 0..9 THEN Sum4(s) ELSE Sum3(s)
  <2>1. s[1] \in 0..9 /\ s[2] \in 0..9 /\ s[3] \in 0..9 /\ 4 \in 1..4
    BY <1>4, <1>5
  <2> QED BY <1>3, <2>1, AtoiDigits
<1>7. Sum3(s) = Sum3(f)
  BY <1>4 DEF Sum3
<1>8. ASSUME c \in 0..9
      PROVE  Sum4(s) = 10 * Sum3(f) + c
  <2>1. 1000 * f[1] + 100 * f[2] + 10 * f[3] + c = 10 * (100 * f[1] + 10 * f[2] + f[3]) + c
    BY <1>5, <1>8
  <2> QED BY <1>3, <1>4, <2>1 DEF Sum3, Sum4
<1>9. Atoi(s) = IF c \in 0..9 THEN 10 * n + c ELSE n
  BY <1>2, <1>3, <1>6, <1>7, <1>8
<1> QED BY <1>3, <1>9 DEF s, f

-----------------------------------------------------------------------------
(* Reading a field where it was written *)

\* s is found behind the offset.
Has(m, at, s) ==
  /\ at + Len(s) <= Len(m)
  /\ \A j \in 1..Len(s) : m[at + j] = s[j]

LEMMA CopyType ==
  ASSUME NEW m \in Strings, NEW at \in Nat, NEW w \in {2, 3, 4}
  PROVE  Copy(m, at, w) \in [1..w -> Characters] /\ Len(Copy(m, at, w)) = w
         /\ Copy(m, at, w) \in Seq(Characters)
<1>1. \A i \in 1..w : At(m, at + i - 1) \in Characters
  <2> TAKE i \in 1..w
  <2>1. CASE at + i - 1 < Len(m)
    <3>1. m[at + i - 1 + 1] \in Characters \ {NUL}
      BY <2>1 DEF Strings
    <3> QED BY <2>1, <3>1 DEF At
  <2>2. CASE ~(at + i - 1 < Len(m))
    BY <2>2 DEF At, Characters, NUL
  <2> QED BY <2>1, <2>2
<1>2. w \in Nat
  OBVIOUS
<1>3. Copy(m, at, w) \in [1..w -> Characters]
  BY <1>1 DEF Copy
<1>4. Len(Copy(m, at, w)) = w
  BY <1>2 DEF Copy
<1>5. Copy(m, at, w) \in Seq(Characters)
  BY <1>2, <1>3
<1> QED BY <1>3, <1>4, <1>5

LEMMA NumberNat ==
  ASSUME NEW m \in Strings, NEW at \in Nat, NEW w \in {2, 3, 4}
  PROVE  Number(m, at, w) \in Nat
<1> DEFINE s == Copy(m, at, w)
<1>1. s \in [1..w -> Characters] /\ Len(s) = w
  BY CopyType
<1>2. w \in 0..4
  OBVIOUS
<1> HIDE DEF s
<1>3. Atoi(s) \in Nat
  BY <1>1, <1>2, AtoiNat
<1> QED BY <1>3 DEF s, Number

LEMMA LooseNat ==
  ASSUME NEW m \in Strings, NEW at \in Nat, NEW c \in Characters
  PROVE  Loose(m, at, 3, c) \in Nat
<1> DEFINE f == Copy(m, at, 3) s == Append(f, c)
<1>1. f \in Seq(Characters) /\ Len(f) = 3
  BY CopyType
<1> HIDE DEF f
<1>2. s \in Seq(Characters) /\ Len(s) = Len(f) + 1
  BY <1>1, Appending
<1> HIDE DEF s
<1>3. Len(s) = 4
  BY <1>1, <1>2
<1>4. s \in [1..Len(s) -> Characters]
  BY <1>2, LenProperties, Zenon
<1>5. Atoi(s) \in Nat
  <2>1. 4 \in 0..4 /\ s \in [1..4 -> Characters]
    BY <1>3, <1>4
  <2> QED BY <1>3, <2>1, AtoiNat
<1> QED BY <1>5 DEF s, f, Loose

\* A copy of a field is the field.
LEMMA CopyOfField ==
  ASSUME NEW m \in Strings, NEW at \in Nat, NEW n, NEW w, Fits(n, w), Has(m, at, Field(n, w))
  PROVE  Copy(m, at, w) = Field(n, w)
<1> DEFINE f == Field(n, w)
<1>1. w \in {2, 3, 4} /\ f \in [1..w -> 0..9] /\ Len(f) = w
  BY FieldString
<1>2. Has(m, at, f)
  OBVIOUS
<1> HIDE DEF f
<1>3. \A i \in 1..w : At(m, at + i - 1) = f[i]
  <2> TAKE i \in 1..w
  <2>1. at + i - 1 < Len(m) /\ m[at + i] = f[i]
    BY <1>1, <1>2 DEF Has, Strings
  <2>2. at + i - 1 + 1 = at + i
    BY <1>1
  <2> QED BY <2>1, <2>2 DEF At
<1>4. Copy(m, at, w) = f
  BY <1>1, <1>3 DEF Copy
<1> QED BY <1>4 DEF f

\* A number is read as it was written.
LEMMA NumberReads ==
  ASSUME NEW m \in Strings, NEW at \in Nat, NEW n, NEW w, Fits(n, w), Has(m, at, Field(n, w))
  PROVE  Number(m, at, w) = n
BY CopyOfField, AtoiOfField DEF Number

\* Without an end it is, but for a digit behind it.
LEMMA LooseReads ==
  ASSUME NEW m \in Strings, NEW at \in Nat, NEW n, Fits(n, 3), Has(m, at, Field(n, 3)),
         NEW c \in Stack
  PROVE  /\ Loose(m, at, 3, c) = IF c \in 0..9 THEN 10 * n + c ELSE n
         /\ Loose(m, at, 3, c) \in ReadAs(n)
<1>1. c \in Characters
  BY StackAssumption
<1>2. Loose(m, at, 3, c) = IF c \in 0..9 THEN 10 * n + c ELSE n
  BY <1>1, CopyOfField, AtoiBehind DEF Loose
<1> QED BY <1>2 DEF ReadAs

\* Behind the end of a message there is the number zero.
LEMMA NumberEnd ==
  ASSUME NEW m \in Strings, NEW at \in Nat, at >= Len(m)
  PROVE  Number(m, at, 3) = 0
<1> DEFINE s == Copy(m, at, 3)
<1>1. s \in [1..3 -> Characters] /\ Len(s) = 3
  BY CopyType
<1>2. s[1] = NUL
  BY DEF Copy, At, Strings
<1>3. s[1] \notin 0..9
  BY <1>2 DEF NUL
<1> HIDE DEF s
<1>4. Atoi(s) = 0
  <2>1. 3 \in 1..4
    OBVIOUS
  <2> QED BY <1>1, <1>3, <2>1, AtoiDigits
<1> QED BY <1>4 DEF s, Number

LEMMA Concat ==
  ASSUME NEW s \in Strings, NEW t \in Strings
  PROVE  /\ s \o t \in Strings /\ Len(s \o t) = Len(s) + Len(t)
         /\ Len(s) \in Nat /\ Len(t) \in Nat
         /\ \A i \in 1..Len(s) : (s \o t)[i] = s[i]
         /\ \A i \in 1..Len(t) : (s \o t)[Len(s) + i] = t[i]
BY DEF Strings

LEMMA HasLeft ==
  ASSUME NEW s \in Strings, NEW t \in Strings, NEW x \in Strings, NEW at \in Nat, Has(s, at, x)
  PROVE  Has(s \o t, at, x)
<1> DEFINE m == s \o t
<1>1. /\ Len(m) = Len(s) + Len(t) /\ Len(s) \in Nat /\ Len(t) \in Nat
      /\ \A i \in 1..Len(s) : m[i] = s[i]
  BY Concat
<1>2. Len(x) \in Nat
  BY DEF Strings
<1> HIDE DEF m
<1>3. at + Len(x) <= Len(s) /\ \A j \in 1..Len(x) : s[at + j] = x[j]
  BY DEF Has
<1>4. at + Len(x) <= Len(m)
  BY <1>1, <1>2, <1>3
<1>5. \A j \in 1..Len(x) : m[at + j] = x[j]
  <2>1. \A j \in 1..Len(x) : at + j \in 1..Len(s)
    BY <1>1, <1>2, <1>3
  <2>2. \A j \in 1..Len(x) : m[at + j] = s[at + j]
    BY <1>1, <2>1
  <2> QED BY <1>3, <2>2
<1>6. Has(m, at, x)
  BY <1>4, <1>5 DEF Has
<1> QED BY <1>6 DEF m

LEMMA HasRight ==
  ASSUME NEW s \in Strings, NEW t \in Strings
  PROVE  Has(s \o t, Len(s), t)
BY Concat DEF Has

LEMMA HasSelf ==
  ASSUME NEW s \in Strings
  PROVE  Has(s, 0, s)
BY DEF Has, Strings

LEMMA HasPart ==
  ASSUME NEW m \in Strings, NEW x \in Strings, NEW y \in Strings, NEW at \in Nat, NEW k \in Nat,
         Has(m, at, x), Has(x, k, y)
  PROVE  Has(m, at + k, y)
<1>1. Len(x) \in Nat /\ Len(y) \in Nat /\ Len(m) \in Nat
  BY DEF Strings
<1>2. /\ at + Len(x) <= Len(m) /\ \A j \in 1..Len(x) : m[at + j] = x[j]
      /\ k + Len(y) <= Len(x) /\ \A j \in 1..Len(y) : x[k + j] = y[j]
  BY DEF Has
<1>3. \A j \in 1..Len(y) : k + j \in 1..Len(x) /\ at + (k + j) = (at + k) + j
  BY <1>1, <1>2
<1>4. \A j \in 1..Len(y) : m[(at + k) + j] = y[j]
  BY <1>2, <1>3
<1>5. (at + k) + Len(y) <= Len(m)
  BY <1>1, <1>2
<1> QED BY <1>4, <1>5 DEF Has

\* What is behind the offset, to the end of the message, is what was put there.
LEMMA FromReads ==
  ASSUME NEW m \in Strings, NEW at \in Nat, NEW t \in Strings, Has(m, at, t), Len(m) = at + Len(t)
  PROVE  From(m, at) = t
<1>1. Len(t) \in Nat /\ Len(m) \in Nat
  BY DEF Strings
<1>2. \A i \in at + 1..Len(m) : m[i] \in Characters \ {NUL}
  BY <1>1 DEF Strings
<1> DEFINE f == SubSeq(m, at + 1, Len(m))
<1>3. /\ f \in Strings
      /\ Len(f) = IF at + 1 <= Len(m) THEN Len(m) - (at + 1) + 1 ELSE 0
      /\ \A i \in 1..Len(m) - (at + 1) + 1 : f[i] = m[at + 1 + i - 1]
  <2>1. at + 1 \in Int /\ Len(m) \in Int
    BY <1>1
  <2> QED BY <1>2, <2>1, SubSeqProperties DEF Strings
<1> HIDE DEF f
<1>4. Len(f) = Len(t)
  BY <1>1, <1>3
<1>5. \A i \in 1..Len(t) : f[i] = t[i]
  BY <1>1, <1>3 DEF Has
<1>6. f = t
  BY <1>3, <1>4, <1>5 DEF Strings
<1> QED BY <1>6 DEF f, From

LEMMA FromString ==
  ASSUME NEW m \in Strings, NEW a \in Nat, NEW b \in Nat, b <= Len(m)
  PROVE  SubSeq(m, a + 1, b) \in Strings
<1>1. Len(m) \in Nat
  BY DEF Strings
<1>2. \A i \in a + 1..b : m[i] \in Characters \ {NUL}
  BY <1>1 DEF Strings
<1>3. a + 1 \in Int /\ b \in Int
  OBVIOUS
<1> QED BY <1>2, <1>3, SubSeqProperties DEF Strings

\* Nothing changes for a reader who leaves out what is in front of a text.
LEMMA FromShifts ==
  ASSUME NEW m \in Strings, NEW a \in Nat, NEW j \in Nat
  PROVE  LET t == From(m, a)
         IN /\ t \in Strings /\ Number(m, a + j, 3) = Number(t, j, 3) /\ From(m, a + j) = From(t, j)
            /\ Len(t) = IF a <= Len(m) THEN Len(m) - a ELSE 0
<1> DEFINE t == From(m, a)
<1>1. Len(m) \in Nat
  BY DEF Strings
<1>2. \A i \in a + 1..Len(m) : m[i] \in Characters \ {NUL}
  BY <1>1 DEF Strings
<1>3. /\ t \in Strings
      /\ Len(t) = IF a + 1 <= Len(m) THEN Len(m) - (a + 1) + 1 ELSE 0
      /\ \A i \in 1..Len(m) - (a + 1) + 1 : t[i] = m[a + 1 + i - 1]
  <2>1. a + 1 \in Int /\ Len(m) \in Int
    BY <1>1
  <2> QED BY <1>2, <2>1, SubSeqProperties DEF Strings, From
<1> HIDE DEF t
<1>4. Len(t) = (IF a <= Len(m) THEN Len(m) - a ELSE 0) /\ Len(t) \in Nat
  BY <1>1, <1>3
<1>5. \A i \in 1..Len(t) : t[i] = m[a + i]
  BY <1>1, <1>3
<1>6. ASSUME NEW k \in Nat
      PROVE  At(m, a + k) = At(t, k)
  <2>1. CASE k < Len(t)
    <3>1. k + 1 \in 1..Len(t) /\ a + k < Len(m) /\ a + (k + 1) = (a + k) + 1
      BY <1>1, <1>4, <2>1
    <3> QED BY <1>5, <2>1, <3>1 DEF At
  <2>2. CASE ~(k < Len(t))
    <3>1. ~(a + k < Len(m))
      BY <1>1, <1>4, <2>2
    <3> QED BY <2>2, <3>1 DEF At
  <2> QED BY <2>1, <2>2
<1>7. Number(m, a + j, 3) = Number(t, j, 3)
  <2>1. \A i \in 1..3 : At(m, (a + j) + i - 1) = At(t, j + i - 1)
    <3> TAKE i \in 1..3
    <3>1. j + i - 1 \in Nat /\ (a + j) + i - 1 = a + (j + i - 1)
      OBVIOUS
    <3> QED BY <1>6, <3>1
  <2>2. Copy(m, a + j, 3) = Copy(t, j, 3)
    BY <2>1 DEF Copy
  <2> QED BY <2>2 DEF Number
<1>8. From(m, a + j) = From(t, j)
  <2> DEFINE f == From(m, a + j) g == From(t, j)
  <2>1. /\ f \in Strings
        /\ Len(f) = IF a + j + 1 <= Len(m) THEN Len(m) - (a + j + 1) + 1 ELSE 0
        /\ \A i \in 1..Len(m) - (a + j + 1) + 1 : f[i] = m[a + j + 1 + i - 1]
    <3>1. a + j + 1 \in Int /\ Len(m) \in Int
      BY <1>1
    <3>2. \A i \in a + j + 1..Len(m) : m[i] \in Characters \ {NUL}
      BY <1>1, <1>2
    <3> QED BY <3>1, <3>2, SubSeqProperties DEF Strings, From
  <2>2. /\ g \in Strings
        /\ Len(g) = IF j + 1 <= Len(t) THEN Len(t) - (j + 1) + 1 ELSE 0
        /\ \A i \in 1..Len(t) - (j + 1) + 1 : g[i] = t[j + 1 + i - 1]
    <3>1. j + 1 \in Int /\ Len(t) \in Int
      BY <1>4
    <3>2. \A i \in j + 1..Len(t) : t[i] \in Characters \ {NUL}
      BY <1>3, <1>4 DEF Strings
    <3> QED BY <3>1, <3>2, SubSeqProperties DEF Strings, From
  <2> HIDE DEF f, g
  <2>3. Len(f) = Len(g)
    BY <1>1, <1>4, <2>1, <2>2
  <2>4. ASSUME NEW i \in 1..Len(f)
        PROVE  f[i] = g[i]
    <3>1. f[i] = m[a + j + 1 + i - 1]
      BY <1>1, <2>1
    <3>2. g[i] = t[j + 1 + i - 1]
      BY <1>4, <2>2, <2>3
    <3>3. j + 1 + i - 1 \in 1..Len(t) /\ a + (j + 1 + i - 1) = a + j + 1 + i - 1
      BY <1>4, <2>2, <2>3
    <3>4. t[j + 1 + i - 1] = m[a + (j + 1 + i - 1)]
      BY <1>5, <3>3
    <3> QED BY <3>1, <3>2, <3>3, <3>4
  <2>5. f = g
    BY <2>1, <2>2, <2>3, <2>4 DEF Strings
  <2> QED BY <2>5 DEF f, g
<1> QED BY <1>3, <1>4, <1>7, <1>8 DEF t

\* The header most messages have.
Headed(m, cmd, type, u) == Has(m, 0, Field(cmd, 2)) /\ Has(m, 2, Field(type, 2)) /\ Has(m, 4, Field(u, 3))

LEMMA HeaderReads ==
  ASSUME NEW m \in Strings, NEW cmd, NEW type, NEW u, Fits(cmd, 2), Fits(type, 2), Fits(u, 3),
         Headed(m, cmd, type, u)
  PROVE  /\ get_type(m) = cmd /\ get_text_type(m) = type
         /\ \A c \in Stack : get_user(m, c) \in ReadAs(u)
<1>1. 0 \in Nat /\ 2 \in Nat /\ 4 \in Nat
  OBVIOUS
<1>2. Number(m, 0, 2) = cmd
  BY <1>1, NumberReads DEF Headed
<1>3. Number(m, 2, 2) = type
  BY <1>1, NumberReads DEF Headed
<1>4. \A c \in Stack : Loose(m, 4, 3, c) \in ReadAs(u)
  BY <1>1, LooseReads DEF Headed
<1> QED BY <1>2, <1>3, <1>4 DEF get_type, get_text_type, get_user

LEMMA HeaderHas ==
  ASSUME NEW cmd, NEW type, NEW u, Fits(cmd, 2), Fits(type, 2), Fits(u, 3)
  PROVE  LET m == Command(cmd, type) \o Field(u, 3)
         IN m \in Strings /\ Len(m) = 7 /\ Headed(m, cmd, type, u)
<1> DEFINE a == Field(cmd, 2) b == Field(type, 2) d == Field(u, 3) e == a \o b m == e \o d
<1>1. a \in Strings /\ b \in Strings /\ d \in Strings /\ Len(a) = 2 /\ Len(b) = 2 /\ Len(d) = 3
  BY FieldString
<1> HIDE DEF a, b, d
<1>2. e \in Strings /\ Len(e) = Len(a) + Len(b) /\ Has(e, Len(a), b) /\ Has(e, 0, a)
  BY <1>1, Concat, HasRight, HasSelf, HasLeft
<1>3. Len(e) = 4 /\ Has(e, 2, b)
  BY <1>1, <1>2
<1> HIDE DEF e
<1>4. m \in Strings /\ Len(m) = Len(e) + Len(d) /\ Has(m, Len(e), d)
  BY <1>1, <1>2, Concat, HasRight
<1>5. Has(m, 0, a) /\ Has(m, 2, b)
  BY <1>1, <1>2, <1>3, HasLeft
<1>6. Len(m) = 7 /\ Has(m, 4, d)
  BY <1>1, <1>3, <1>4
<1> QED BY <1>4, <1>5, <1>6 DEF Headed, Command, a, b, d, e

\* A message with something behind its header.
LEMMA MessageHas ==
  ASSUME NEW cmd, NEW type, NEW u, Fits(cmd, 2), Fits(type, 2), Fits(u, 3), NEW t \in Strings
  PROVE  LET m == Command(cmd, type) \o Field(u, 3) \o t
         IN /\ m \in Strings /\ Len(m) = 7 + Len(t) /\ Headed(m, cmd, type, u)
            /\ Has(m, 7, t) /\ From(m, 7) = t
<1> DEFINE h == Command(cmd, type) \o Field(u, 3) m == h \o t
<1>1. h \in Strings /\ Len(h) = 7 /\ Headed(h, cmd, type, u)
  BY HeaderHas
<1>2. Field(cmd, 2) \in Strings /\ Field(type, 2) \in Strings /\ Field(u, 3) \in Strings
  BY FieldString
<1> HIDE DEF h
<1>3. m \in Strings /\ Len(m) = Len(h) + Len(t) /\ Has(m, Len(h), t)
  BY <1>1, Concat, HasRight
<1>4. Headed(m, cmd, type, u)
  BY <1>1, <1>2, HasLeft DEF Headed
<1>5. Len(m) = 7 + Len(t) /\ Has(m, 7, t)
  BY <1>1, <1>3
<1> HIDE DEF m
<1>6. From(m, 7) = t
  BY <1>3, <1>5, FromReads
<1> QED BY <1>3, <1>4, <1>5, <1>6 DEF m, h

-----------------------------------------------------------------------------
(* Reading the messages *)

LEMMA SlotFits ==
  ASSUME NEW u \in Slots
  PROVE  Fits(u, 3) /\ u \in Nat
<1>1. N \in 1..999
  BY SlotAssumption DEF Numbers
<1> QED BY <1>1 DEF Slots, Fits, Numbers

LEMMA Small ==
  ASSUME NEW n \in 0..9
  PROVE  Fits(n, 2)
BY DEF Fits, Numbers

\* A line or a status: the text begins where it was put, digits and all.
LEMMA TextReads ==
  ASSUME NEW type \in {TEXT_MAIN_CHAT, TEXT_STATUS}, NEW u, Fits(u, 3), NEW t \in Strings
  PROVE  LET m == create_text_message(type, u, t)
         IN /\ m \in Strings /\ get_type(m) = CMD_TEXT /\ get_text_type(m) = type /\ get_text(m) = t
            /\ \A c \in Stack : get_user(m, c) \in ReadAs(u)
<1> DEFINE m == Command(CMD_TEXT, type) \o Field(u, 3) \o t
<1>1. Fits(CMD_TEXT, 2) /\ Fits(type, 2) /\ type # TEXT_IM
  BY Small DEF CMD_TEXT, TEXT_MAIN_CHAT, TEXT_STATUS, TEXT_IM
<1>2. m \in Strings /\ Headed(m, CMD_TEXT, type, u) /\ From(m, 7) = t
  BY <1>1, MessageHas
<1> HIDE DEF m
<1>3. /\ get_type(m) = CMD_TEXT /\ get_text_type(m) = type
      /\ \A c \in Stack : get_user(m, c) \in ReadAs(u)
  BY <1>1, <1>2, HeaderReads
<1>4. get_text(m) = t
  BY <1>1, <1>2, <1>3 DEF get_text
<1> QED BY <1>2, <1>3, <1>4 DEF m, create_text_message

\* An instant message: without a receiver, what stands for him is the writer, and
\* its text is read three characters on.
LEMMA ImReads ==
  ASSUME NEW u, Fits(u, 3), NEW to, NEW t \in Strings
  PROVE  LET m == create_im_message(u, to, t)
         IN /\ m \in Strings /\ get_type(m) = CMD_TEXT /\ get_text_type(m) = TEXT_IM
            /\ \A c \in Stack : get_user(m, c) \in ReadAs(u)
            /\ get_from_user(m) = Number(t, 0, 3) /\ get_text(m) = From(t, 3)
            /\ Len(m) = 7 + Len(t)
<1> DEFINE m == Command(CMD_TEXT, TEXT_IM) \o Field(u, 3) \o t
<1>1. Fits(CMD_TEXT, 2) /\ Fits(TEXT_IM, 2)
  BY Small DEF CMD_TEXT, TEXT_IM
<1>2. m \in Strings /\ Headed(m, CMD_TEXT, TEXT_IM, u) /\ From(m, 7) = t /\ Len(m) = 7 + Len(t)
  BY <1>1, MessageHas
<1> HIDE DEF m
<1>3. get_type(m) = CMD_TEXT /\ get_text_type(m) = TEXT_IM
      /\ \A c \in Stack : get_user(m, c) \in ReadAs(u)
  BY <1>1, <1>2, HeaderReads
<1>4. 7 \in Nat /\ 0 \in Nat /\ 3 \in Nat /\ 7 + 0 = 7 /\ 7 + 3 = 10
  OBVIOUS
<1>5. Number(m, 7, 3) = Number(t, 0, 3)
  <2>1. Number(m, 7 + 0, 3) = Number(From(m, 7), 0, 3)
    BY <1>2, <1>4, FromShifts
  <2> QED BY <1>2, <1>4, <2>1
<1>6. From(m, 10) = From(t, 3)
  <2>1. From(m, 7 + 3) = From(From(m, 7), 3)
    BY <1>2, <1>4, FromShifts
  <2> QED BY <1>2, <1>4, <2>1
<1>7. get_from_user(m) = Number(t, 0, 3) /\ get_text(m) = From(t, 3)
  BY <1>3, <1>5, <1>6 DEF get_from_user, get_text
<1> QED BY <1>2, <1>3, <1>7 DEF m, create_im_message

LEMMA YellReads ==
  ASSUME NEW u, Fits(u, 3), NEW t \in Strings
  PROVE  LET m == create_yell_message(u, t)
         IN m \in Strings /\ get_type(m) = CMD_ERROR
<1> DEFINE m == Command(CMD_ERROR, TEXT_YELL) \o Field(u, 3) \o t
<1>1. Fits(CMD_ERROR, 2) /\ Fits(TEXT_YELL, 2)
  BY Small DEF CMD_ERROR, TEXT_YELL
<1>2. m \in Strings /\ Headed(m, CMD_ERROR, TEXT_YELL, u)
  BY <1>1, MessageHas
<1> HIDE DEF m
<1>3. get_type(m) = CMD_ERROR
  BY <1>1, <1>2, HeaderReads
<1> QED BY <1>2, <1>3 DEF m, create_yell_message

\* Of a vote the voter and the candidate.
LEMMA VoteReads ==
  ASSUME NEW type \in 0..9, NEW u, Fits(u, 3), NEW v, Fits(v, 3)
  PROVE  LET m == VoteMessage(type, u, v)
         IN /\ m \in Strings /\ get_type(m) = CMD_VOTE /\ Number(m, 7, 3) = v
            /\ \A c \in Stack : get_user(m, c) \in ReadAs(u)
<1> DEFINE m == Command(CMD_VOTE, type) \o Field(u, 3) \o Field(v, 3)
<1>1. Fits(CMD_VOTE, 2) /\ Fits(type, 2) /\ Field(v, 3) \in Strings
  BY Small, FieldString DEF CMD_VOTE
<1>2. m \in Strings /\ Headed(m, CMD_VOTE, type, u) /\ Has(m, 7, Field(v, 3))
  BY <1>1, MessageHas
<1> HIDE DEF m
<1>3. get_type(m) = CMD_VOTE /\ \A c \in Stack : get_user(m, c) \in ReadAs(u)
  BY <1>1, <1>2, HeaderReads
<1>4. 7 \in Nat
  OBVIOUS
<1>5. Number(m, 7, 3) = v
  BY <1>2, <1>4, NumberReads
<1> QED BY <1>2, <1>3, <1>5 DEF m, VoteMessage

LEMMA RequestListReads ==
  ASSUME NEW u, Fits(u, 3)
  PROVE  LET m == request_user_list(u)
         IN /\ m \in Strings /\ get_type(m) = CMD_USERLIST
            /\ \A c \in Stack : get_user(m, c) \in ReadAs(u)
<1> DEFINE m == Command(CMD_USERLIST, USER_LIST_REQUEST) \o Field(u, 3)
<1>1. Fits(CMD_USERLIST, 2) /\ Fits(USER_LIST_REQUEST, 2)
  BY Small DEF CMD_USERLIST, USER_LIST_REQUEST
<1>2. m \in Strings /\ Headed(m, CMD_USERLIST, USER_LIST_REQUEST, u)
  BY <1>1, HeaderHas
<1> HIDE DEF m
<1>3. get_type(m) = CMD_USERLIST /\ \A c \in Stack : get_user(m, c) \in ReadAs(u)
  BY <1>1, <1>2, HeaderReads
<1> QED BY <1>2, <1>3 DEF m, request_user_list

\* The lurk command has its user where the others have the sub-type.
LEMMA LurkReads ==
  ASSUME NEW u, Fits(u, 3)
  PROVE  LET m == create_user_lurking(u)
         IN /\ m \in Strings /\ get_type(m) = CMD_LURK
            /\ \A c \in Stack : Lurking(m, c) \in ReadAs(u)
<1> DEFINE a == Field(CMD_LURK, 2) b == Field(u, 3) m == a \o b
<1>0. Fits(CMD_LURK, 2)
  BY Small DEF CMD_LURK
<1>1. a \in Strings /\ b \in Strings /\ Len(a) = 2
  BY <1>0, FieldString
<1>2. m \in Strings /\ Has(m, 0, a) /\ Has(m, Len(a), b)
  <2> HIDE DEF a, b
  <2> QED BY <1>1, Concat, HasSelf, HasLeft, HasRight
<1>3. Has(m, 0, Field(CMD_LURK, 2)) /\ Has(m, 2, Field(u, 3))
  BY <1>1, <1>2
<1> HIDE DEF m
<1>4. 0 \in Nat /\ 2 \in Nat
  OBVIOUS
<1>5. Number(m, 0, 2) = CMD_LURK
  BY <1>0, <1>2, <1>3, <1>4, NumberReads
<1>6. \A c \in Stack : Loose(m, 2, 3, c) \in ReadAs(u)
  BY <1>2, <1>3, <1>4, LooseReads
<1> QED BY <1>2, <1>5, <1>6 DEF m, create_user_lurking, get_type, Lurking

LEMMA OneMoreField ==
  ASSUME NEW s \in Strings, NEW n, NEW w, Fits(n, w)
  PROVE  LET t == s \o Field(n, w)
         IN /\ t \in Strings /\ Len(t) = Len(s) + w /\ Has(t, Len(s), Field(n, w))
            /\ \A x \in Strings, at \in Nat : Has(s, at, x) => Has(t, at, x)
<1>1. Field(n, w) \in Strings /\ Len(Field(n, w)) = w
  BY FieldString
<1> QED BY <1>1, Concat, HasLeft, HasRight

LEMMA WindowFits ==
  ASSUME NEW v \in Windows
  PROVE  /\ Fits(CMD_WINDOW, 2) /\ Fits(v.type, 2) /\ Fits(v.wid, 3) /\ Fits(v.x, 4) /\ Fits(v.y, 4)
         /\ Fits(v.z, 2) /\ Fits(v.w, 4) /\ Fits(v.h, 4)
<1>1. v \in [type : Numbers(2), wid : Numbers(3), x : Numbers(4), y : Numbers(4), z : Numbers(2),
             w : Numbers(4), h : Numbers(4)]
  BY WindowAssumption
<1>2. Fits(CMD_WINDOW, 2)
  BY Small DEF CMD_WINDOW
<1> QED BY <1>1, <1>2 DEF Fits

\* The numbers of a window, one behind the other.
LEMMA WindowHas ==
  ASSUME NEW v \in Windows
  PROVE  LET m == create_window_message(v)
         IN /\ m \in Strings /\ Headed(m, CMD_WINDOW, v.type, v.wid)
            /\ Has(m, 7, Field(v.x, 4)) /\ Has(m, 11, Field(v.y, 4)) /\ Has(m, 15, Field(v.z, 2))
            /\ Has(m, 17, Field(v.w, 4)) /\ Has(m, 21, Field(v.h, 4))
<1> DEFINE x == Field(v.x, 4) y == Field(v.y, 4) z == Field(v.z, 2) w == Field(v.w, 4) h == Field(v.h, 4)
           m1 == Command(CMD_WINDOW, v.type) \o Field(v.wid, 3)
           m2 == m1 \o x  m3 == m2 \o y  m4 == m3 \o z  m5 == m4 \o w  m6 == m5 \o h
<1>1. /\ Fits(CMD_WINDOW, 2) /\ Fits(v.type, 2) /\ Fits(v.wid, 3) /\ Fits(v.x, 4) /\ Fits(v.y, 4)
      /\ Fits(v.z, 2) /\ Fits(v.w, 4) /\ Fits(v.h, 4)
  BY WindowFits
<1>2. x \in Strings /\ y \in Strings /\ z \in Strings /\ w \in Strings /\ h \in Strings
  BY <1>1, FieldString
<1>3. m1 \in Strings /\ Len(m1) = 7 /\ Headed(m1, CMD_WINDOW, v.type, v.wid)
  BY <1>1, HeaderHas
<1>4. /\ Field(CMD_WINDOW, 2) \in Strings /\ Field(v.type, 2) \in Strings
      /\ Field(v.wid, 3) \in Strings
  BY <1>1, FieldString
<1> HIDE DEF m1
<1>5. /\ m2 \in Strings /\ Len(m2) = 11 /\ Has(m2, 7, x)
      /\ \A s \in Strings, at \in Nat : Has(m1, at, s) => Has(m2, at, s)
  <2>1. /\ m2 \in Strings /\ Len(m2) = Len(m1) + 4 /\ Has(m2, Len(m1), x)
        /\ \A s \in Strings, at \in Nat : Has(m1, at, s) => Has(m2, at, s)
    BY <1>1, <1>3, OneMoreField, Zenon
  <2> HIDE DEF m2, x
  <2>2. Len(m2) = 11
    BY <1>3, <2>1
  <2> QED BY <1>3, <2>1, <2>2, Zenon
<1> HIDE DEF m2
<1>6. /\ m3 \in Strings /\ Len(m3) = 15 /\ Has(m3, 11, y)
      /\ \A s \in Strings, at \in Nat : Has(m2, at, s) => Has(m3, at, s)
  <2>1. /\ m3 \in Strings /\ Len(m3) = Len(m2) + 4 /\ Has(m3, Len(m2), y)
        /\ \A s \in Strings, at \in Nat : Has(m2, at, s) => Has(m3, at, s)
    BY <1>1, <1>5, OneMoreField, Zenon
  <2> HIDE DEF m3, y
  <2>2. Len(m3) = 15
    BY <1>5, <2>1
  <2> QED BY <1>5, <2>1, <2>2, Zenon
<1> HIDE DEF m3
<1>7. /\ m4 \in Strings /\ Len(m4) = 17 /\ Has(m4, 15, z)
      /\ \A s \in Strings, at \in Nat : Has(m3, at, s) => Has(m4, at, s)
  <2>1. /\ m4 \in Strings /\ Len(m4) = Len(m3) + 2 /\ Has(m4, Len(m3), z)
        /\ \A s \in Strings, at \in Nat : Has(m3, at, s) => Has(m4, at, s)
    BY <1>1, <1>6, OneMoreField, Zenon
  <2> HIDE DEF m4, z
  <2>2. Len(m4) = 17
    BY <1>6, <2>1
  <2> QED BY <1>6, <2>1, <2>2, Zenon
<1> HIDE DEF m4
<1>8. /\ m5 \in Strings /\ Len(m5) = 21 /\ Has(m5, 17, w)
      /\ \A s \in Strings, at \in Nat : Has(m4, at, s) => Has(m5, at, s)
  <2>1. /\ m5 \in Strings /\ Len(m5) = Len(m4) + 4 /\ Has(m5, Len(m4), w)
        /\ \A s \in Strings, at \in Nat : Has(m4, at, s) => Has(m5, at, s)
    BY <1>1, <1>7, OneMoreField, Zenon
  <2> HIDE DEF m5, w
  <2>2. Len(m5) = 21
    BY <1>7, <2>1
  <2> QED BY <1>7, <2>1, <2>2, Zenon
<1> HIDE DEF m5
<1>9. /\ m6 \in Strings /\ Has(m6, 21, h)
      /\ \A s \in Strings, at \in Nat : Has(m5, at, s) => Has(m6, at, s)
  BY <1>1, <1>8, OneMoreField
<1> HIDE DEF m6, x, y, z, w, h
<1>10. \A s \in Strings, at \in Nat : Has(m1, at, s) => Has(m6, at, s)
  BY <1>5, <1>6, <1>7, <1>8, <1>9
<1>11. Headed(m6, CMD_WINDOW, v.type, v.wid)
  BY <1>3, <1>4, <1>10 DEF Headed
<1>12. Has(m6, 7, x) /\ Has(m6, 11, y) /\ Has(m6, 15, z) /\ Has(m6, 17, w)
  <2>1. 7 \in Nat /\ 11 \in Nat /\ 15 \in Nat /\ 17 \in Nat
    OBVIOUS
  <2> QED BY <2>1, <1>2, <1>5, <1>6, <1>7, <1>8, <1>9
<1> QED
  BY <1>9, <1>11, <1>12 DEF create_window_message, m1, m2, m3, m4, m5, m6, x, y, z, w, h

\* A window arrives with all its numbers, but for a digit behind its id.
LEMMA WindowReads ==
  ASSUME NEW v \in Windows
  PROVE  LET m == create_window_message(v)
         IN /\ m \in Strings /\ get_type(m) = CMD_WINDOW
            /\ \A c \in Stack :
                 /\ get_user(m, c) \in ReadAs(v.wid) /\ get_window(m, c).wid \in ReadAs(v.wid)
                 /\ get_window(m, c) = [v EXCEPT !.wid = get_window(m, c).wid]
<1> DEFINE m == create_window_message(v)
<1>1. /\ Fits(CMD_WINDOW, 2) /\ Fits(v.type, 2) /\ Fits(v.wid, 3) /\ Fits(v.x, 4) /\ Fits(v.y, 4)
      /\ Fits(v.z, 2) /\ Fits(v.w, 4) /\ Fits(v.h, 4)
  BY WindowFits
<1>2. /\ m \in Strings /\ Headed(m, CMD_WINDOW, v.type, v.wid)
      /\ Has(m, 7, Field(v.x, 4)) /\ Has(m, 11, Field(v.y, 4)) /\ Has(m, 15, Field(v.z, 2))
      /\ Has(m, 17, Field(v.w, 4)) /\ Has(m, 21, Field(v.h, 4))
  BY WindowHas
<1> HIDE DEF m
<1>3. get_type(m) = CMD_WINDOW /\ \A c \in Stack : get_user(m, c) \in ReadAs(v.wid)
  BY <1>1, <1>2, HeaderReads
<1>4. 2 \in Nat /\ 4 \in Nat /\ 7 \in Nat /\ 11 \in Nat /\ 15 \in Nat /\ 17 \in Nat /\ 21 \in Nat
  OBVIOUS
<1>5. Number(m, 2, 2) = v.type
  BY <1>1, <1>2, <1>4, NumberReads DEF Headed
<1>6. Number(m, 7, 4) = v.x /\ Number(m, 11, 4) = v.y
  BY <1>1, <1>2, <1>4, NumberReads
<1>7. Number(m, 15, 2) = v.z /\ Number(m, 17, 4) = v.w /\ Number(m, 21, 4) = v.h
  BY <1>1, <1>2, <1>4, NumberReads
<1>8. \A c \in Stack : Loose(m, 4, 3, c) \in ReadAs(v.wid)
  BY <1>1, <1>2, <1>4, LooseReads DEF Headed
<1>9. ASSUME NEW c \in Stack
      PROVE  /\ get_window(m, c).wid = Loose(m, 4, 3, c)
             /\ get_window(m, c) = [v EXCEPT !.wid = Loose(m, 4, 3, c)]
  <2>1. v = [type |-> v.type, wid |-> v.wid, x |-> v.x, y |-> v.y, z |-> v.z, w |-> v.w, h |-> v.h]
    BY WindowAssumption
  <2> QED BY <2>1, <1>5, <1>6, <1>7 DEF get_window
<1> QED BY <1>2, <1>3, <1>8, <1>9 DEF m

-----------------------------------------------------------------------------
(* The user list *)

\* Entry of a user with this name.
EntryOf(x, u) == Field(Len(x) + 3, 3) \o Field(u, 3) \o x

LEMMA NamesFit ==
  ASSUME NEW f \in Namings, NEW u \in Slots
  PROVE  /\ f[u] \in Strings /\ Len(f[u]) \in Nat /\ Len(f[u]) <= 76
         /\ Fits(Len(f[u]) + 3, 3) /\ Fits(u, 3)
<1>1. f[u] \in Strings /\ Len(f[u]) <= 76
  BY NameAssumption
<1>2. Len(f[u]) \in Nat
  BY <1>1 DEF Strings
<1>3. Len(f[u]) + 3 \in 0..999
  <2> DEFINE l == Len(f[u])
  <2>1. l \in Nat /\ l <= 76
    BY <1>1, <1>2
  <2> HIDE DEF l
  <2>2. l + 3 \in 0..999
    BY <2>1
  <2> QED BY <2>2 DEF l
<1>4. Fits(Len(f[u]) + 3, 3)
  BY <1>3 DEF Fits, Numbers
<1> QED BY <1>1, <1>2, <1>4, SlotFits

LEMMA EntryHas ==
  ASSUME NEW f \in Namings, NEW u \in Slots
  PROVE  LET e == EntryOf(f[u], u)
         IN /\ e \in Strings /\ Len(e) = 6 + Len(f[u])
            /\ Has(e, 0, Field(Len(f[u]) + 3, 3)) /\ Has(e, 3, Field(u, 3)) /\ Has(e, 6, f[u])
<1> DEFINE x == f[u] a == Field(Len(x) + 3, 3) b == Field(u, 3) d == a \o b e == d \o x
<1>1. x \in Strings /\ Len(x) \in Nat /\ Fits(Len(x) + 3, 3) /\ Fits(u, 3)
  BY NamesFit
<1>2. a \in Strings /\ b \in Strings /\ Len(a) = 3 /\ Len(b) = 3
  BY <1>1, FieldString
<1> HIDE DEF x, a, b
<1>3. d \in Strings /\ Len(d) = Len(a) + Len(b) /\ Has(d, 0, a) /\ Has(d, Len(a), b)
  BY <1>2, Concat, HasSelf, HasLeft, HasRight
<1>4. Len(d) = 6 /\ Has(d, 3, b)
  BY <1>2, <1>3
<1> HIDE DEF d
<1>5. e \in Strings /\ Len(e) = Len(d) + Len(x) /\ Has(e, Len(d), x)
  BY <1>1, <1>3, Concat, HasRight
<1>6. Has(e, 0, a) /\ Has(e, 3, b)
  BY <1>1, <1>2, <1>3, <1>4, HasLeft
<1>7. Len(e) = 6 + Len(x) /\ Has(e, 6, x)
  BY <1>4, <1>5
<1> QED BY <1>5, <1>6, <1>7 DEF EntryOf, a, b, d, e, x

\* A part of a message that is known to be there.
LEMMA PartReads ==
  ASSUME NEW m \in Strings, NEW at \in Nat, NEW t \in Strings, Has(m, at, t)
  PROVE  SubSeq(m, at + 1, at + Len(t)) = t
<1>1. Len(t) \in Nat /\ Len(m) \in Nat
  BY DEF Strings
<1>2. at + Len(t) <= Len(m)
  BY DEF Has
<1>3. \A i \in at + 1..at + Len(t) : m[i] \in Characters \ {NUL}
  BY <1>1, <1>2 DEF Strings
<1> DEFINE e == at + Len(t) f == SubSeq(m, at + 1, e)
<1>4. /\ f \in Strings
      /\ Len(f) = IF at + 1 <= e THEN e - (at + 1) + 1 ELSE 0
      /\ \A i \in 1..e - (at + 1) + 1 : f[i] = m[at + 1 + i - 1]
  <2>1. at + 1 \in Int /\ e \in Int
    BY <1>1
  <2> QED BY <1>3, <2>1, SubSeqProperties DEF Strings
<1> HIDE DEF f
<1>5. Len(f) = Len(t)
  BY <1>1, <1>4
<1>6. \A i \in 1..Len(t) : f[i] = t[i]
  BY <1>1, <1>4 DEF Has
<1>7. f = t
  BY <1>4, <1>5, <1>6 DEF Strings
<1> QED BY <1>7 DEF f

\* Where the users of a list are in its message.
Placed(m, b, f, pos) ==
  /\ pos \in [1..Len(b) + 1 -> Nat] /\ pos[1] = 7 /\ pos[Len(b) + 1] = Len(m)
  /\ Has(m, 0, Field(CMD_USERLIST, 2))
  /\ \A i \in 1..Len(b) :
       pos[i + 1] = pos[i] + 6 + Len(f[b[i]]) /\ Has(m, pos[i], EntryOf(f[b[i]], b[i]))

LEMMA PlacedFirst ==
  ASSUME NEW f \in Namings, NEW u \in Slots
  PROVE  LET m == Command(CMD_USERLIST, USER_LIST_CURRENT) \o Field(u, 3) \o EntryOf(f[u], u)
         IN m \in Strings /\ \E pos : Placed(m, <<u>>, f, pos)
<1> DEFINE e == EntryOf(f[u], u)
           m == Command(CMD_USERLIST, USER_LIST_CURRENT) \o Field(u, 3) \o e
           pos == [i \in 1..2 |-> IF i = 1 THEN 7 ELSE Len(m)]
<1>1. e \in Strings /\ Len(e) = 6 + Len(f[u]) /\ Len(f[u]) \in Nat
  BY EntryHas, NamesFit
<1>2. Fits(CMD_USERLIST, 2) /\ Fits(USER_LIST_CURRENT, 2) /\ Fits(u, 3)
  BY Small, SlotFits DEF CMD_USERLIST, USER_LIST_CURRENT
<1>3. /\ m \in Strings /\ Len(m) = 7 + Len(e)
      /\ Headed(m, CMD_USERLIST, USER_LIST_CURRENT, u) /\ Has(m, 7, e)
  <2> HIDE DEF e
  <2> QED BY <1>1, <1>2, MessageHas
<1> HIDE DEF m
<1>4. Len(m) = 13 + Len(f[u]) /\ Len(m) \in Nat
  BY <1>1, <1>3
<1>5. pos \in [1..2 -> Nat] /\ pos[1] = 7 /\ pos[2] = Len(m)
  BY <1>4
<1>6. Has(m, 0, Field(CMD_USERLIST, 2))
  BY <1>3 DEF Headed
<1> DEFINE b == <<u>>
<1>7. Len(b) = 1 /\ b[1] = u
  OBVIOUS
<1> HIDE DEF pos, b
<1>8. \A i \in 1..Len(b) :
        pos[i + 1] = pos[i] + 6 + Len(f[b[i]]) /\ Has(m, pos[i], EntryOf(f[b[i]], b[i]))
  <2>1. pos[2] = pos[1] + 6 + Len(f[b[1]])
    BY <1>1, <1>4, <1>5, <1>7
  <2>2. Has(m, pos[1], EntryOf(f[b[1]], b[1]))
    BY <1>3, <1>5, <1>7
  <2> QED BY <1>7, <2>1, <2>2
<1>9. Placed(m, b, f, pos)
  BY <1>5, <1>6, <1>7, <1>8 DEF Placed
<1> QED BY <1>3, <1>9 DEF m, b

LEMMA PlacedNext ==
  ASSUME NEW f \in Namings, NEW u \in Slots, NEW m \in Strings, NEW b \in Seq(Slots), NEW pos,
         Placed(m, b, f, pos)
  PROVE  /\ m \o EntryOf(f[u], u) \in Strings
         /\ \E q : Placed(m \o EntryOf(f[u], u), Append(b, u), f, q)
<1> DEFINE e == EntryOf(f[u], u) k == m \o e c == Append(b, u)
           q == [i \in 1..Len(c) + 1 |-> IF i <= Len(b) + 1 THEN pos[i] ELSE Len(k)]
<1>1. e \in Strings /\ Len(e) = 6 + Len(f[u]) /\ Len(f[u]) \in Nat
  BY EntryHas, NamesFit
<1>2. /\ c \in Seq(Slots) /\ Len(c) = Len(b) + 1 /\ c[Len(b) + 1] = u /\ Len(b) \in Nat
      /\ \A i \in 1..Len(b) : c[i] = b[i]
  <2>1. Len(b) \in Nat
    OBVIOUS
  <2> QED BY <2>1, Appending
<1>3. /\ pos \in [1..Len(b) + 1 -> Nat] /\ pos[1] = 7 /\ pos[Len(b) + 1] = Len(m)
      /\ Has(m, 0, Field(CMD_USERLIST, 2))
      /\ \A i \in 1..Len(b) :
           pos[i + 1] = pos[i] + 6 + Len(f[b[i]]) /\ Has(m, pos[i], EntryOf(f[b[i]], b[i]))
  BY DEF Placed
<1> HIDE DEF e, c
<1>4. k \in Strings /\ Len(k) = Len(m) + Len(e) /\ Has(k, Len(m), e) /\ Len(m) \in Nat
  BY <1>1, Concat, HasRight
<1>5. \A x \in Strings, at \in Nat : Has(m, at, x) => Has(k, at, x)
  BY <1>1, HasLeft
<1> HIDE DEF k
<1>6. q \in [1..Len(c) + 1 -> Nat] /\ q[Len(c) + 1] = Len(k)
  <2>1. Len(k) \in Nat
    BY <1>1, <1>4
  <2> QED BY <1>2, <1>3, <2>1
<1>7. \A i \in 1..Len(b) + 1 : q[i] = pos[i]
  BY <1>2
<1> HIDE DEF q
<1>8. q[1] = 7 /\ q[Len(b) + 1] = Len(m)
  BY <1>2, <1>3, <1>7
<1>9. Has(k, 0, Field(CMD_USERLIST, 2))
  <2>1. Field(CMD_USERLIST, 2) \in Strings
    BY Small, FieldString DEF CMD_USERLIST
  <2> QED BY <1>3, <1>5, <2>1
<1>10. ASSUME NEW i \in 1..Len(c)
       PROVE  q[i + 1] = q[i] + 6 + Len(f[c[i]]) /\ Has(k, q[i], EntryOf(f[c[i]], c[i]))
  <2>1. CASE i \in 1..Len(b)
    <3>1. c[i] = b[i] /\ q[i] = pos[i] /\ q[i + 1] = pos[i + 1] /\ pos[i] \in Nat
      BY <1>2, <1>3, <1>7, <2>1
    <3>2. b[i] \in Slots
      BY <2>1
    <3>3. EntryOf(f[b[i]], b[i]) \in Strings
      BY <3>2, EntryHas
    <3>4. pos[i + 1] = pos[i] + 6 + Len(f[b[i]]) /\ Has(m, pos[i], EntryOf(f[b[i]], b[i]))
      BY <1>3, <2>1
    <3> QED BY <1>5, <3>1, <3>3, <3>4
  <2>2. CASE i = Len(b) + 1
    <3>1. c[i] = u /\ q[i] = Len(m) /\ q[i + 1] = Len(k)
      BY <1>2, <1>6, <1>8, <2>2
    <3>2. Len(k) = Len(m) + 6 + Len(f[u])
      <4> DEFINE l == Len(f[u]) x == Len(m)
      <4>1. l \in Nat /\ x \in Nat /\ Len(e) = 6 + l /\ Len(k) = x + Len(e)
        BY <1>1, <1>4
      <4> HIDE DEF l, x
      <4>2. Len(k) = x + 6 + l
        BY <4>1
      <4> QED BY <4>2 DEF l, x
    <3> QED BY <1>4, <3>1, <3>2 DEF e
  <2> QED BY <1>2, <2>1, <2>2
<1>11. Placed(k, c, f, q)
  BY <1>6, <1>8, <1>9, <1>10 DEF Placed
<1> QED BY <1>4, <1>11 DEF k, c, e

LEMMA NameReads ==
  ASSUME NEW m \in Strings, NEW at \in Nat, NEW x \in Strings, Has(m, at, x), NEW h
  PROVE  NameAt(m, at, Len(x), h) = x \o h
<1>1. SubSeq(m, at + 1, at + Len(x)) = x
  BY PartReads
<1>2. at + Len(x) <= Len(m) /\ Len(m) \in Nat /\ Len(x) \in Nat
  BY DEF Has, Strings
<1> DEFINE k == at + Len(x)
<1>3. k \in Nat /\ k <= Len(m)
  BY <1>2
<1> HIDE DEF k
<1>4. (IF k < Len(m) THEN k ELSE Len(m)) = k
  BY <1>2, <1>3
<1> QED BY <1>1, <1>4 DEF NameAt, k

\* A user is read where he is: his name's length, his uid, and his name with what
\* is behind it.
LEMMA PlacedReads ==
  ASSUME NEW f \in Namings, NEW m \in Strings, NEW b \in Seq(Slots), NEW pos, Placed(m, b, f, pos),
         NEW i \in 1..Len(b)
  PROVE  /\ pos[i] \in Nat /\ f[b[i]] \in Strings /\ Len(f[b[i]]) \in Nat
         /\ pos[i + 1] = pos[i] + 6 + Len(f[b[i]])
         /\ Has(m, pos[i], Field(Len(f[b[i]]) + 3, 3)) /\ Has(m, pos[i] + 3, Field(b[i], 3))
         /\ Has(m, pos[i] + 6, f[b[i]])
         /\ Number(m, pos[i], 3) = Len(f[b[i]]) + 3
         /\ Number(m, pos[i] + 3, 3) = b[i]
<1> DEFINE u == b[i] x == f[u] e == EntryOf(x, u) at == pos[i]
<1>1. u \in Slots /\ at \in Nat
  <2>1. i \in 1..Len(b) + 1
    OBVIOUS
  <2> QED BY <2>1 DEF Placed
<1>2. pos[i + 1] = at + 6 + Len(x) /\ Has(m, at, e)
  BY DEF Placed
<1>3. x \in Strings /\ Len(x) \in Nat /\ Fits(Len(x) + 3, 3) /\ Fits(u, 3)
  BY <1>1, NamesFit
<1>4. e \in Strings /\ Has(e, 0, Field(Len(x) + 3, 3)) /\ Has(e, 3, Field(u, 3)) /\ Has(e, 6, x)
  BY <1>1, EntryHas
<1>5. Field(Len(x) + 3, 3) \in Strings /\ Field(u, 3) \in Strings
  BY <1>3, FieldString
<1> HIDE DEF u, x, e, at
<1>6. /\ Has(m, at + 0, Field(Len(x) + 3, 3)) /\ Has(m, at + 3, Field(u, 3)) /\ Has(m, at + 6, x)
  <2>1. 0 \in Nat /\ 3 \in Nat /\ 6 \in Nat
    OBVIOUS
  <2> QED BY <1>1, <1>2, <1>3, <1>4, <1>5, <2>1, HasPart
<1>7. at + 0 = at /\ at + 3 \in Nat
  BY <1>1
<1>8. Has(m, at, Field(Len(x) + 3, 3))
  BY <1>6, <1>7
<1>9. Number(m, at, 3) = Len(x) + 3 /\ Number(m, at + 3, 3) = u
  BY <1>1, <1>3, <1>6, <1>7, <1>8, NumberReads
<1> QED BY <1>1, <1>2, <1>3, <1>6, <1>8, <1>9 DEF u, x, at

LEMMA FirstReads ==
  ASSUME NEW f \in Namings, NEW m \in Strings, NEW b \in Seq(Slots), NEW pos, Placed(m, b, f, pos),
         1 \in 1..Len(b), NEW h
  PROVE  /\ pos[1] = 7 /\ Len(f[b[1]]) \in Nat /\ pos[2] = 13 + Len(f[b[1]])
         /\ Has(m, 7, Field(Len(f[b[1]]) + 3, 3)) /\ Has(m, 10, Field(b[1], 3))
         /\ NameAt(m, 13, Len(f[b[1]]), h) = f[b[1]] \o h
<1> DEFINE i == 1 x == f[b[i]]
<1>1. pos[i] = 7 /\ i \in 1..Len(b) /\ i + 1 = 2
  BY DEF Placed
<1> HIDE DEF i
<1>2. Len(x) \in Nat /\ pos[i + 1] = pos[i] + 6 + Len(x) /\ x \in Strings
  BY <1>1, PlacedReads
<1>3. Has(m, pos[i], Field(Len(x) + 3, 3)) /\ Has(m, pos[i] + 3, Field(b[i], 3)) /\ Has(m, pos[i] + 6, x)
  BY <1>1, PlacedReads
<1>4. pos[i] + 3 = 10 /\ pos[i] + 6 = 13
  BY <1>1
<1> HIDE DEF x
<1>5. NameAt(m, 13, Len(x), h) = x \o h
  <2>1. 13 \in Nat /\ Has(m, 13, x)
    BY <1>3, <1>4
  <2> QED BY <1>2, <2>1, NameReads
<1>6. pos[2] = 13 + Len(x)
  BY <1>1, <1>2, <1>4
<1> QED BY <1>1, <1>2, <1>3, <1>4, <1>5, <1>6 DEF i, x

\* Behind the last one there is none.
LEMMA PlacedEnds ==
  ASSUME NEW f \in Namings, NEW m \in Strings, NEW b \in Seq(Slots), NEW pos, Placed(m, b, f, pos)
  PROVE  get_type(m) = CMD_USERLIST /\ Number(m, pos[Len(b) + 1], 3) = 0
<1>1. Has(m, 0, Field(CMD_USERLIST, 2)) /\ pos[Len(b) + 1] = Len(m) /\ Len(m) \in Nat
  BY DEF Placed, Strings
<1>2. Fits(CMD_USERLIST, 2) /\ 0 \in Nat
  BY Small DEF CMD_USERLIST
<1>3. Number(m, 0, 2) = CMD_USERLIST
  BY <1>1, <1>2, NumberReads
<1>4. Number(m, Len(m), 3) = 0
  BY <1>1, NumberEnd
<1> QED BY <1>1, <1>3, <1>4 DEF get_type

-----------------------------------------------------------------------------
(* The invariant.  What depends on the state is stated for values it has, so   *)
(* that a step that changes none of them keeps it.                             *)

Wants == [kind : Kinds, uid : Slots, to : Slots, text : Texts]

Known == want \in Wants /\ window \in Windows /\ name \in Namings

\* What the server reads in a request for w.
RequestReads(w, v, m) ==
  /\ w.kind \in {"chat", "status"} =>
       /\ get_type(m) = CMD_TEXT /\ get_text(m) = w.text
       /\ get_text_type(m) = IF w.kind = "chat" THEN TEXT_MAIN_CHAT ELSE TEXT_STATUS
       /\ \A c \in Stack : get_user(m, c) \in ReadAs(w.uid)
  /\ w.kind = "im" =>
       /\ get_type(m) = CMD_TEXT /\ get_text_type(m) = TEXT_IM
       /\ get_from_user(m) = Number(w.text, 0, 3) /\ get_text(m) = From(w.text, 3)
       /\ \A c \in Stack : get_user(m, c) \in ReadAs(w.uid)
  /\ w.kind = "yell" => get_type(m) = CMD_ERROR
  /\ w.kind = "vote" =>
       /\ get_type(m) = CMD_VOTE /\ Number(m, 7, 3) = w.to
       /\ \A c \in Stack : get_user(m, c) \in ReadAs(w.uid)
  /\ w.kind = "lurk" => get_type(m) = CMD_LURK /\ \A c \in Stack : Lurking(m, c) \in ReadAs(w.uid)
  /\ w.kind = "list" => get_type(m) = CMD_USERLIST /\ \A c \in Stack : get_user(m, c) \in ReadAs(w.uid)
  /\ w.kind = "window" =>
       /\ get_type(m) = CMD_WINDOW
       /\ \A c \in Stack :
            /\ get_user(m, c) \in ReadAs(v.wid) /\ get_window(m, c).wid \in ReadAs(v.wid)
            /\ get_window(m, c) = [v EXCEPT !.wid = get_window(m, c).wid]

Sent ==
  \A w \in Wants, v \in Windows, m \in Strings :
    stage = "sent" /\ want = w /\ window = v /\ message = m => RequestReads(w, v, m)

\* What a client reads in the answer; x is the name of the user u.
AnswerReads(w, u, x, m) ==
  /\ w.kind = "chat" =>
       get_type(m) = CMD_TEXT /\ get_text_type(m) = TEXT_MAIN_CHAT /\ get_text(m) = x \o <<Other>> \o w.text
  /\ w.kind = "status" =>
       /\ get_type(m) = CMD_TEXT /\ get_text_type(m) = TEXT_STATUS
       /\ \E c \in Stack : get_text(m) = x \o <<Other>> \o Kept(w.text, c)
       /\ \A c \in Stack : get_user(m, c) \in ReadAs(u)
  /\ w.kind = "im" =>
       /\ get_type(m) = CMD_TEXT /\ get_text_type(m) = TEXT_IM
       /\ get_from_user(m) = Number(w.text, 3, 3)
       /\ Len(w.text) >= 6 => Len(m) >= 10 /\ get_text(m) = From(w.text, 6)
  /\ w.kind = "vote" => get_type(m) = CMD_VOTE /\ Number(m, 7, 3) = w.to

Answered ==
  /\ \A w \in Wants, u \in Slots, x \in Strings, m \in Strings :
       stage = "answered" /\ want = w /\ user = u /\ message = m /\ name[u] = x => AnswerReads(w, u, x, m)
  /\ stage = "answered" /\ want.kind # "list" => user \in Slots
  /\ stage = "answered" /\ want.kind \in {"chat", "status"} => receivers = Slots
  /\ stage = "answered" /\ want.kind = "vote" => receivers = {user}
  /\ stage = "answered" /\ want.kind = "im" => receivers \subseteq ReadAs(want.uid)

\* A list is in its message, and as far as it is read, it is read where it is.
Listing ==
  want.kind = "list" /\ stage \in {"listing", "answered", "reading", "shown", "overrun"} =>
    /\ built # <<>>
    /\ \E m \in Strings, b \in Seq(Slots), f \in Namings : \E pos :
         /\ message = m /\ built = b /\ name = f /\ Placed(m, b, f, pos)
         /\ stage = "reading" /\ ~Misread => scan = pos[Len(read) + 1]

Reading ==
  /\ stage \in {"idle", "sent", "listing", "answered"} => read = <<>>
  /\ stage \in {"reading", "overrun"} => read # <<>>
  /\ stage = "listing" => scan \in Slots /\ want.kind = "list"
  /\ stage = "reading" => want.kind \notin {"chat", "status", "vote", "im"}
  /\ want.kind = "list" /\ stage \in {"reading", "shown", "overrun"} /\ ~Misread =>
       Len(read) <= Len(built) /\ \A i \in DOMAIN read : AsListed(i, read[i])

IInv == TypeOK /\ Known /\ Sent /\ Answered /\ Listing /\ Reading /\ RequestArrives /\ AnswersFit /\ ListSurvives

LEMMA Inputs ==
  ASSUME NEW w \in Wants
  PROVE  w.uid \in Slots /\ w.to \in Slots /\ w.text \in Strings /\ w.kind \in Kinds
         /\ Fits(w.uid, 3) /\ Fits(w.to, 3)
         /\ w.kind \in {"chat", "status", "im", "yell", "vote", "lurk", "list", "window"}
<1>1. w.uid \in Slots /\ w.to \in Slots /\ w.text \in Texts /\ w.kind \in Kinds
  BY DEF Wants
<1>2. w.text \in Strings
  BY <1>1, TextAssumption
<1>3. w.kind \in {"chat", "status", "im", "yell", "vote", "lurk", "list", "window"}
  BY <1>1, KindAssumption
<1> QED BY <1>1, <1>2, <1>3, SlotFits

\* The server reads a request as it was meant.
LEMMA Requested ==
  ASSUME NEW w \in Wants, NEW v \in Windows, want = w, window = v
  PROVE  Request \in Strings /\ RequestReads(w, v, Request)
<1> DEFINE m == Request
<1>0. /\ w.text \in Strings /\ Fits(w.uid, 3) /\ Fits(w.to, 3)
      /\ w.kind \in {"chat", "status", "im", "yell", "vote", "lurk", "list", "window"}
  BY Inputs
<1>1. CASE w.kind = "chat"
  <2>1. m = create_text_message(TEXT_MAIN_CHAT, w.uid, w.text)
    BY <1>1 DEF Request
  <2> HIDE DEF m
  <2>2. /\ m \in Strings /\ get_type(m) = CMD_TEXT /\ get_text_type(m) = TEXT_MAIN_CHAT
        /\ get_text(m) = w.text /\ \A c \in Stack : get_user(m, c) \in ReadAs(w.uid)
    BY <1>0, <2>1, TextReads
  <2>3. RequestReads(w, v, m)
    BY <1>1, <2>2 DEF RequestReads
  <2> QED BY <2>2, <2>3 DEF m
<1>2. CASE w.kind = "status"
  <2>1. m = create_text_message(TEXT_STATUS, w.uid, w.text)
    BY <1>2 DEF Request
  <2> HIDE DEF m
  <2>2. /\ m \in Strings /\ get_type(m) = CMD_TEXT /\ get_text_type(m) = TEXT_STATUS
        /\ get_text(m) = w.text /\ \A c \in Stack : get_user(m, c) \in ReadAs(w.uid)
    BY <1>0, <2>1, TextReads
  <2>3. RequestReads(w, v, m)
    BY <1>2, <2>2 DEF RequestReads
  <2> QED BY <2>2, <2>3 DEF m
<1>3. CASE w.kind = "im"
  <2>1. m = create_im_message(w.uid, w.to, w.text)
    BY <1>3 DEF Request
  <2> HIDE DEF m
  <2>2. /\ m \in Strings /\ get_type(m) = CMD_TEXT /\ get_text_type(m) = TEXT_IM
        /\ get_from_user(m) = Number(w.text, 0, 3) /\ get_text(m) = From(w.text, 3)
        /\ \A c \in Stack : get_user(m, c) \in ReadAs(w.uid)
    BY <1>0, <2>1, ImReads
  <2>3. RequestReads(w, v, m)
    BY <1>3, <2>2 DEF RequestReads
  <2> QED BY <2>2, <2>3 DEF m
<1>4. CASE w.kind = "yell"
  <2>1. m = create_yell_message(w.uid, w.text)
    BY <1>4 DEF Request
  <2> HIDE DEF m
  <2>2. m \in Strings /\ get_type(m) = CMD_ERROR
    BY <1>0, <2>1, YellReads
  <2>3. RequestReads(w, v, m)
    BY <1>4, <2>2 DEF RequestReads
  <2> QED BY <2>2, <2>3 DEF m
<1>5. CASE w.kind = "vote"
  <2>1. m = VoteMessage(VOTE, w.uid, w.to)
    BY <1>5 DEF Request
  <2>0. VOTE \in 0..9
    BY DEF VOTE
  <2> HIDE DEF m
  <2>2. /\ m \in Strings /\ get_type(m) = CMD_VOTE /\ Number(m, 7, 3) = w.to
        /\ \A c \in Stack : get_user(m, c) \in ReadAs(w.uid)
    BY <1>0, <2>0, <2>1, VoteReads
  <2>3. RequestReads(w, v, m)
    BY <1>5, <2>2 DEF RequestReads
  <2> QED BY <2>2, <2>3 DEF m
<1>6. CASE w.kind = "lurk"
  <2>1. m = create_user_lurking(w.uid)
    BY <1>6 DEF Request
  <2> HIDE DEF m
  <2>2. m \in Strings /\ get_type(m) = CMD_LURK /\ \A c \in Stack : Lurking(m, c) \in ReadAs(w.uid)
    BY <1>0, <2>1, LurkReads
  <2>3. RequestReads(w, v, m)
    BY <1>6, <2>2 DEF RequestReads
  <2> QED BY <2>2, <2>3 DEF m
<1>7. CASE w.kind = "list"
  <2>1. m = request_user_list(w.uid)
    BY <1>7 DEF Request
  <2> HIDE DEF m
  <2>2. m \in Strings /\ get_type(m) = CMD_USERLIST /\ \A c \in Stack : get_user(m, c) \in ReadAs(w.uid)
    BY <1>0, <2>1, RequestListReads
  <2>3. RequestReads(w, v, m)
    BY <1>7, <2>2 DEF RequestReads
  <2> QED BY <2>2, <2>3 DEF m
<1>8. CASE w.kind = "window"
  <2>1. m = create_window_message(v)
    BY <1>8 DEF Request
  <2> HIDE DEF m
  <2>2. /\ m \in Strings /\ get_type(m) = CMD_WINDOW
        /\ \A c \in Stack :
             /\ get_user(m, c) \in ReadAs(v.wid) /\ get_window(m, c).wid \in ReadAs(v.wid)
             /\ get_window(m, c) = [v EXCEPT !.wid = get_window(m, c).wid]
    BY <2>1, WindowReads
  <2>3. RequestReads(w, v, m)
    BY <1>8, <2>2 DEF RequestReads
  <2> QED BY <2>2, <2>3 DEF m
<1> QED BY <1>0, <1>1, <1>2, <1>3, <1>4, <1>5, <1>6, <1>7, <1>8

\* A status is cut to text that it has.
LEMMA KeptString ==
  ASSUME NEW t \in Strings, NEW c \in Characters
  PROVE  /\ Kept(t, c) \in Strings
         /\ IF Len(t) <= 20 THEN Kept(t, c) = t
            ELSE LastOf(t) \in Strings /\ \E r \in Strings : Kept(t, c) = LastOf(t) \o r
<1>1. CASE Len(t) <= 20
  BY <1>1 DEF Kept
<1>2. CASE ~(Len(t) <= 20)
  <2>0. Len(t) \in Nat /\ Len(t) - 20 \in Nat /\ Len(t) - 20 + 1 = Len(t) - 19
    BY <1>2 DEF Strings
  <2>1. LastOf(t) \in Strings
    <3> DEFINE l == Len(t) a == l - 20
    <3>1. l \in Nat /\ a \in Nat /\ a + 1 = l - 19 /\ l <= Len(t)
      BY <2>0
    <3> HIDE DEF a
    <3>2. SubSeq(t, a + 1, l) \in Strings
      BY <3>1, FromString
    <3>3. SubSeq(t, l - 19, l) \in Strings
      BY <3>1, <3>2
    <3> QED BY <3>3 DEF LastOf
  <2>2. CASE c = NUL
    <3>1. Kept(t, c) = LastOf(t)
      BY <1>2, <2>2 DEF Kept
    <3>2. <<>> \in Strings /\ LastOf(t) = LastOf(t) \o <<>>
      BY <2>1, ConcatEmptySeq DEF Strings
    <3> QED BY <1>2, <2>1, <3>1, <3>2
  <2>3. CASE c # NUL
    <3> DEFINE e == LastOf(t) s == SubSeq(t, 22, Len(t)) r == <<c>> \o s
    <3>1. Kept(t, c) = Append(e, c) \o s
      BY <1>2, <2>3 DEF Kept
    <3>2. s \in Strings
      <4> DEFINE a == 21 l == Len(t)
      <4>1. a \in Nat /\ a + 1 = 22 /\ l \in Nat /\ l <= Len(t)
        BY <2>0
      <4> HIDE DEF a
      <4>2. SubSeq(t, a + 1, l) \in Strings
        BY <4>1, FromString
      <4> QED BY <4>1, <4>2
    <3>3. c \in Characters \ {NUL} /\ <<c>> \in Strings
      BY <2>3 DEF Strings
    <3> HIDE DEF e, s
    <3>4. Append(e, c) = e \o <<c>>
      BY <2>1, <3>3, AppendIsConcat DEF e, Strings
    <3>5. r \in Strings /\ (e \o <<c>>) \o s = e \o r
      BY <2>1, <3>2, <3>3, ConcatProperties, ConcatAssociative DEF e, Strings
    <3>6. e \o r \in Strings
      BY <2>1, <3>5, Concat DEF e
    <3>7. Kept(t, c) = e \o r
      BY <3>1, <3>4, <3>5
    <3> HIDE DEF r
    <3> QED BY <1>2, <2>1, <3>5, <3>6, <3>7 DEF e
  <2> QED BY <2>2, <2>3
<1> QED BY <1>1, <1>2

-----------------------------------------------------------------------------
(* The steps *)

LEMMA InitInv ==
  ASSUME Init
  PROVE  IInv
<1>1. stage = "idle" /\ message = <<>> /\ read = <<>> /\ built = <<>> /\ scan = 0 /\ shown = Nothing
      /\ user = 0 /\ other = 0 /\ receivers = {}
  BY DEF Init
<1>2. Known
  BY DEF Init, Known, Wants
<1>3. saved \in [{"type", "wid", "x", "y", "z", "w", "h"} -> Nat]
  <2>1. DOMAIN window = {"type", "wid", "x", "y", "z", "w", "h"}
    BY <1>2, WindowAssumption DEF Known
  <2>2. saved = [f \in DOMAIN window |-> 0]
    BY DEF Init
  <2> QED BY <2>1, <2>2
<1>4. TypeOK
  <2>1. message \in Strings /\ built \in Seq(Slots)
        /\ read \in Seq([uid : Nat, length : Nat, name : Strings])
    BY <1>1 DEF Strings
  <2>2. shown \in [kind : {"nothing", "line", "window", "im", "accepted", "refused", "list"},
                   uid : Nat, text : Strings]
    <3>1. <<>> \in Strings
      BY DEF Strings
    <3>2. shown = [kind |-> "nothing", uid |-> 0, text |-> <<>>]
      BY <1>1 DEF Nothing
    <3> QED BY <3>1, <3>2
  <2> QED BY <1>1, <1>3, <2>1, <2>2 DEF TypeOK
<1>5. Sent /\ Answered /\ Listing /\ Reading
  BY <1>1 DEF Sent, Answered, Listing, Reading
<1>6. RequestArrives /\ AnswersFit /\ ListSurvives
  BY <1>1 DEF RequestArrives, AnswersFit, ListSurvives, Misread
<1> QED BY <1>2, <1>4, <1>5, <1>6 DEF IInv

LEMMA AskStep ==
  ASSUME IInv, Ask
  PROVE  IInv'
<1>1. /\ stage = "idle" /\ stage' = "sent" /\ message' = Request
      /\ want' = want /\ window' = window /\ name' = name /\ saved' = saved
      /\ user' = user /\ other' = other /\ receivers' = receivers
      /\ scan' = scan /\ built' = built /\ read' = read /\ shown' = shown
  BY DEF Ask, serverVars, listVars
<1>2. Known /\ TypeOK
  BY DEF IInv
<1>3. Known'
  BY <1>1, <1>2 DEF Known
<1>4. message' \in Strings
  BY <1>1, <1>2, Requested DEF Known
<1>5. TypeOK'
  BY <1>1, <1>2, <1>4 DEF TypeOK
<1>6. Sent'
  <2> SUFFICES ASSUME NEW w \in Wants, NEW v \in Windows, NEW m \in Strings,
                      want' = w, window' = v, message' = m
               PROVE  RequestReads(w, v, m)
    BY DEF Sent
  <2>1. want = w /\ window = v /\ m = Request
    BY <1>1
  <2> QED BY <2>1, Requested
<1>7. read = <<>>
  BY <1>1 DEF IInv, Reading
<1>8. (Answered /\ Listing /\ Reading)'
  BY <1>1, <1>7 DEF Answered, Listing, Reading
<1>9. (RequestArrives /\ AnswersFit /\ ListSurvives)'
  BY <1>1, <1>7 DEF RequestArrives, AnswersFit, ListSurvives, Misread
<1> QED BY <1>3, <1>5, <1>6, <1>8, <1>9 DEF IInv

\* A server that stops or drops a message answers nothing.
LEMMA StopsStep ==
  ASSUME IInv, stage = "sent", NEW how \in {"crashed", "dropped"}, Stops(how),
         how = "crashed" => want.kind = "im"
  PROVE  IInv'
<1>1. /\ stage' = how /\ message' = message
      /\ want' = want /\ window' = window /\ name' = name /\ saved' = saved
      /\ user' = user /\ other' = other /\ receivers' = receivers
      /\ scan' = scan /\ built' = built /\ read' = read /\ shown' = shown
  BY DEF Stops, serverVars, listVars
<1>2. Known' /\ TypeOK'
  BY <1>1 DEF IInv, Known, TypeOK
<1>3. read = <<>>
  BY DEF IInv, Reading
<1>4. (Sent /\ Answered /\ Listing /\ Reading)'
  BY <1>1, <1>3 DEF Sent, Answered, Listing, Reading
<1>5. RequestArrives'
  BY <1>1 DEF RequestArrives
<1>6. (AnswersFit /\ ListSurvives)'
  BY <1>1, <1>3 DEF AnswersFit, ListSurvives, Misread
<1> QED BY <1>2, <1>4, <1>5, <1>6 DEF IInv

\* A server that answers, for the senders and answers the handlers have.
LEMMA ServeStep ==
  ASSUME IInv, stage = "sent", NEW u \in Nat, NEW o \in Nat, NEW whom, NEW answer, Serve(u, o, whom, answer),
         want.kind \notin {"list", "window", "yell"},
         {u, o} \subseteq Slots => whom \subseteq Slots /\ answer \in Strings,
         want.kind # "im" => u \in ReadAs(want.uid) /\ o = IF want.kind = "vote" THEN want.to ELSE want.uid,
         u \in Slots => \A w \in Wants, x \in Strings : want = w /\ name[u] = x => AnswerReads(w, u, x, answer),
         want.kind \in {"chat", "status"} => whom = Slots,
         want.kind = "vote" => whom = {u},
         want.kind = "im" => u = Number(want.text, 0, 3) /\ o \in ReadAs(want.uid) /\ whom \subseteq ReadAs(want.uid)
  PROVE  IInv'
<1>1. /\ user' = u /\ other' = o
      /\ want' = want /\ window' = window /\ name' = name /\ saved' = saved
      /\ scan' = scan /\ built' = built /\ read' = read /\ shown' = shown
  BY DEF Serve, listVars
<1>2. \/ {u, o} \subseteq Slots /\ receivers' = whom /\ message' = answer /\ stage' = "answered"
      \/ stage' = "crashed" /\ receivers' = receivers /\ message' = message
  BY DEF Serve
<1>3. Known'
  BY <1>1 DEF IInv, Known
<1>4. TypeOK'
  <2>1. message' \in Strings /\ receivers' \subseteq Slots
    BY <1>2 DEF IInv, TypeOK
  <2> QED BY <1>1, <1>2, <2>1 DEF IInv, TypeOK
<1>5. read = <<>>
  BY DEF IInv, Reading
<1>6. (Sent /\ Listing /\ Reading)'
  BY <1>1, <1>2, <1>5 DEF Sent, Listing, Reading
<1>7. Answered'
  <2>1. CASE stage' = "crashed"
    BY <2>1 DEF Answered
  <2>2. CASE {u, o} \subseteq Slots /\ receivers' = whom /\ message' = answer /\ stage' = "answered"
    <3>1. ASSUME NEW w \in Wants, NEW s \in Slots, NEW x \in Strings, NEW m \in Strings,
                 want' = w, user' = s, message' = m, name'[s] = x
          PROVE  AnswerReads(w, s, x, m)
      <4>1. want = w /\ u = s /\ answer = m /\ name[u] = x /\ u \in Slots
        BY <3>1, <2>2, <1>1
      <4> QED BY <4>1
    <3>2. u \in Slots
      BY <2>2
    <3> QED BY <1>1, <2>2, <3>1, <3>2 DEF Answered, ReadAs
  <2> QED BY <1>2, <2>1, <2>2
<1>8. RequestArrives'
  BY <1>1, <1>2 DEF RequestArrives, ReadAs
<1>9. (AnswersFit /\ ListSurvives)'
  BY <1>1, <1>2 DEF AnswersFit, ListSurvives
<1> QED BY <1>3, <1>4, <1>6, <1>7, <1>8, <1>9 DEF IInv

\* What is asked, by the type of the message.
LEMMA AskedFor ==
  ASSUME IInv, stage = "sent"
  PROVE  /\ want \in Wants /\ window \in Windows /\ message \in Strings /\ RequestReads(want, window, message)
         /\ get_type(message) = CMD_TEXT /\ get_text_type(message) = TEXT_MAIN_CHAT => want.kind = "chat"
         /\ get_type(message) = CMD_TEXT /\ get_text_type(message) = TEXT_STATUS => want.kind = "status"
         /\ get_type(message) = CMD_TEXT /\ get_text_type(message) = TEXT_IM => want.kind = "im"
         /\ get_type(message) = CMD_VOTE => want.kind = "vote"
         /\ get_type(message) = CMD_LURK => want.kind = "lurk"
         /\ get_type(message) = CMD_USERLIST => want.kind = "list"
         /\ get_type(message) = CMD_WINDOW => want.kind = "window"
<1>1. want \in Wants /\ window \in Windows /\ message \in Strings
  BY DEF IInv, Known, TypeOK
<1>2. RequestReads(want, window, message)
  BY <1>1 DEF IInv, Sent
<1>3. want.kind \in {"chat", "status", "im", "yell", "vote", "lurk", "list", "window"}
  BY <1>1, Inputs
<1> DEFINE t == get_type(message) s == get_text_type(message) k == want.kind
<1>4. /\ k = "chat" => t = 0 /\ s = 1
      /\ k = "status" => t = 0 /\ s = 4
      /\ k = "im" => t = 0 /\ s = 8
      /\ k = "yell" => t = 4
      /\ k = "vote" => t = 2
      /\ k = "lurk" => t = 5
      /\ k = "list" => t = 3
      /\ k = "window" => t = 1
  BY <1>2 DEF RequestReads, CMD_TEXT, CMD_WINDOW, CMD_VOTE, CMD_USERLIST, CMD_ERROR, CMD_LURK,
              TEXT_MAIN_CHAT, TEXT_STATUS, TEXT_IM
<1> HIDE DEF t, s, k
<1>5. /\ t = 0 /\ s = 1 => k = "chat"
      /\ t = 0 /\ s = 4 => k = "status"
      /\ t = 0 /\ s = 8 => k = "im"
      /\ t = 2 => k = "vote"
      /\ t = 5 => k = "lurk"
      /\ t = 3 => k = "list"
      /\ t = 1 => k = "window"
  <2>1. k \in {"chat", "status", "im", "yell", "vote", "lurk", "list", "window"}
    BY <1>3 DEF k
  <2> QED BY <1>4, <2>1
<1> QED
  BY <1>1, <1>2, <1>5 DEF t, s, k, CMD_TEXT, CMD_WINDOW, CMD_VOTE, CMD_USERLIST, CMD_ERROR, CMD_LURK,
              TEXT_MAIN_CHAT, TEXT_STATUS, TEXT_IM

LEMMA StackCharacters ==
  ASSUME NEW c \in Stack
  PROVE  c \in Characters
BY StackAssumption

LEMMA UserNat ==
  ASSUME NEW m \in Strings, NEW c \in Stack
  PROVE  get_user(m, c) \in Nat /\ get_from_user(m) \in Nat /\ Lurking(m, c) \in Nat
<1>1. 2 \in Nat /\ 4 \in Nat /\ 7 \in Nat /\ c \in Characters
  BY StackCharacters
<1>2. Number(m, 7, 3) \in Nat
  BY <1>1, NumberNat
<1> QED BY <1>1, <1>2, LooseNat DEF get_user, get_from_user, Lurking

LEMMA TextString ==
  ASSUME NEW m \in Strings
  PROVE  get_text(m) \in Strings
<1> DEFINE l == Len(m)
<1>1. l \in Nat /\ l <= Len(m)
  BY DEF Strings
<1> HIDE DEF l
<1>2. SubSeq(m, 10 + 1, l) \in Strings /\ SubSeq(m, 7 + 1, l) \in Strings
  BY <1>1, FromString
<1> QED BY <1>2 DEF get_text, From, l

LEMMA SaysString ==
  ASSUME Known, NEW u \in Slots
  PROVE  Says(u) \in Strings /\ name[u] \in Strings /\ Says(u) = name[u] \o <<Other>>
<1>1. name[u] \in Strings
  BY NamesFit DEF Known
<1>2. <<Other>> \in Strings
  <2>1. Other \in Characters \ {NUL}
    BY DEF Other, Characters, NUL
  <2> QED BY <2>1 DEF Strings
<1> QED BY <1>1, <1>2, Concat DEF Says

LEMMA ServeChatStep ==
  ASSUME IInv, stage = "sent", ServeChat
  PROVE  IInv'
<1>1. want \in Wants /\ message \in Strings /\ RequestReads(want, window, message) /\ want.kind = "chat"
  BY AskedFor DEF ServeChat
<1>2. get_text(message) = want.text /\ \A c \in Stack : get_user(message, c) \in ReadAs(want.uid)
  BY <1>1 DEF RequestReads
<1>3. PICK c \in Stack :
        LET u == get_user(message, c)
        IN Serve(u, want.uid, Slots, create_text_message(TEXT_MAIN_CHAT, u, Says(u) \o get_text(message)))
  BY DEF ServeChat
<1> DEFINE u == get_user(message, c)
           text == Says(u) \o want.text
           answer == create_text_message(TEXT_MAIN_CHAT, u, text)
<1>4. u \in Nat /\ u \in ReadAs(want.uid)
  BY <1>1, <1>2, UserNat
<1>5. Serve(u, want.uid, Slots, answer)
  BY <1>2, <1>3
<1>6. want.uid \in Nat /\ want.uid \in Slots /\ want.text \in Strings
  BY <1>1, Inputs, SlotFits
<1>7. Known
  BY DEF IInv
<1> HIDE DEF u
<1>8. ASSUME u \in Slots
      PROVE  /\ answer \in Strings /\ get_type(answer) = CMD_TEXT /\ get_text_type(answer) = TEXT_MAIN_CHAT
             /\ get_text(answer) = Says(u) \o want.text /\ Says(u) = name[u] \o <<Other>>
  <2>1. text \in Strings /\ Fits(u, 3) /\ Says(u) = name[u] \o <<Other>>
    BY <1>6, <1>7, <1>8, SaysString, SlotFits, Concat
  <2> HIDE DEF text
  <2>2. answer \in Strings /\ get_type(answer) = CMD_TEXT /\ get_text_type(answer) = TEXT_MAIN_CHAT
        /\ get_text(answer) = text
    BY <2>1, TextReads
  <2> QED BY <2>1, <2>2 DEF text
<1> HIDE DEF answer
<1>9. ASSUME u \in Slots, NEW w \in Wants, NEW x \in Strings, want = w, name[u] = x
      PROVE  AnswerReads(w, u, x, answer)
  <2>1. w.kind = "chat" /\ get_type(answer) = CMD_TEXT /\ get_text_type(answer) = TEXT_MAIN_CHAT
        /\ get_text(answer) = x \o <<Other>> \o w.text
    BY <1>1, <1>8, <1>9
  <2> QED BY <2>1 DEF AnswerReads
<1>10. want.kind \notin {"list", "window", "yell"} /\ want.kind \notin {"vote", "im"} /\ want.kind = "chat"
  BY <1>1
<1> QED BY <1>4, <1>5, <1>6, <1>8, <1>9, <1>10, ServeStep

LEMMA ServeStatusStep ==
  ASSUME IInv, stage = "sent", ServeStatus
  PROVE  IInv'
<1>1. want \in Wants /\ message \in Strings /\ RequestReads(want, window, message) /\ want.kind = "status"
  BY AskedFor DEF ServeStatus
<1>2. get_text(message) = want.text /\ \A c \in Stack : get_user(message, c) \in ReadAs(want.uid)
  BY <1>1 DEF RequestReads
<1>3. PICK c \in Stack, d \in Stack :
        LET u == get_user(message, c)
        IN IF u \in Slots
           THEN Serve(u, want.uid, Slots,
                      create_text_message(TEXT_STATUS, u, Says(u) \o Kept(get_text(message), d)))
           ELSE Stops("dropped")
  BY DEF ServeStatus
<1> DEFINE u == get_user(message, c)
           kept == Kept(want.text, d)
           text == Says(u) \o kept
           answer == create_text_message(TEXT_STATUS, u, text)
<1>4. u \in Nat /\ u \in ReadAs(want.uid)
  BY <1>1, <1>2, UserNat
<1>5. (u \in Slots /\ Serve(u, want.uid, Slots, answer)) \/ Stops("dropped")
  BY <1>2, <1>3
<1>6. want.uid \in Nat /\ want.uid \in Slots /\ want.text \in Strings
  BY <1>1, Inputs, SlotFits
<1>7. Known
  BY DEF IInv
<1>a. kept \in Strings
  BY <1>6, StackCharacters, KeptString
<1> HIDE DEF u
<1>8. ASSUME u \in Slots
      PROVE  /\ answer \in Strings /\ get_type(answer) = CMD_TEXT /\ get_text_type(answer) = TEXT_STATUS
             /\ get_text(answer) = Says(u) \o kept /\ Says(u) = name[u] \o <<Other>>
             /\ \A e \in Stack : get_user(answer, e) \in ReadAs(u)
  <2> HIDE DEF kept
  <2>1. text \in Strings /\ Fits(u, 3) /\ Says(u) = name[u] \o <<Other>>
    BY <1>a, <1>7, <1>8, SaysString, SlotFits, Concat
  <2> HIDE DEF text
  <2>2. answer \in Strings /\ get_type(answer) = CMD_TEXT /\ get_text_type(answer) = TEXT_STATUS
        /\ get_text(answer) = text /\ \A e \in Stack : get_user(answer, e) \in ReadAs(u)
    BY <2>1, TextReads
  <2> QED BY <2>1, <2>2 DEF text
<1> HIDE DEF answer
<1>9. ASSUME u \in Slots, NEW w \in Wants, NEW x \in Strings, want = w, name[u] = x
      PROVE  AnswerReads(w, u, x, answer)
  <2>1. w.kind = "status" /\ get_type(answer) = CMD_TEXT /\ get_text_type(answer) = TEXT_STATUS
        /\ get_text(answer) = x \o <<Other>> \o Kept(w.text, d)
        /\ \A e \in Stack : get_user(answer, e) \in ReadAs(u)
    BY <1>1, <1>8, <1>9
  <2> QED BY <2>1 DEF AnswerReads
<1>10. want.kind \notin {"list", "window", "yell"} /\ want.kind \notin {"vote", "im"} /\ want.kind = "status"
  BY <1>1
<1>11. CASE u \in Slots /\ Serve(u, want.uid, Slots, answer)
  BY <1>11, <1>4, <1>6, <1>8, <1>9, <1>10, ServeStep
<1>12. CASE Stops("dropped")
  BY <1>12, StopsStep
<1> QED BY <1>5, <1>11, <1>12 DEF answer

LEMMA ServeImStep ==
  ASSUME IInv, stage = "sent", ServeIm
  PROVE  IInv'
<1>1. want \in Wants /\ message \in Strings /\ RequestReads(want, window, message) /\ want.kind = "im"
  BY AskedFor DEF ServeIm
<1>a. /\ get_from_user(message) = Number(want.text, 0, 3) /\ get_text(message) = From(want.text, 3)
      /\ \A c \in Stack : get_user(message, c) \in ReadAs(want.uid)
  BY <1>1 DEF RequestReads
<1>b. want.text \in Strings /\ 3 \in Nat /\ 0 \in Nat /\ 3 + 0 = 3 /\ 3 + 3 = 6
  BY <1>1, Inputs
<1>c. LET t == From(want.text, 3)
      IN /\ t \in Strings /\ Number(t, 0, 3) = Number(want.text, 3, 3) /\ From(t, 3) = From(want.text, 6)
         /\ Len(want.text) >= 6 => Len(t) >= 3
  <2>1. Number(want.text, 3 + 0, 3) = Number(From(want.text, 3), 0, 3)
    BY <1>b, FromShifts
  <2>2. /\ From(want.text, 3) \in Strings /\ From(want.text, 3 + 3) = From(From(want.text, 3), 3)
        /\ Len(From(want.text, 3)) = IF 3 <= Len(want.text) THEN Len(want.text) - 3 ELSE 0
    BY <1>b, FromShifts
  <2>3. Len(want.text) \in Nat
    BY <1>b DEF Strings
  <2>4. Len(want.text) >= 6 => Len(From(want.text, 3)) >= 3
    BY <2>2, <2>3
  <2> QED BY <1>b, <2>1, <2>2, <2>4
<1>2. CASE Stops("crashed")
  BY <1>1, <1>2, StopsStep
<1>3. ASSUME NEW c \in Stack,
             Serve(get_from_user(message), get_user(message, c), {get_user(message, c)},
                   create_im_message(get_from_user(message), get_user(message, c), get_text(message)))
      PROVE  IInv'
  <2> DEFINE u == get_from_user(message) to == get_user(message, c)
             answer == create_im_message(u, to, get_text(message))
  <2>1. u \in Nat /\ to \in Nat /\ get_text(message) \in Strings
    BY <1>1, UserNat, TextString
  <2>2. Serve(u, to, {to}, answer)
    BY <1>3
  <2>a. u = Number(want.text, 0, 3) /\ to \in ReadAs(want.uid)
    BY <1>a
  <2> HIDE DEF u, to
  <2>3. ASSUME u \in Slots
        PROVE  /\ answer \in Strings /\ get_type(answer) = CMD_TEXT /\ get_text_type(answer) = TEXT_IM
               /\ get_from_user(answer) = Number(want.text, 3, 3)
               /\ Len(want.text) >= 6 => Len(answer) >= 10 /\ get_text(answer) = From(want.text, 6)
    <3> DEFINE t == From(want.text, 3)
    <3>1. Fits(u, 3)
      BY <2>3, SlotFits
    <3>2. /\ t \in Strings /\ Number(t, 0, 3) = Number(want.text, 3, 3) /\ From(t, 3) = From(want.text, 6)
          /\ Len(want.text) >= 6 => Len(t) >= 3
      BY <1>c
    <3>3. answer = create_im_message(u, to, t)
      BY <1>a
    <3> HIDE DEF t, answer
    <3>4. /\ answer \in Strings /\ get_type(answer) = CMD_TEXT /\ get_text_type(answer) = TEXT_IM
          /\ get_from_user(answer) = Number(t, 0, 3) /\ get_text(answer) = From(t, 3)
          /\ Len(answer) = 7 + Len(t)
      BY <3>1, <3>2, <3>3, ImReads
    <3>5. Len(t) \in Nat
      BY <3>2 DEF Strings
    <3> QED BY <3>2, <3>4, <3>5
  <2> HIDE DEF answer
  <2>4. ASSUME u \in Slots, NEW w \in Wants, NEW x \in Strings, want = w, name[u] = x
        PROVE  AnswerReads(w, u, x, answer)
    BY <1>1, <2>3, <2>4 DEF AnswerReads
  <2>5. want.kind \notin {"list", "window", "yell"} /\ want.kind # "vote" /\ want.kind \notin {"chat", "status"}
    BY <1>1
  <2>6. {u, to} \subseteq Slots => {to} \subseteq Slots /\ answer \in Strings
    BY <2>3
  <2>7. {to} \subseteq ReadAs(want.uid)
    BY <2>a
  <2> QED BY <1>1, <2>1, <2>2, <2>a, <2>4, <2>5, <2>6, <2>7, ServeStep
<1> QED BY <1>2, <1>3 DEF ServeIm

LEMMA ServeVoteStep ==
  ASSUME IInv, stage = "sent", ServeVote
  PROVE  IInv'
<1>1. want \in Wants /\ message \in Strings /\ RequestReads(want, window, message) /\ want.kind = "vote"
  BY AskedFor DEF ServeVote
<1>2. Number(message, 7, 3) = want.to /\ \A c \in Stack : get_user(message, c) \in ReadAs(want.uid)
  BY <1>1 DEF RequestReads
<1>3. PICK c \in Stack, answer \in {VOTE_ACCEPTED, VOTE_NOT_ACCEPTED} :
        Serve(get_user(message, c), Number(message, 7, 3), {get_user(message, c)},
              VoteMessage(answer, get_user(message, c), Number(message, 7, 3)))
  BY DEF ServeVote
<1> DEFINE u == get_user(message, c) m == VoteMessage(answer, u, want.to)
<1>4. u \in Nat /\ u \in ReadAs(want.uid)
  BY <1>1, <1>2, UserNat
<1>5. Serve(u, want.to, {u}, m)
  BY <1>2, <1>3
<1>6. want.to \in Nat /\ Fits(want.to, 3)
  BY <1>1, Inputs, SlotFits
<1>7. answer \in 0..9
  BY DEF VOTE_ACCEPTED, VOTE_NOT_ACCEPTED
<1> HIDE DEF u
<1>8. ASSUME u \in Slots
      PROVE  m \in Strings /\ get_type(m) = CMD_VOTE /\ Number(m, 7, 3) = want.to
  <2>1. Fits(u, 3)
    BY <1>8, SlotFits
  <2> QED BY <1>6, <1>7, <2>1, VoteReads
<1> HIDE DEF m
<1>9. ASSUME u \in Slots, NEW w \in Wants, NEW x \in Strings, want = w, name[u] = x
      PROVE  AnswerReads(w, u, x, m)
  <2>1. w.kind = "vote" /\ get_type(m) = CMD_VOTE /\ Number(m, 7, 3) = w.to
    BY <1>1, <1>8, <1>9
  <2> QED BY <2>1 DEF AnswerReads
<1>10. want.kind \notin {"list", "window", "yell"} /\ want.kind \notin {"chat", "status", "im"} /\ want.kind = "vote"
  BY <1>1
<1> QED BY <1>4, <1>5, <1>6, <1>8, <1>9, <1>10, ServeStep

LEMMA ServeLurkStep ==
  ASSUME IInv, stage = "sent", ServeLurk
  PROVE  IInv'
<1>1. want \in Wants /\ message \in Strings /\ RequestReads(want, window, message) /\ want.kind = "lurk"
  BY AskedFor DEF ServeLurk
<1>2. \A c \in Stack : Lurking(message, c) \in ReadAs(want.uid)
  BY <1>1 DEF RequestReads
<1>3. PICK c \in Stack :
        Serve(Lurking(message, c), want.uid, Slots,
              create_text_message(TEXT_MAIN_CHAT, Lurking(message, c), Says(Lurking(message, c))))
  BY DEF ServeLurk
<1> DEFINE u == Lurking(message, c) answer == create_text_message(TEXT_MAIN_CHAT, u, Says(u))
<1>4. u \in Nat /\ u \in ReadAs(want.uid)
  BY <1>1, <1>2, UserNat
<1>5. Serve(u, want.uid, Slots, answer)
  BY <1>3
<1>6. want.uid \in Nat
  BY <1>1, Inputs, SlotFits
<1> HIDE DEF u
<1>8. ASSUME u \in Slots
      PROVE  answer \in Strings
  <2>1. Says(u) \in Strings /\ Fits(u, 3)
    BY <1>8, SaysString, SlotFits DEF IInv
  <2> QED BY <2>1, TextReads
<1> HIDE DEF answer
<1>9. \A w \in Wants, x \in Strings : want = w /\ name[u] = x => AnswerReads(w, u, x, answer)
  BY <1>1 DEF AnswerReads
<1>10. want.kind \notin {"list", "window", "yell"} /\ want.kind \notin {"chat", "status", "im"} /\ want.kind # "vote"
  BY <1>1
<1> QED BY <1>4, <1>5, <1>6, <1>8, <1>9, <1>10, ServeStep

\* The server begins the list with who asked for it.
LEMMA ServeListStep ==
  ASSUME IInv, stage = "sent", ServeList
  PROVE  IInv'
<1>1. want \in Wants /\ message \in Strings /\ RequestReads(want, window, message) /\ want.kind = "list"
  BY AskedFor DEF ServeList
<1>2. \A c \in Stack : get_user(message, c) \in ReadAs(want.uid)
  BY <1>1 DEF RequestReads
<1>3. PICK c \in Stack :
        LET u == get_user(message, c)
        IN /\ user' = u /\ other' = want.uid
           /\ IF u \in Slots
              THEN /\ message' = create_first_user(USER_LIST_CURRENT, u)
                   /\ built' = <<u>> /\ receivers' = {u} /\ stage' = "listing"
              ELSE stage' = "crashed" /\ UNCHANGED <<message, built, receivers>>
  BY DEF ServeList
<1> DEFINE u == get_user(message, c)
           m == Command(CMD_USERLIST, USER_LIST_CURRENT) \o Field(u, 3) \o EntryOf(name[u], u)
<1>4. u \in Nat /\ u \in ReadAs(want.uid)
  BY <1>1, <1>2, UserNat
<1>5. /\ user' = u /\ other' = want.uid
      /\ \/ u \in Slots /\ message' = create_first_user(USER_LIST_CURRENT, u) /\ built' = <<u>>
            /\ receivers' = {u} /\ stage' = "listing"
         \/ stage' = "crashed" /\ message' = message /\ built' = built /\ receivers' = receivers
  BY <1>3
<1>6. /\ scan' = 1
      /\ want' = want /\ window' = window /\ saved' = saved /\ name' = name
      /\ read' = read /\ shown' = shown
  BY DEF ServeList
<1>7. create_first_user(USER_LIST_CURRENT, u) = m
  BY DEF create_first_user, Entry, EntryOf
<1>8. want.uid \in Nat
  BY <1>1, Inputs, SlotFits
<1>9. name \in Namings
  BY DEF IInv, Known
<1> HIDE DEF u, m
<1>10. ASSUME u \in Slots
       PROVE  m \in Strings /\ \E pos : Placed(m, <<u>>, name, pos)
  BY <1>9, <1>10, PlacedFirst DEF m
<1>11. Known'
  BY <1>6 DEF IInv, Known
<1>12. TypeOK'
  <2>1. stage' \in {"listing", "crashed"} /\ message' \in Strings
    BY <1>5, <1>7, <1>10 DEF IInv, TypeOK
  <2>2. receivers' \subseteq Slots
    BY <1>5 DEF IInv, TypeOK
  <2>3. built' \in Seq(Slots)
    <3>1. u \in Slots => <<u>> \in Seq(Slots)
      OBVIOUS
    <3>2. built \in Seq(Slots)
      BY DEF IInv, TypeOK
    <3> QED BY <1>5, <3>1, <3>2
  <2> QED BY <1>4, <1>5, <1>6, <1>8, <2>1, <2>2, <2>3 DEF IInv, TypeOK
<1>13. (Sent /\ Answered)'
  BY <1>5 DEF Sent, Answered
<1>14. read = <<>>
  BY DEF IInv, Reading
<1>15. Listing'
  <2>1. CASE stage' = "crashed"
    BY <2>1 DEF Listing
  <2>2. CASE /\ u \in Slots /\ message' = create_first_user(USER_LIST_CURRENT, u) /\ built' = <<u>>
             /\ stage' = "listing"
    <3>1. PICK pos : Placed(m, <<u>>, name, pos)
      BY <1>10, <2>2
    <3>2. <<u>> \in Seq(Slots) /\ m \in Strings /\ <<u>> # <<>>
      BY <1>10, <2>2
    <3>3. message' = m /\ built' = <<u>> /\ name' = name /\ stage' # "reading"
      BY <1>6, <1>7, <2>2
    <3>4. \E k \in Strings, b \in Seq(Slots), f \in Namings : \E p :
            message' = k /\ built' = b /\ name' = f /\ Placed(k, b, f, p)
      BY <1>9, <3>1, <3>2, <3>3
    <3> QED BY <3>2, <3>3, <3>4 DEF Listing
  <2> QED BY <1>5, <2>1, <2>2
<1>16. Reading'
  <2>1. 1 \in Slots
    BY SlotAssumption DEF Slots, Numbers
  <2> QED BY <1>1, <1>5, <1>6, <1>14, <2>1 DEF Reading
<1>17. RequestArrives'
  BY <1>1, <1>4, <1>5, <1>6 DEF RequestArrives, ReadAs
<1>18. (AnswersFit /\ ListSurvives)'
  BY <1>1, <1>5, <1>6, <1>14 DEF AnswersFit, ListSurvives, Misread
<1> QED BY <1>11, <1>12, <1>13, <1>15, <1>16, <1>17, <1>18 DEF IInv

\* A window is saved as it arrived.
LEMMA ServeWindowStep ==
  ASSUME IInv, stage = "sent", ServeWindow
  PROVE  IInv'
<1>1. want \in Wants /\ window \in Windows /\ message \in Strings
      /\ RequestReads(want, window, message) /\ want.kind = "window"
  BY AskedFor DEF ServeWindow
<1>2. \A c \in Stack :
            /\ get_user(message, c) \in ReadAs(window.wid)
            /\ get_window(message, c).wid \in ReadAs(window.wid)
            /\ get_window(message, c) = [window EXCEPT !.wid = get_window(message, c).wid]
  BY <1>1 DEF RequestReads
<1>3. PICK c \in Stack, d \in Stack : saved' = get_window(message, c) /\ user' = get_user(message, d)
  BY DEF ServeWindow
<1>4. /\ user' \in ReadAs(window.wid) /\ saved'.wid \in ReadAs(window.wid)
      /\ saved' = [window EXCEPT !.wid = saved'.wid]
  BY <1>2, <1>3
<1>5. user' \in Nat
  BY <1>1, <1>3, UserNat
<1>6. saved' \in [{"type", "wid", "x", "y", "z", "w", "h"} -> Nat]
  <2>1. 2 \in Nat /\ 4 \in Nat /\ 7 \in Nat /\ 11 \in Nat /\ 15 \in Nat /\ 17 \in Nat /\ 21 \in Nat
        /\ c \in Characters
    BY StackCharacters
  <2>2. Number(message, 2, 2) \in Nat /\ Number(message, 15, 2) \in Nat
    BY <1>1, <2>1, NumberNat
  <2>3. /\ Number(message, 7, 4) \in Nat /\ Number(message, 11, 4) \in Nat
        /\ Number(message, 17, 4) \in Nat /\ Number(message, 21, 4) \in Nat
    BY <1>1, <2>1, NumberNat
  <2>4. Loose(message, 4, 3, c) \in Nat
    BY <1>1, <2>1, LooseNat
  <2> QED BY <1>3, <2>2, <2>3, <2>4 DEF get_window
<1>7. /\ other' = want.uid /\ stage' = "saved"
      /\ want' = want /\ window' = window /\ name' = name /\ message' = message
      /\ receivers' = receivers /\ scan' = scan /\ built' = built /\ read' = read /\ shown' = shown
  BY DEF ServeWindow, listVars
<1>8. want.uid \in Nat
  BY <1>1, Inputs, SlotFits
<1>9. Known' /\ TypeOK'
  BY <1>5, <1>6, <1>7, <1>8 DEF IInv, Known, TypeOK
<1>10. read = <<>>
  BY DEF IInv, Reading
<1>11. (Sent /\ Answered /\ Listing /\ Reading)'
  BY <1>7 DEF Sent, Answered, Listing, Reading
<1>12. RequestArrives'
  BY <1>1, <1>4, <1>7 DEF RequestArrives, ReadAs
<1>13. (AnswersFit /\ ListSurvives)'
  BY <1>1, <1>7, <1>10 DEF AnswersFit, ListSurvives, Misread
<1> QED BY <1>9, <1>11, <1>12, <1>13 DEF IInv

LEMMA HandleMessageStep ==
  ASSUME IInv, HandleMessage
  PROVE  IInv'
<1>1. stage = "sent"
  BY DEF HandleMessage
<1>2. CASE Drop
  BY <1>1, <1>2, StopsStep DEF Drop
<1> QED
  BY <1>1, <1>2, ServeChatStep, ServeStatusStep, ServeImStep, ServeVoteStep, ServeLurkStep, ServeListStep,
     ServeWindowStep DEF HandleMessage

\* The other users follow.
LEMMA CreateNextUserStep ==
  ASSUME IInv, CreateNextUser
  PROVE  IInv'
<1>1. /\ stage = "listing" /\ scan' = scan + 1
      /\ message' = IF Listed THEN message \o Entry(scan) ELSE message
      /\ built' = IF Listed THEN Append(built, scan) ELSE built
      /\ stage' = IF scan = N THEN "answered" ELSE "listing"
      /\ want' = want /\ window' = window /\ saved' = saved /\ name' = name
      /\ user' = user /\ other' = other /\ receivers' = receivers
      /\ read' = read /\ shown' = shown
  BY DEF CreateNextUser, serverVars
<1>2. scan \in Slots /\ read = <<>> /\ TypeOK /\ Known
  BY <1>1 DEF IInv, Reading
<1>a. want.kind = "list"
  BY <1>1 DEF IInv, Reading
<1>3. Entry(scan) = EntryOf(name[scan], scan)
  BY DEF Entry, EntryOf
<1>4. scan \in Nat /\ name \in Namings /\ EntryOf(name[scan], scan) \in Strings
  BY <1>2, SlotFits, EntryHas DEF Known
<1>5. TypeOK'
  <2>1. message' \in Strings
    BY <1>1, <1>2, <1>3, <1>4, Concat DEF TypeOK
  <2>2. built' \in Seq(Slots)
    BY <1>1, <1>2 DEF TypeOK
  <2>3. scan' \in Nat /\ stage' \in {"answered", "listing"}
    BY <1>1, <1>4
  <2> QED BY <1>1, <1>2, <2>1, <2>2, <2>3 DEF TypeOK
<1>6. Known' /\ Sent' /\ Answered'
  <2>1. \A w \in Wants, u \in Slots, x \in Strings, m \in Strings :
          want = w => AnswerReads(w, u, x, m)
    BY <1>a DEF AnswerReads
  <2> QED BY <1>1, <1>2, <1>a, <2>1 DEF Known, Sent, Answered
<1>7. ASSUME want.kind = "list"
      PROVE  /\ built' # <<>>
             /\ \E m \in Strings, b \in Seq(Slots), f \in Namings : \E pos :
                  message' = m /\ built' = b /\ name' = f /\ Placed(m, b, f, pos)
  <2>1. built # <<>> /\ \E m \in Strings, b \in Seq(Slots), f \in Namings : \E pos :
          message = m /\ built = b /\ name = f /\ Placed(m, b, f, pos)
    BY <1>1, <1>7 DEF IInv, Listing
  <2>a2. PICK m \in Strings, b \in Seq(Slots), f \in Namings : \E pos :
          message = m /\ built = b /\ name = f /\ Placed(m, b, f, pos)
    BY <2>1
  <2>2. PICK pos :
          m \in Strings /\ b \in Seq(Slots) /\ f \in Namings /\ message = m /\ built = b /\ name = f /\ Placed(m, b, f, pos)
    BY <2>a2
  <2>3. CASE Listed
    <3>1. /\ m \o EntryOf(f[scan], scan) \in Strings
          /\ \E q : Placed(m \o EntryOf(f[scan], scan), Append(b, scan), f, q)
      BY <1>2, <2>2, PlacedNext
    <3>2. message' = m \o EntryOf(f[scan], scan) /\ built' = Append(b, scan) /\ name' = f
      BY <1>1, <1>3, <2>2, <2>3
    <3>3. Append(b, scan) \in Seq(Slots) /\ Append(b, scan) # <<>>
      BY <1>2, AppendProperties
    <3> QED BY <3>1, <3>2, <3>3
  <2>4. CASE ~Listed
    <3>1. message' = m /\ built' = b /\ name' = f
      BY <1>1, <2>2, <2>4
    <3> QED BY <2>1, <2>2, <3>1
  <2> QED BY <2>3, <2>4
<1>8. Listing'
  <2> SUFFICES ASSUME want.kind = "list"
               PROVE  Listing'
    BY <1>1 DEF Listing
  <2>1. stage' # "reading"
    BY <1>1
  <2> QED BY <1>7, <2>1 DEF Listing
<1>9. Reading'
  <2>1. stage' = "listing" => scan + 1 \in Slots
    <3>1. N \in Nat
      BY SlotAssumption DEF Numbers
    <3>2. stage' = "listing" => scan # N
      BY <1>1
    <3>3. scan # N => scan + 1 \in Slots
      BY <1>2, <3>1 DEF Slots
    <3> QED BY <3>2, <3>3
  <2> QED BY <1>1, <1>2, <1>a, <2>1 DEF Reading
<1>10. RequestArrives'
  BY <1>1, <1>a DEF IInv, RequestArrives, ReadAs
<1>11. (AnswersFit /\ ListSurvives)'
  BY <1>1, <1>2, <1>a DEF AnswersFit, ListSurvives, Misread
<1> QED BY <1>5, <1>6, <1>8, <1>9, <1>10, <1>11 DEF IInv

LEMMA ConcatTwice ==
  ASSUME NEW s \in Strings, NEW l \in Strings, NEW r \in Strings
  PROVE  (s \o l) \o r = s \o (l \o r)
BY ConcatAssociative DEF Strings

LEMMA StartsWithFront ==
  ASSUME NEW s \in Strings, NEW t \in Strings
  PROVE  SubSeq(s \o t, 1, Len(s)) = s
<1> DEFINE m == s \o t
<1>1. m \in Strings /\ Has(m, 0, s)
  BY Concat, HasSelf, HasLeft
<1> HIDE DEF m
<1> DEFINE a == 0
<1>2. a \in Nat /\ a + 1 = 1 /\ a + Len(s) = Len(s) /\ Len(s) \in Nat
  BY DEF Strings
<1>3. Has(m, a, s)
  BY <1>1
<1> HIDE DEF a
<1>4. SubSeq(m, a + 1, a + Len(s)) = s
  BY <1>1, <1>2, <1>3, PartReads
<1>5. SubSeq(m, 1, Len(s)) = s
  BY <1>2, <1>4
<1> QED BY <1>5 DEF m

\* A receiver shows a line, a status or an instant message.
LEMMA ShowTextStep ==
  ASSUME IInv, stage = "answered", ShowText
  PROVE  IInv'
<1>1. PICK c \in Stack, h \in Heap :
       shown' = [kind |-> IF get_text_type(message) = TEXT_IM THEN "im"
                          ELSE IF get_text_type(message) = TEXT_STATUS THEN "window" ELSE "line",
                 uid |-> IF get_text_type(message) = TEXT_IM THEN get_from_user(message)
                         ELSE get_user(message, c),
                 text |-> TextShown(h)]
  BY DEF ShowText
<1>2. /\ get_type(message) = CMD_TEXT /\ stage' = "shown"
      /\ want' = want /\ window' = window /\ saved' = saved /\ name' = name /\ message' = message
      /\ user' = user /\ other' = other /\ receivers' = receivers
      /\ scan' = scan /\ built' = built /\ read' = read
  BY DEF ShowText, serverVars, listVars
<1>3. TypeOK /\ Known /\ message \in Strings /\ want \in Wants
  BY DEF IInv, TypeOK, Known
<1>4. TextShown(h) \in Strings /\ get_user(message, c) \in Nat /\ get_from_user(message) \in Nat
  BY <1>3, TextAssumption, TextString, UserNat DEF TextShown
<1>5. TypeOK' /\ Known'
  <2>1. shown' \in [kind : {"nothing", "line", "window", "im", "accepted", "refused", "list"},
                    uid : Nat, text : Strings]
    BY <1>1, <1>4
  <2> QED BY <1>2, <1>3, <2>1 DEF TypeOK, Known
<1>6. read = <<>>
  BY DEF IInv, Reading
<1>7. want.kind # "list"
  <2> SUFFICES ASSUME want.kind = "list"
               PROVE  FALSE
    OBVIOUS
  <2>a1. PICK m \in Strings, b \in Seq(Slots), f \in Namings : \E pos :
          message = m /\ Placed(m, b, f, pos)
    BY DEF IInv, Listing
  <2>1. PICK pos :
          m \in Strings /\ b \in Seq(Slots) /\ f \in Namings /\ message = m /\ Placed(m, b, f, pos)
    BY <2>a1
  <2>2. get_type(message) = CMD_USERLIST
    BY <2>1, PlacedEnds
  <2> QED BY <1>2, <2>2 DEF CMD_TEXT, CMD_USERLIST
<1>8. (Sent /\ Answered /\ Listing /\ Reading /\ ListSurvives)'
  BY <1>2, <1>7 DEF Sent, Answered, Listing, Reading, ListSurvives
<1>9. RequestArrives'
  BY <1>2 DEF IInv, RequestArrives, ReadAs
<1>10. user \in Slots /\ name[user] \in Strings /\ Says(user) \in Strings /\ Says(user) = name[user] \o <<Other>>
  <2>1. user \in Slots
    BY <1>7 DEF IInv, Answered
  <2> QED BY <1>3, <2>1, SaysString
<1>11. AnswerReads(want, user, name[user], message)
  BY <1>3, <1>10 DEF IInv, Answered
<1>12. ASSUME want.kind = "chat"
       PROVE  receivers = Slots /\ get_text(message) = Says(user) \o want.text
  BY <1>10, <1>11, <1>12 DEF IInv, Answered, AnswerReads
<1>13. ASSUME want.kind = "status"
       PROVE  /\ receivers = Slots /\ get_text_type(message) = TEXT_STATUS
              /\ get_user(message, c) \in ReadAs(user)
              /\ IF Len(want.text) <= 20 THEN get_text(message) = Says(user) \o want.text
                 ELSE StartsWith(get_text(message), Says(user) \o LastOf(want.text))
  <2>1. receivers = Slots
    BY <1>13 DEF IInv, Answered
  <2>2. get_text_type(message) = TEXT_STATUS /\ get_user(message, c) \in ReadAs(user)
    BY <1>11, <1>13 DEF AnswerReads
  <2>3. PICK d \in Stack : get_text(message) = Says(user) \o Kept(want.text, d)
    BY <1>10, <1>11, <1>13 DEF AnswerReads
  <2>4. want.text \in Strings /\ d \in Characters
    BY <1>3, Inputs, StackCharacters
  <2>5. CASE Len(want.text) <= 20
    <3>1. Kept(want.text, d) = want.text
      BY <2>4, <2>5, KeptString
    <3> QED BY <2>1, <2>2, <2>3, <2>5, <3>1
  <2>6. CASE ~(Len(want.text) <= 20)
    <3> DEFINE l == LastOf(want.text) s == Says(user)
    <3>1. l \in Strings /\ \E r \in Strings : Kept(want.text, d) = l \o r
      BY <2>4, <2>6, KeptString
    <3>2. PICK r \in Strings : Kept(want.text, d) = l \o r
      BY <3>1
    <3>3. s \in Strings /\ get_text(message) = s \o (l \o r)
      BY <1>10, <2>3, <3>2
    <3> HIDE DEF l, s
    <3>4. s \o (l \o r) = (s \o l) \o r /\ s \o l \in Strings
      <4>1. s \in Strings /\ l \in Strings /\ r \in Strings
        BY <3>1, <3>3
      <4>2. (s \o l) \o r = s \o (l \o r)
        BY <4>1, ConcatTwice, Zenon
      <4>3. s \o l \in Strings
        BY <4>1, Concat
      <4> QED BY <4>2, <4>3
    <3>5. StartsWith(get_text(message), s \o l)
      BY <3>3, <3>4, StartsWithFront DEF StartsWith
    <3> QED BY <2>1, <2>2, <2>6, <3>5 DEF l, s
  <2> QED BY <2>5, <2>6
<1>14. want.kind # "vote"
  <2>1. want.kind = "vote" => get_type(message) = CMD_VOTE
    BY <1>11 DEF AnswerReads
  <2> QED BY <1>2, <2>1 DEF CMD_TEXT, CMD_VOTE
<1>a. want.kind # "yell"
  BY <1>5 DEF IInv, AnswersFit
<1>b. ASSUME want.kind = "im"
      PROVE  /\ receivers \subseteq ReadAs(want.uid) /\ get_text_type(message) = TEXT_IM
             /\ get_from_user(message) = Number(want.text, 3, 3)
             /\ Len(want.text) >= 6 => Len(message) >= 10 /\ get_text(message) = From(want.text, 6)
  BY <1>11, <1>b DEF IInv, Answered, AnswerReads
<1>15. AnswersFit'
  <2>1. Says(user)' = Says(user)
    BY <1>2 DEF Says
  <2>2. want.kind \in {"chat", "status"} => shown'.text = get_text(message)
    <3>1. want.kind \in {"chat", "status"} => get_text_type(message) \in {TEXT_MAIN_CHAT, TEXT_STATUS}
      BY <1>11 DEF AnswerReads
    <3>2. TEXT_MAIN_CHAT # TEXT_IM /\ TEXT_STATUS # TEXT_IM
      BY DEF TEXT_MAIN_CHAT, TEXT_STATUS, TEXT_IM
    <3> QED BY <1>1, <3>1, <3>2 DEF TextShown
  <2>3. want.kind = "status" => shown'.kind = "window" /\ shown'.uid = get_user(message, c)
    BY <1>1, <1>13 DEF TEXT_STATUS, TEXT_IM
  <2>4. want.kind = "chat" => receivers' = Slots /\ shown'.text = Says(user)' \o want'.text
    BY <1>2, <1>12, <2>1, <2>2
  <2>5. want.kind = "status" =>
          /\ receivers' = Slots /\ shown'.kind = "window" /\ shown'.uid \in ReadAs(user)
          /\ IF Len(want.text) <= 20 THEN shown'.text = Says(user)' \o want'.text
             ELSE StartsWith(shown'.text, Says(user) \o LastOf(want.text))
    BY <1>2, <1>13, <2>1, <2>2, <2>3
  <2>6. want.kind = "im" =>
          /\ receivers' \subseteq ReadAs(want.uid) /\ shown'.kind = "im" /\ shown'.uid = Number(want.text, 3, 3)
          /\ Len(want.text) >= 6 => shown'.text = From(want.text, 6)
    <3> SUFFICES ASSUME want.kind = "im"
                 PROVE  /\ receivers' \subseteq ReadAs(want.uid) /\ shown'.kind = "im"
                        /\ shown'.uid = Number(want.text, 3, 3)
                        /\ Len(want.text) >= 6 => shown'.text = From(want.text, 6)
      OBVIOUS
    <3>1. shown'.kind = "im" /\ shown'.uid = get_from_user(message)
      BY <1>1, <1>b
    <3>2. Len(message) >= 10 => TextShown(h) = get_text(message)
      <4>1. Len(message) \in Nat
        BY <1>3 DEF Strings
      <4> QED BY <4>1 DEF TextShown
    <3> QED BY <1>1, <1>2, <1>b, <3>1, <3>2
  <2>7. LineFits'
    <3>1. CASE want.kind = "chat"
      <4>1. want'.kind = "chat" /\ (Slots \ {user} \subseteq receivers)'
        BY <1>2, <2>4, <3>1
      <4> QED BY <2>4, <3>1, <4>1 DEF LineFits
    <3>2. CASE want.kind = "status"
      <4>1. want'.kind = "status" /\ (Slots \ {user} \subseteq receivers)'
        BY <1>2, <2>5, <3>2
      <4>2. /\ shown'.kind = "window" /\ (shown.uid \in ReadAs(user))'
            /\ IF Len(want'.text) <= 20 THEN shown'.text = Says(user)' \o want'.text
               ELSE StartsWith(shown.text, Says(user) \o LastOf(want.text))'
        BY <1>2, <2>1, <2>5, <3>2 DEF StartsWith, LastOf, ReadAs
      <4> QED BY <4>1, <4>2 DEF LineFits
    <3>3. CASE want.kind \notin {"chat", "status"}
      BY <1>2, <3>3 DEF LineFits
    <3> QED BY <3>1, <3>2, <3>3
  <2>8. ImFits'
    BY <1>2, <2>6 DEF ImFits, ReadAs
  <2> QED BY <1>2, <1>a, <1>14, <2>7, <2>8 DEF AnswersFit
<1> QED BY <1>5, <1>8, <1>9, <1>15 DEF IInv

LEMMA ShowVoteStep ==
  ASSUME IInv, stage = "answered", ShowVote
  PROVE  IInv'
<1>1. /\ get_type(message) = CMD_VOTE /\ stage' = "shown"
      /\ shown' = [kind |-> IF get_text_type(message) = VOTE_ACCEPTED THEN "accepted" ELSE "refused",
                   uid |-> Number(message, 7, 3), text |-> <<>>]
      /\ want' = want /\ window' = window /\ saved' = saved /\ name' = name /\ message' = message
      /\ user' = user /\ other' = other /\ receivers' = receivers
      /\ scan' = scan /\ built' = built /\ read' = read
  BY DEF ShowVote, serverVars, listVars
<1>2. TypeOK /\ Known /\ message \in Strings /\ want \in Wants
  BY DEF IInv, TypeOK, Known
<1>3. TypeOK' /\ Known'
  <2>1. Number(message, 7, 3) \in Nat /\ <<>> \in Strings
    <3>1. 7 \in Nat
      OBVIOUS
    <3>2. Number(message, 7, 3) \in Nat
      BY <1>2, <3>1, NumberNat
    <3>3. <<>> \in Strings
      BY DEF Strings
    <3> QED BY <3>2, <3>3
  <2>2. shown' \in [kind : {"nothing", "line", "window", "im", "accepted", "refused", "list"},
                    uid : Nat, text : Strings]
    BY <1>1, <2>1
  <2> QED BY <1>1, <1>2, <2>2 DEF TypeOK, Known
<1>4. want.kind # "list"
  <2> SUFFICES ASSUME want.kind = "list"
               PROVE  FALSE
    OBVIOUS
  <2>a1. PICK m \in Strings, b \in Seq(Slots), f \in Namings : \E pos :
          message = m /\ Placed(m, b, f, pos)
    BY DEF IInv, Listing
  <2>1. PICK pos :
          m \in Strings /\ b \in Seq(Slots) /\ f \in Namings /\ message = m /\ Placed(m, b, f, pos)
    BY <2>a1
  <2>2. get_type(message) = CMD_USERLIST
    BY <2>1, PlacedEnds
  <2> QED BY <1>1, <2>2 DEF CMD_VOTE, CMD_USERLIST
<1>5. (Sent /\ Answered /\ Listing /\ Reading /\ ListSurvives)'
  BY <1>1, <1>4 DEF Sent, Answered, Listing, Reading, ListSurvives
<1>6. RequestArrives'
  BY <1>1 DEF IInv, RequestArrives, ReadAs
<1>7. user \in Slots /\ name[user] \in Strings
  BY <1>2, <1>4, SaysString DEF IInv, Answered
<1>8. AnswerReads(want, user, name[user], message)
  BY <1>2, <1>7 DEF IInv, Answered
<1>9. want.kind \notin {"chat", "status", "im"}
  <2>1. want.kind \in {"chat", "status", "im"} => get_type(message) = CMD_TEXT
    BY <1>8 DEF AnswerReads
  <2> QED BY <1>1, <2>1 DEF CMD_TEXT, CMD_VOTE
<1>10. want.kind = "vote" => receivers = {user} /\ Number(message, 7, 3) = want.to
  BY <1>8 DEF IInv, Answered, AnswerReads
<1>a. want.kind # "yell"
  BY <1>3 DEF IInv, AnswersFit
<1>11. AnswersFit'
  BY <1>1, <1>9, <1>10, <1>a DEF AnswersFit, LineFits, ImFits
<1> QED BY <1>3, <1>5, <1>6, <1>11 DEF IInv

LEMMA NameAtString ==
  ASSUME NEW m \in Strings, NEW at \in Nat, NEW w \in Nat, NEW h \in Heap
  PROVE  NameAt(m, at, w, h) \in Strings
<1> DEFINE e == IF at + w < Len(m) THEN at + w ELSE Len(m)
<1>1. e \in Nat /\ e <= Len(m)
  BY DEF Strings
<1> HIDE DEF e
<1>2. SubSeq(m, at + 1, e) \in Strings
  BY <1>1, FromString
<1>3. h \in Strings
  BY TextAssumption
<1> QED BY <1>2, <1>3, Concat DEF NameAt, e

\* The first user of a list; a digit behind its offset, and the rest is misread.
LEMMA GetFirstUserStep ==
  ASSUME IInv, stage = "answered", GetFirstUser
  PROVE  IInv'
<1>1. PICK c \in Stack, d \in Stack, h \in Heap :
        LET offset == Loose(message, 7, 3, c)
        IN /\ read' = <<[uid |-> Loose(message, 10, 3, d), length |-> NameLength(offset),
                         name |-> NameAt(message, 13, NameLength(offset), h)]>>
           /\ scan' = 7 + 3 + offset
  BY DEF GetFirstUser
<1> DEFINE offset == Loose(message, 7, 3, c) uid == Loose(message, 10, 3, d)
           r == [uid |-> uid, length |-> NameLength(offset), name |-> NameAt(message, 13, NameLength(offset), h)]
<1>2. read' = <<r>> /\ scan' = 10 + offset
  BY <1>1
<1>3. /\ stage' = "reading"
      /\ want' = want /\ window' = window /\ saved' = saved /\ name' = name /\ message' = message
      /\ user' = user /\ other' = other /\ receivers' = receivers /\ built' = built /\ shown' = shown
  BY DEF GetFirstUser, serverVars
<1>4. TypeOK /\ Known /\ message \in Strings
  BY DEF IInv, TypeOK, Known
<1>5. offset \in Nat /\ uid \in Nat
  <2>1. 7 \in Nat /\ 10 \in Nat /\ c \in Characters /\ d \in Characters
    BY StackCharacters
  <2> QED BY <1>4, <2>1, LooseNat
<1>6. NameLength(offset) \in Nat
  BY <1>5 DEF NameLength
<1>7. r \in [uid : Nat, length : Nat, name : Strings]
  <2>1. 13 \in Nat
    OBVIOUS
  <2>2. NameAt(message, 13, NameLength(offset), h) \in Strings
    BY <1>4, <1>6, <2>1, NameAtString
  <2> QED BY <1>5, <1>6, <2>2
<1>8. read' # <<>> /\ Len(read') = 1 /\ read'[1] = r /\ read' \in Seq([uid : Nat, length : Nat, name : Strings])
  <2> HIDE DEF r
  <2> QED BY <1>2, <1>7
<1>9. Known' /\ TypeOK'
  <2>1. scan' \in Nat
    BY <1>2, <1>5
  <2> QED BY <1>3, <1>4, <1>8, <2>1 DEF Known, TypeOK
<1>10. (Sent /\ Answered)'
  BY <1>3 DEF Sent, Answered
<1>11. ASSUME want.kind = "list"
       PROVE  /\ built # <<>>
              /\ Misread' => Stack \intersect 0..9 # {}
              /\ ~Misread' => 1 <= Len(built) /\ AsListed(1, read[1])'
              /\ \E m \in Strings, b \in Seq(Slots), f \in Namings : \E pos :
                   /\ message' = m /\ built' = b /\ name' = f /\ Placed(m, b, f, pos)
                   /\ ~Misread' => scan' = pos[2]
  <2>1. built # <<>>
    BY <1>11 DEF IInv, Listing
  <2>a2. PICK m \in Strings, b \in Seq(Slots), f \in Namings : \E pos :
          message = m /\ built = b /\ name = f /\ Placed(m, b, f, pos)
    BY <1>11 DEF IInv, Listing
  <2>2. PICK pos :
          m \in Strings /\ b \in Seq(Slots) /\ f \in Namings /\ message = m /\ built = b /\ name = f /\ Placed(m, b, f, pos)
    BY <2>a2
  <2>3. 1 \in 1..Len(b)
    BY <2>1, <2>2
  <2> DEFINE l == Len(f[b[1]])
  <2>4. /\ pos[1] = 7 /\ l \in Nat /\ pos[2] = 13 + l
        /\ Has(m, 7, Field(l + 3, 3)) /\ Has(m, 10, Field(b[1], 3))
        /\ NameAt(m, 13, l, h) = f[b[1]] \o h
    BY <2>2, <2>3, FirstReads
  <2>5. b[1] \in Slots
    BY <2>3
  <2>6. Fits(l + 3, 3) /\ Fits(b[1], 3)
    BY <2>5, NamesFit
  <2>7. offset = (IF c \in 0..9 THEN 10 * (l + 3) + c ELSE l + 3) /\ uid \in ReadAs(b[1])
    <3>1. 7 \in Nat /\ 10 \in Nat
      OBVIOUS
    <3> QED BY <2>2, <2>4, <2>6, <3>1, LooseReads
  <2>8. Misread' <=> NameLength(offset) # l
    BY <1>3, <1>8, <2>2 DEF Misread
  <2> HIDE DEF l, offset, uid
  <2>9. CASE c \in 0..9
    <3>1. offset - 3 # l /\ offset > 3
      BY <2>4, <2>7, <2>9
    <3>2. Misread'
      BY <1>5, <2>8, <3>1 DEF NameLength
    <3>3. Stack \intersect 0..9 # {}
      BY <2>9
    <3> QED BY <1>3, <2>1, <2>2, <3>2, <3>3
  <2>10. CASE c \notin 0..9
    <3>1. offset = l + 3
      BY <2>7, <2>10
    <3>2. NameLength(offset) = l
      BY <2>4, <3>1 DEF NameLength
    <3>3. ~Misread' /\ scan' = pos[2]
      BY <1>2, <2>4, <2>8, <3>1, <3>2
    <3>4. r.uid \in ReadAs(b[1]) /\ r.name = f[b[1]] \o h
      BY <2>2, <2>4, <2>7, <3>2
    <3>5. AsListed(1, read[1])'
      <4>1. read'[1] = r /\ built'[1] = b[1] /\ name'[built'[1]] = f[b[1]]
        BY <1>3, <1>8, <2>2
      <4>2. read'[1].uid \in ReadAs(b[1]) /\ read'[1].name = f[b[1]] \o h
        BY <3>4, <4>1
      <4> QED BY <4>1, <4>2 DEF AsListed, ReadAs
    <3>6. 1 <= Len(built)
      BY <2>2, <2>3
    <3> QED BY <1>3, <2>1, <2>2, <3>3, <3>5, <3>6
  <2> QED BY <2>9, <2>10
<1> HIDE DEF r, offset, uid
<1>12. Listing'
  <2>1. Len(read') + 1 = 2
    BY <1>8
  <2> QED BY <1>3, <1>11, <2>1 DEF Listing
<1>a. want.kind \notin {"chat", "status", "vote", "im"}
  <2> SUFFICES ASSUME want.kind \in {"chat", "status", "vote", "im"}
               PROVE  FALSE
    OBVIOUS
  <2>1. user \in Slots
    BY DEF IInv, Answered
  <2>2. name[user] \in Strings /\ want \in Wants
    BY <1>4, <2>1, SaysString DEF Known
  <2>3. AnswerReads(want, user, name[user], message)
    BY <1>4, <2>1, <2>2 DEF IInv, Answered
  <2>4. get_type(message) = CMD_TEXT \/ get_type(message) = CMD_VOTE
    BY <2>3 DEF AnswerReads
  <2>5. get_type(message) = CMD_USERLIST
    BY DEF GetFirstUser
  <2> QED BY <2>4, <2>5 DEF CMD_TEXT, CMD_VOTE, CMD_USERLIST
<1>13. Reading'
  <2>1. \A i \in DOMAIN read' : i = 1
    BY <1>2
  <2>2. want'.kind = "list" /\ ~Misread' =>
          Len(read') <= Len(built') /\ \A i \in DOMAIN read' : AsListed(i, read[i])'
    BY <1>3, <1>8, <1>11, <2>1 DEF AsListed
  <2> QED BY <1>a, <1>3, <1>8, <2>2 DEF Reading
<1>14. RequestArrives'
  BY <1>3 DEF IInv, RequestArrives, ReadAs
<1>15. (AnswersFit /\ ListSurvives)'
  <2>1. want.kind # "yell"
    BY DEF IInv, AnswersFit
  <2> QED BY <1>3, <1>11, <2>1 DEF AnswersFit, ListSurvives
<1> QED BY <1>9, <1>10, <1>12, <1>13, <1>14, <1>15 DEF IInv

\* The next user of a list, or its end.
LEMMA GetNextUserStep ==
  ASSUME IInv, GetNextUser
  PROVE  IInv'
<1> DEFINE R == [uid : Nat, length : Nat, name : Strings]
           offset == Number(message, scan, 3) w == NameLength(offset)
           uid == Number(message, scan + 3, 3)
<1>1. /\ stage = "reading"
      /\ want' = want /\ window' = window /\ saved' = saved /\ name' = name /\ message' = message
      /\ user' = user /\ other' = other /\ receivers' = receivers /\ built' = built
  BY DEF GetNextUser, serverVars
<1>2. \/ Len(read) >= Capacity /\ stage' = "overrun" /\ scan' = scan /\ read' = read /\ shown' = shown
      \/ offset = 0 /\ stage' = "shown" /\ shown' = [Nothing EXCEPT !.kind = "list"]
         /\ scan' = scan /\ read' = read
      \/ /\ ~(Len(read) >= Capacity) /\ offset # 0
         /\ \E h \in Heap : read' = Append(read, [uid |-> uid, length |-> w,
                                                  name |-> NameAt(message, scan + 6, w, h)])
         /\ scan' = scan + 3 + 3 + w /\ stage' = stage /\ shown' = shown
  BY DEF GetNextUser
<1>3. TypeOK /\ Known /\ message \in Strings /\ scan \in Nat /\ read \in Seq(R) /\ read # <<>>
  BY <1>1 DEF IInv, TypeOK, Known, Reading
<1>4. offset \in Nat /\ uid \in Nat
  <2>1. scan + 3 \in Nat
    BY <1>3
  <2> QED BY <1>3, <2>1, NumberNat
<1>5. w \in Nat
  BY <1>4 DEF NameLength
<1>6. \A h \in Heap : [uid |-> uid, length |-> w, name |-> NameAt(message, scan + 6, w, h)] \in R
  <2> TAKE h \in Heap
  <2>1. scan + 6 \in Nat
    BY <1>3
  <2>2. NameAt(message, scan + 6, w, h) \in Strings
    BY <1>3, <1>5, <2>1, NameAtString
  <2> QED BY <1>4, <1>5, <2>2
<1>7. Known' /\ TypeOK'
  <2>1. read' \in Seq(R)
    <3> HIDE DEF R, offset, uid, w
    <3>1. ASSUME NEW h \in Heap,
                 read' = Append(read, [uid |-> uid, length |-> w, name |-> NameAt(message, scan + 6, w, h)])
          PROVE  read' \in Seq(R)
      BY <1>3, <1>6, <3>1, Appending, Zenon
    <3> QED BY <1>2, <1>3, <3>1
  <2>2. scan' \in Nat
    BY <1>2, <1>3, <1>5
  <2>3. shown' \in [kind : {"nothing", "line", "window", "im", "accepted", "refused", "list"},
                    uid : Nat, text : Strings]
    <3>1. <<>> \in Strings
      BY DEF Strings
    <3>2. [Nothing EXCEPT !.kind = "list"]
            \in [kind : {"nothing", "line", "window", "im", "accepted", "refused", "list"},
                 uid : Nat, text : Strings]
      BY <3>1 DEF Nothing
    <3> QED BY <1>2, <1>3, <3>2 DEF TypeOK
  <2> QED BY <1>1, <1>2, <1>3, <2>1, <2>2, <2>3 DEF Known, TypeOK
<1>8. (Sent /\ Answered)'
  BY <1>1, <1>2 DEF Sent, Answered
<1>9. RequestArrives'
  <2>1. want.kind # "im"
    BY <1>1 DEF IInv, Reading
  <2> QED BY <1>1, <1>2, <2>1 DEF IInv, RequestArrives, ReadAs
<1>10. read' # <<>> /\ read'[1] = read[1]
  <2> HIDE DEF R, offset, uid, w
  <2>1. ASSUME NEW h \in Heap,
               read' = Append(read, [uid |-> uid, length |-> w, name |-> NameAt(message, scan + 6, w, h)])
        PROVE  read' # <<>> /\ read'[1] = read[1]
    <3> DEFINE r == [uid |-> uid, length |-> w, name |-> NameAt(message, scan + 6, w, h)]
    <3>1. r \in R /\ read' = Append(read, r)
      BY <1>6, <2>1
    <3> HIDE DEF r
    <3>2. Len(read) \in Nat /\ Len(read) >= 1
      BY <1>3
    <3> QED BY <1>3, <3>1, <3>2
  <2> QED BY <1>2, <1>3, <2>1
<1>11. Misread' <=> Misread
  BY <1>1, <1>3, <1>10 DEF Misread
<1>12. want.kind = "list" => (Misread => Stack \intersect 0..9 # {})
  BY DEF IInv, ListSurvives
<1>13. ASSUME want.kind = "list", ~Misread
       PROVE  /\ Len(read') <= Len(built) /\ \A i \in DOMAIN read' : AsListed(i, read[i])'
              /\ stage' = "shown" => Len(read') = Len(built)
              /\ stage' = "overrun" => Len(built) >= Capacity
              /\ built # <<>>
              /\ \E m \in Strings, b \in Seq(Slots), f \in Namings : \E pos :
                   /\ message = m /\ built = b /\ name = f /\ Placed(m, b, f, pos)
                   /\ stage' = "reading" => scan' = pos[Len(read') + 1]
  <2>1. built # <<>> /\ Len(read) <= Len(built) /\ \A i \in DOMAIN read : AsListed(i, read[i])
    BY <1>1, <1>13 DEF IInv, Listing, Reading
  <2>a2. PICK m \in Strings, b \in Seq(Slots), f \in Namings : \E pos :
          message = m /\ built = b /\ name = f /\ Placed(m, b, f, pos) /\ scan = pos[Len(read) + 1]
    BY <1>1, <1>13 DEF IInv, Listing
  <2>2. PICK pos :
          m \in Strings /\ b \in Seq(Slots) /\ f \in Namings /\ message = m /\ built = b /\ name = f /\ Placed(m, b, f, pos) /\ scan = pos[Len(read) + 1]
    BY <2>a2
  <2>3. Len(b) \in Nat /\ Len(read) \in Nat /\ Len(read) >= 1
    BY <1>3, <2>2
  <2>4. \A i \in DOMAIN read : AsListed(i, read[i]) <=>
          /\ read[i].uid \in IF i = 1 THEN ReadAs(b[i]) ELSE {b[i]}
          /\ \E h \in Heap : read[i].name = f[b[i]] \o h
    BY <2>2 DEF AsListed
  <2>5. \A i \in DOMAIN read' : AsListed(i, read[i])' <=>
          /\ read'[i].uid \in IF i = 1 THEN ReadAs(b[i]) ELSE {b[i]}
          /\ \E h \in Heap : read'[i].name = f[b[i]] \o h
    BY <1>1, <2>2 DEF AsListed, ReadAs
  <2>6. CASE Len(read) >= Capacity /\ stage' = "overrun" /\ scan' = scan /\ read' = read
    <3>1. Len(built) >= Capacity
      <4>1. Capacity \in Nat
        BY CapacityAssumption
      <4> QED BY <2>1, <2>2, <2>3, <2>6, <4>1
    <3> QED BY <2>1, <2>2, <2>4, <2>5, <2>6, <3>1
  <2>7. CASE offset = 0 /\ stage' = "shown" /\ scan' = scan /\ read' = read
    <3>1. Len(read) = Len(b)
      <4> SUFFICES ASSUME Len(read) # Len(b)
                   PROVE  FALSE
        OBVIOUS
      <4> DEFINE i == Len(read) + 1
      <4>1. i \in 1..Len(b)
        BY <2>1, <2>2, <2>3
      <4>2. scan = pos[i]
        BY <2>2
      <4> HIDE DEF i
      <4>3. Number(m, pos[i], 3) = Len(f[b[i]]) + 3 /\ Len(f[b[i]]) \in Nat
        BY <2>2, <4>1, PlacedReads
      <4> QED BY <2>2, <2>7, <4>2, <4>3
    <3> QED BY <2>1, <2>2, <2>4, <2>5, <2>7, <3>1
  <2>8. ASSUME offset # 0, stage' = stage, scan' = scan + 3 + 3 + w, NEW h \in Heap,
               read' = Append(read, [uid |-> uid, length |-> w, name |-> NameAt(message, scan + 6, w, h)])
        PROVE  /\ Len(read') <= Len(built) /\ \A i \in DOMAIN read' : AsListed(i, read[i])'
               /\ scan' = pos[Len(read') + 1]
    <3> DEFINE i == Len(read) + 1 x == f[b[i]]
               r == [uid |-> uid, length |-> w, name |-> NameAt(message, scan + 6, w, h)]
    <3>1. Len(read) # Len(b)
      BY <2>2, <2>8, PlacedEnds
    <3>2. i \in 1..Len(b) /\ i # 1 /\ i \in Nat
      BY <2>1, <2>2, <2>3, <3>1
    <3>3. scan = pos[i]
      BY <2>2
    <3> HIDE DEF i
    <3>4. /\ pos[i] \in Nat /\ x \in Strings /\ Len(x) \in Nat /\ pos[i + 1] = pos[i] + 6 + Len(x)
          /\ Has(m, pos[i] + 6, x)
          /\ Number(m, pos[i], 3) = Len(x) + 3 /\ Number(m, pos[i] + 3, 3) = b[i]
      BY <2>2, <3>2, PlacedReads
    <3> HIDE DEF x
    <3>5. offset = Len(x) + 3 /\ uid = b[i]
      BY <2>2, <3>3, <3>4
    <3>6. w = Len(x)
      BY <3>4, <3>5 DEF NameLength
    <3> HIDE DEF offset, uid, w
    <3>7. scan' = pos[i + 1]
      BY <2>8, <3>3, <3>4, <3>6
    <3>8. NameAt(message, scan + 6, w, h) = x \o h
      <4>1. pos[i] + 6 \in Nat
        BY <3>4
      <4>2. NameAt(m, pos[i] + 6, Len(x), h) = x \o h
        BY <3>4, <4>1, NameReads
      <4> QED BY <2>2, <3>3, <3>6, <4>2
    <3>9. r.uid = b[i] /\ r.name = x \o h
      BY <3>5, <3>8
    <3>10. r \in R /\ read' = Append(read, r)
      BY <1>6, <2>8
    <3> HIDE DEF r, R
    <3>11. /\ Len(read') = i /\ read'[i] = r /\ DOMAIN read' = 1..i
           /\ \A j \in DOMAIN read : read'[j] = read[j]
           /\ DOMAIN read = 1..Len(read)
      <4>1. /\ Append(read, r) \in Seq(R) /\ Len(Append(read, r)) = Len(read) + 1
            /\ Append(read, r)[Len(read) + 1] = r
            /\ \A j \in 1..Len(read) : Append(read, r)[j] = read[j]
        BY <1>3, <3>10, Appending
      <4>2. DOMAIN read = 1..Len(read) /\ DOMAIN Append(read, r) = 1..Len(Append(read, r))
        BY <1>3, <4>1, LenProperties
      <4> QED BY <3>10, <4>1, <4>2 DEF i
    <3>12. ASSUME NEW j \in DOMAIN read'
           PROVE  AsListed(j, read[j])'
      <4>1. CASE j = i
        <5>1. read'[j].uid = b[j] /\ read'[j].name = f[b[j]] \o h /\ j # 1
          BY <3>2, <3>9, <3>11, <4>1 DEF x
        <5> QED BY <2>5, <5>1
      <4>2. CASE j # i
        <5>1. j \in DOMAIN read
          BY <2>3, <3>2, <3>11, <4>2 DEF i
        <5>2. read'[j] = read[j] /\ AsListed(j, read[j])
          BY <2>1, <3>11, <5>1
        <5>3. /\ read'[j].uid \in IF j = 1 THEN ReadAs(b[j]) ELSE {b[j]}
              /\ \E g \in Heap : read'[j].name = f[b[j]] \o g
          BY <2>4, <5>1, <5>2
        <5> QED BY <2>5, <5>3
      <4> QED BY <4>1, <4>2
    <3>13. Len(read') <= Len(built)
      BY <2>2, <2>3, <3>2, <3>11
    <3> QED BY <3>7, <3>11, <3>12, <3>13
  <2>9. CASE \E h \in Heap : /\ offset # 0 /\ stage' = stage /\ scan' = scan + 3 + 3 + w
                             /\ read' = Append(read, [uid |-> uid, length |-> w,
                                                      name |-> NameAt(message, scan + 6, w, h)])
    <3>1. /\ Len(read') <= Len(built) /\ \A i \in DOMAIN read' : AsListed(i, read[i])'
          /\ scan' = pos[Len(read') + 1]
      <4> HIDE DEF offset, uid, w
      <4> QED BY <2>8, <2>9
    <3>2. stage' = "reading"
      BY <1>1, <2>9
    <3> QED BY <2>1, <2>2, <3>1, <3>2
  <2> HIDE DEF offset, uid, w
  <2> QED BY <1>2, <2>6, <2>7, <2>9
<1> HIDE DEF offset, uid, w
<1>14. Listing'
  <2> SUFFICES ASSUME want.kind = "list"
               PROVE  Listing'
    BY <1>1 DEF Listing
  <2>1. built # <<>> /\ \E m \in Strings, b \in Seq(Slots), f \in Namings : \E pos :
          message = m /\ built = b /\ name = f /\ Placed(m, b, f, pos)
    BY <1>1 DEF IInv, Listing
  <2>2. CASE Misread
    BY <1>1, <1>11, <2>1, <2>2 DEF Listing
  <2>3. CASE ~Misread
    BY <1>1, <1>11, <1>13, <2>3 DEF Listing
  <2> QED BY <2>2, <2>3
<1>15. Reading'
  <2>1. stage' \in {"reading", "overrun", "shown"}
    BY <1>1, <1>2
  <2>2. want'.kind = "list" /\ ~Misread' =>
          Len(read') <= Len(built') /\ \A i \in DOMAIN read' : AsListed(i, read[i])'
    BY <1>1, <1>11, <1>13
  <2>3. stage' = "reading" => want'.kind \notin {"chat", "status", "vote", "im"}
    BY <1>1 DEF IInv, Reading
  <2> QED BY <1>10, <2>1, <2>2, <2>3 DEF Reading
<1>16. ListSurvives'
  <2> SUFFICES ASSUME want.kind = "list"
               PROVE  ListSurvives'
    BY <1>1 DEF ListSurvives
  <2>1. Misread' => Stack \intersect 0..9 # {}
    BY <1>11, <1>12
  <2>2. ASSUME stage' = "shown", ~Misread'
        PROVE  Len(read') = Len(built') /\ \A i \in DOMAIN built' : AsListed(i, read[i])'
    <3>1. Len(read') = Len(built) /\ \A i \in DOMAIN read' : AsListed(i, read[i])'
      BY <1>11, <1>13, <2>2
    <3>2. DOMAIN built' = DOMAIN read'
      <4>1. built' \in Seq(Slots) /\ read' \in Seq(R)
        BY <1>7 DEF TypeOK
      <4> HIDE DEF R
      <4>2. DOMAIN built' = 1..Len(built') /\ DOMAIN read' = 1..Len(read')
        BY <4>1, LenProperties
      <4> QED BY <1>1, <3>1, <4>2
    <3> QED BY <1>1, <3>1, <3>2
  <2>3. stage' = "overrun" /\ ~Misread' => Len(built') >= Capacity
    BY <1>1, <1>11, <1>13
  <2> QED BY <2>1, <2>2, <2>3 DEF ListSurvives
<1>17. AnswersFit'
  <2>1. want'.kind \notin {"chat", "status", "vote", "im"}
    BY <1>1 DEF IInv, Reading
  <2>2. want'.kind # "yell"
    BY <1>1 DEF IInv, AnswersFit
  <2>3. LineFits'
    BY <2>1 DEF LineFits
  <2>4. ImFits'
    BY <2>1 DEF ImFits
  <2> QED BY <2>1, <2>2, <2>3, <2>4 DEF AnswersFit
<1> QED BY <1>7, <1>8, <1>9, <1>14, <1>15, <1>16, <1>17 DEF IInv

LEMMA StepInv ==
  ASSUME IInv, [Next]_vars
  PROVE  IInv'
<1>1. CASE Show
  <2>1. stage = "answered"
    BY <1>1 DEF Show
  <2> QED BY <1>1, <2>1, ShowTextStep, ShowVoteStep, GetFirstUserStep DEF Show
<1>2. CASE UNCHANGED vars
  <2>1. /\ stage' = stage /\ want' = want /\ window' = window /\ saved' = saved /\ name' = name
        /\ message' = message /\ user' = user /\ other' = other /\ receivers' = receivers
        /\ scan' = scan /\ built' = built /\ read' = read /\ shown' = shown
    BY <1>2 DEF vars
  <2>2. Known' /\ TypeOK'
    BY <2>1 DEF IInv, Known, TypeOK
  <2>3. Misread' <=> Misread
    BY <2>1 DEF Misread
  <2>4. \A i \in DOMAIN read : AsListed(i, read[i])' <=> AsListed(i, read[i])
    BY <2>1 DEF AsListed, ReadAs
  <2>5. (Sent /\ Answered)'
    BY <2>1 DEF IInv, Sent, Answered
  <2>6. Listing'
    BY <2>1, <2>3 DEF IInv, Listing
  <2>7. Reading'
    BY <2>1, <2>3, <2>4 DEF IInv, Reading
  <2>8. RequestArrives'
    BY <2>1 DEF IInv, RequestArrives, ReadAs
  <2>9. AnswersFit'
    <3>1. LineFits => LineFits'
      BY <2>1 DEF LineFits, StartsWith, LastOf, Says, ReadAs
    <3>2. ImFits => ImFits'
      BY <2>1 DEF ImFits, ReadAs
    <3>3. AnswersFit
      BY DEF IInv
    <3> QED BY <2>1, <3>1, <3>2, <3>3 DEF AnswersFit
  <2>10. ListSurvives'
    <3> SUFFICES ASSUME want.kind = "list"
                 PROVE  ListSurvives'
      BY <2>1 DEF ListSurvives
    <3>1. ListSurvives
      BY DEF IInv
    <3>2. Misread' => Stack \intersect 0..9 # {}
      BY <2>3, <3>1 DEF ListSurvives
    <3>3. stage' = "overrun" /\ ~Misread' => Len(built') >= Capacity
      BY <2>1, <2>3, <3>1 DEF ListSurvives
    <3>4. ASSUME stage' = "shown", ~Misread'
          PROVE  Len(read') = Len(built') /\ \A i \in DOMAIN built' : AsListed(i, read[i])'
      <4>1. Len(read) = Len(built) /\ \A i \in DOMAIN built : AsListed(i, read[i])
        BY <2>1, <2>3, <3>1, <3>4 DEF ListSurvives
      <4>2. \A i \in DOMAIN built : AsListed(i, read[i])' <=> AsListed(i, read[i])
        BY <2>1 DEF AsListed, ReadAs
      <4> QED BY <2>1, <4>1, <4>2
    <3> QED BY <3>2, <3>3, <3>4 DEF ListSurvives
  <2> QED BY <2>2, <2>5, <2>6, <2>7, <2>8, <2>9, <2>10 DEF IInv
<1> QED BY <1>1, <1>2, AskStep, HandleMessageStep, CreateNextUserStep, GetNextUserStep DEF Next

LEMMA Invariance == Spec => []IInv
BY InitInv, StepInv, PTL DEF Spec

\* Messages are strings without NUL, at every step of a request, its answer and
\* the reading of a list, and every number that atoi returns is a natural one.
THEOREM TypeCorrect == Spec => []TypeOK
<1>1. IInv => TypeOK
  BY DEF IInv
<1> QED BY <1>1, Invariance, PTL

\* For every number of users up to 999, all texts and names: what the server reads
\* is what the client wrote, but for a digit behind an array; in an instant message
\* the writer is read as the receiver and its text as the writer (main.c:172, 213,
\* 254-255, 289-297, 375, 409; protocol.c:67-69, 144-166, 205-217).
THEOREM RequestsArrive == Spec => []RequestArrives
<1>1. IInv => RequestArrives
  BY DEF IInv
<1> QED BY <1>1, Invariance, PTL

\* For the same: lines and statuses reach all others, and they and votes come back
\* as they were meant; an instant message reaches nobody but who is taken for its
\* writer, without six characters, and a yell nobody (main.c:172-266;
\* protocol.c:67-69, 81-83; clientsocket.c:254-279, 300-318).
THEOREM AnswersAreRight == Spec => []AnswersFit
<1>1. IInv => AnswersFit
  BY DEF IInv
<1> QED BY <1>1, Invariance, PTL

\* For the same, and lists of any length: a user list is read as it was built,
\* unless a digit lies behind its first offset (clientsocket.c:331-342,
\* protocol.c:230-290).
THEOREM ListsSurvive == Spec => []ListSurvives
<1>1. IInv => ListSurvives
  BY DEF IInv
<1> QED BY <1>1, Invariance, PTL
=============================================================================
