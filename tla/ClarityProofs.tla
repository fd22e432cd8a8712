--------------------------- MODULE ClarityProofs ----------------------------
(***************************************************************************)
(* Theorems about the decoder and the values that it reads, for values of  *)
(* any size and depth, any data and the widths of the code.                *)
(*                                                                         *)
(* What is recursive in the code is a recursive function in the model, so  *)
(* all of this is induction.  A set of numbers that holds 0 and with each  *)
(* number the next holds all (Induction): the proofs by induction are uses *)
(* of that for the set of the numbers that have the property.              *)
(***************************************************************************)
EXTENDS ClarityValues, FiniteSetTheorems, SequenceTheorems, TLAPS

-----------------------------------------------------------------------------
(* Induction and recursion.                                                *)

(* If n were missing, one less than each missing number up to n would be   *)
(* missing too, and never n: pigeons without a hole.                       *)
LEMMA Induction ==
    ASSUME NEW S, 0 \in S, \A n \in Nat : n \in S => n + 1 \in S
    PROVE  Nat \subseteq S
  <1> SUFFICES ASSUME NEW n \in Nat, n \notin S PROVE FALSE
    OBVIOUS
  <1> DEFINE missing == {m \in 0..n : m \notin S}
             before == [m \in missing |-> m - 1]
  <1>1. IsFiniteSet(missing) /\ Cardinality(missing) \in Nat
    <2>1. IsFiniteSet(0..n) /\ missing \subseteq 0..n
      BY FS_Interval
    <2> QED BY <2>1, FS_Subset, FS_CardinalityType
  <1>2. n \in missing
    OBVIOUS
  <1>3. IsFiniteSet(missing \ {n}) /\ Cardinality(missing \ {n}) = Cardinality(missing) - 1
    BY <1>1, <1>2, FS_RemoveElement
  <1>4. ASSUME NEW m \in missing PROVE m - 1 \in missing \ {n}
    BY 0 \notin missing
  <1>5. before \in [missing -> missing \ {n}]
    BY <1>4
  <1>6. \A x, y \in missing : before[x] = before[y] => x = y
    OBVIOUS
  <1> HIDE DEF missing, before
  <1>7. Cardinality(missing \ {n}) < Cardinality(missing)
    BY <1>1, <1>3
  <1> QED BY <1>1, <1>3, <1>5, <1>6, <1>7, FS_PigeonHole

(* What a recursive function over 0..n is defined by has a solution.       *)
Solves(r, n, first, step) ==
    /\ r[0] = first
    /\ \A i \in 1..n : r[i] = step[i][r[i - 1]]

LEMMA RecursionExists ==
    ASSUME NEW V, NEW first \in V, NEW n \in Nat, NEW step \in [1..n -> [V -> V]]
    PROVE  \E r \in [0..n -> V] : Solves(r, n, first, step)
  <1> DEFINE S == {m \in Nat : m <= n => \E r \in [0..m -> V] : Solves(r, m, first, step)}
  <1>1. 0 \in S
    <2>1. [i \in 0..0 |-> first] \in [0..0 -> V]
      OBVIOUS
    <2>2. Solves([i \in 0..0 |-> first], 0, first, step)
      BY DEF Solves
    <2> QED BY <2>1, <2>2
  <1>2. ASSUME NEW m \in Nat, m \in S PROVE m + 1 \in S
    <2>1. SUFFICES ASSUME m + 1 <= n
                   PROVE  \E r \in [0..m + 1 -> V] : Solves(r, m + 1, first, step)
      OBVIOUS
    <2>2. PICK r \in [0..m -> V] : Solves(r, m, first, step)
      BY <1>2, <2>1
    <2>3. PICK x \in V : x = step[m + 1][r[m]]
      BY <2>1, <2>2
    <2>4. PICK s \in [0..m + 1 -> V] : s[m + 1] = x /\ \A i \in 0..m : s[i] = r[i]
      <3> DEFINE s == [i \in 0..m + 1 |-> IF i = m + 1 THEN x ELSE r[i]]
      <3> s \in [0..m + 1 -> V] /\ s[m + 1] = x /\ \A i \in 0..m : s[i] = r[i]
        BY <2>2
      <3> QED OBVIOUS
    <2>5. s[0] = first
      BY <2>2, <2>4 DEF Solves
    <2>6. ASSUME NEW i \in 1..m + 1 PROVE s[i] = step[i][s[i - 1]]
      <3>1. CASE i = m + 1
        BY <2>3, <2>4, <3>1
      <3>2. CASE i # m + 1
        <4>1. i \in 1..m /\ i \in 0..m /\ i - 1 \in 0..m
          BY <3>2
        <4> QED BY <2>2, <2>4, <4>1 DEF Solves
      <3> QED BY <3>1, <3>2
    <2> QED BY <2>5, <2>6 DEF Solves
  <1>3. n \in S
    <2> HIDE DEF S
    <2> QED BY <1>1, <1>2, Induction
  <1> QED BY <1>3

(* And no other: two functions that begin alike and go on alike are alike. *)
Alike(r, s, n) == \A i \in 0..n : r[i] = s[i]

StepAlike(r, s, n) == \A i \in 1..n : r[i - 1] = s[i - 1] => r[i] = s[i]

LEMMA RecursionUnique ==
    ASSUME NEW n \in Nat, NEW r, NEW s, r[0] = s[0], StepAlike(r, s, n)
    PROVE  Alike(r, s, n)
  <1> DEFINE S == {m \in Nat : m <= n => r[m] = s[m]}
  <1>1. 0 \in S
    OBVIOUS
  <1>2. ASSUME NEW m \in Nat, m \in S PROVE m + 1 \in S
    <2>1. m + 1 <= n => m + 1 \in 1..n /\ (m + 1) - 1 = m
      OBVIOUS
    <2> QED BY <1>2, <2>1 DEF StepAlike
  <1>3. Nat \subseteq S
    <2> HIDE DEF S
    <2> QED BY <1>1, <1>2, Induction
  <1> QED BY <1>3 DEF Alike

-----------------------------------------------------------------------------
(* Numbers and their digits.                                               *)

LEMMA BigEndianIs ==
    ASSUME NEW first \in Int, NEW bytes \in Seq(Int), NEW r \in [0..Len(bytes) -> Int],
           r[0] = first, \A i \in 1..Len(bytes) : r[i] = 256 * r[i - 1] + bytes[i]
    PROVE  BigEndianAfter(first, bytes) = r[Len(bytes)]
  <1> DEFINE def(f) == f = [i \in 0..Len(bytes) |->
                              IF i = 0 THEN first ELSE 256 * f[i - 1] + bytes[i]]
             n == CHOOSE f : def(f)
  <1>1. def(r)
    OBVIOUS
  <1>2. def(n)
    BY <1>1, ZenonT(40)
  <1>3. BigEndianAfter(first, bytes) = n[Len(bytes)]
    BY DEF BigEndianAfter
  <1> HIDE DEF n
  <1>4. n[0] = r[0]
    BY <1>2
  <1>5. ASSUME NEW i \in 1..Len(bytes) PROVE n[i] = 256 * n[i - 1] + bytes[i]
    <2>1. i \in 0..Len(bytes) /\ i # 0
      OBVIOUS
    <2> QED BY <1>2, <2>1, ZenonT(40)
  <1>6. StepAlike(n, r, Len(bytes))
    BY <1>5 DEF StepAlike
  <1>7. Alike(n, r, Len(bytes))
    BY <1>4, <1>6, RecursionUnique
  <1> QED BY <1>3, <1>7 DEF Alike

LEMMA WithoutIs ==
    ASSUME NEW n \in Int, NEW k \in Nat, NEW base \in Nat \ {0}, NEW r \in [0..k -> Int],
           r[0] = n, \A i \in 1..k : r[i] = r[i - 1] \div base
    PROVE  Without(n, k, base) = r[k]
  <1> DEFINE def(f) == f = [i \in 0..k |-> IF i = 0 THEN n ELSE f[i - 1] \div base]
             rest == CHOOSE f : def(f)
  <1>1. def(r)
    OBVIOUS
  <1>2. def(rest)
    BY <1>1
  <1>3. Without(n, k, base) = rest[k]
    BY DEF Without
  <1> HIDE DEF rest
  <1>4. rest[0] = r[0]
    BY <1>2
  <1>5. ASSUME NEW i \in 1..k PROVE rest[i] = rest[i - 1] \div base
    <2>1. i \in 0..k /\ i # 0
      OBVIOUS
    <2> QED BY <1>2, <2>1, Zenon
  <1>6. StepAlike(rest, r, k)
    BY <1>5 DEF StepAlike
  <1>7. Alike(rest, r, k)
    BY <1>4, <1>6, RecursionUnique
  <1> QED BY <1>3, <1>7 DEF Alike

LEMMA BytesAreNumbers ==
    ASSUME NEW bytes \in Seq(Byte)
    PROVE  /\ Len(bytes) \in Nat
           /\ bytes \in Seq(Int)
           /\ \A i \in 1..Len(bytes) : bytes[i] \in Nat /\ bytes[i] < 256
  <1>1. Byte \subseteq Int
    BY DEF Byte
  <1>2. bytes \in Seq(Int) /\ Len(bytes) \in Nat
    BY <1>1, SeqMonotonic, LenProperties
  <1>3. \A i \in 1..Len(bytes) : bytes[i] \in Byte
    BY ElementOfSeq
  <1>4. \A b \in Byte : b \in Nat /\ b < 256
    BY DEF Byte
  <1> QED BY <1>2, <1>3, <1>4

(* The numbers that the bytes up to each one spell.                        *)
LEMMA BigEndianSteps ==
    ASSUME NEW bytes \in Seq(Byte)
    PROVE  \E r \in [0..Len(bytes) -> Nat] :
              /\ r[0] = 0
              /\ \A i \in 1..Len(bytes) : r[i] = 256 * r[i - 1] + bytes[i]
              /\ FromBigEndian(bytes) = r[Len(bytes)]
  <1> DEFINE len == Len(bytes)
             step == [i \in 1..len |-> [x \in Nat |-> 256 * x + bytes[i]]]
  <1>1. bytes \in Seq(Int) /\ len \in Nat /\ \A i \in 1..len : bytes[i] \in Nat
    BY BytesAreNumbers
  <1>2. step \in [1..len -> [Nat -> Nat]]
    BY <1>1
  <1>3. \A i \in 1..len, x \in Nat : step[i][x] = 256 * x + bytes[i]
    OBVIOUS
  <1> HIDE DEF step, len
  <1>4. PICK r \in [0..len -> Nat] : Solves(r, len, 0, step)
    BY <1>1, <1>2, 0 \in Nat, RecursionExists, Zenon
  <1>5. r[0] = 0 /\ \A i \in 1..len : r[i] = 256 * r[i - 1] + bytes[i]
    <2>1. r[0] = 0 /\ \A i \in 1..len : r[i] = step[i][r[i - 1]]
      BY <1>4 DEF Solves
    <2>2. \A i \in 1..len : r[i - 1] \in Nat
      BY <1>1
    <2> QED BY <1>3, <2>1, <2>2, ZenonT(40)
  <1>6. r \in [0..len -> Int] /\ r[len] \in Nat
    BY <1>1
  <1>7. BigEndianAfter(0, bytes) = r[len]
    BY <1>1, <1>5, <1>6, BigEndianIs DEF len
  <1> QED BY <1>4, <1>5, <1>7 DEF FromBigEndian, len

LEMMA BigEndianType ==
    ASSUME NEW bytes \in Seq(Byte)
    PROVE  FromBigEndian(bytes) \in Nat
  BY BigEndianSteps, LenProperties

LEMMA WithoutStep ==
    ASSUME NEW n \in Int, NEW k \in Nat, NEW base \in Nat \ {0}
    PROVE  /\ Without(n, 0, base) = n
           /\ Without(n, k, base) \in Int
           /\ Without(n, k + 1, base) = Without(n, k, base) \div base
  <1> DEFINE last == k + 1
             step == [i \in 1..last |-> [x \in Int |-> x \div base]]
  <1>1. step \in [1..last -> [Int -> Int]] /\ last \in Nat
    OBVIOUS
  <1>2. \A i \in 1..last, x \in Int : step[i][x] = x \div base
    OBVIOUS
  <1> HIDE DEF step, last
  <1>3. PICK r \in [0..last -> Int] : Solves(r, last, n, step)
    BY <1>1, RecursionExists, Zenon
  <1>4. r[0] = n /\ \A i \in 1..last : r[i] = r[i - 1] \div base
    <2>1. r[0] = n /\ \A i \in 1..last : r[i] = step[i][r[i - 1]]
      BY <1>3 DEF Solves
    <2>2. \A i \in 1..last : r[i - 1] \in Int
      BY <1>1
    <2> QED BY <1>2, <2>1, <2>2
  <1>5. ASSUME NEW j \in 0..last PROVE Without(n, j, base) = r[j]
    <2> DEFINE s == [i \in 0..j |-> r[i]]
    <2>1. s \in [0..j -> Int] /\ s[0] = n /\ s[j] = r[j]
      BY <1>1, <1>4
    <2>2. \A i \in 1..j : s[i] = s[i - 1] \div base
      BY <1>1, <1>4
    <2>3. j \in Nat
      OBVIOUS
    <2> HIDE DEF s
    <2> QED BY <2>1, <2>2, <2>3, WithoutIs
  <1>6. 0 \in 0..last /\ k \in 0..last /\ last \in 0..last /\ k + 1 \in 1..last /\ last = k + 1
    BY DEF last
  <1>7. Without(n, 0, base) = r[0] /\ Without(n, k, base) = r[k] /\ Without(n, last, base) = r[last]
    BY <1>5, <1>6
  <1>8. r[last] = r[k] \div base /\ r[k] \in Int
    BY <1>3, <1>4, <1>6
  <1> QED BY <1>4, <1>6, <1>7, <1>8

(* Digits spell the number that they are of, behind what is before them.   *)
LEMMA DigitsSpell ==
    ASSUME NEW n \in Int, NEW width \in Nat
    PROVE  /\ Digits(n, width, 256) \in Seq(Byte)
           /\ Len(Digits(n, width, 256)) = width
           /\ BigEndianAfter(Without(n, width, 256), Digits(n, width, 256)) = n
  <1> DEFINE digits == Digits(n, width, 256)
             r == [i \in 0..width |-> Without(n, width - i, 256)]
  <1>1. \A i \in 0..width : Without(n, i, 256) \in Int
    BY WithoutStep
  <1>2. \A i \in 1..width : Without(n, width - i, 256) % 256 \in Byte
    BY <1>1 DEF Byte
  <1>3. digits \in [1..width -> Byte] /\ \A i \in 1..width : digits[i] = r[i] % 256
    BY <1>2 DEF Digits
  <1>4. digits \in Seq(Byte) /\ Len(digits) = width
    BY <1>3
  <1>5. r \in [0..width -> Int]
    BY <1>1
  <1>6. ASSUME NEW i \in 1..width PROVE r[i] = 256 * r[i - 1] + digits[i]
    <2>1. Without(n, (width - i) + 1, 256) = Without(n, width - i, 256) \div 256
      BY WithoutStep
    <2>2. r[i - 1] = r[i] \div 256 /\ r[i] \in Int
      BY <2>1, <1>5
    <2> HIDE DEF r
    <2>3. r[i] = 256 * (r[i] \div 256) + (r[i] % 256)
      BY <2>2
    <2> QED BY <1>3, <2>2, <2>3
  <1>7. r[0] = Without(n, width, 256) /\ r[width] = n
    BY WithoutStep
  <1>8. digits \in Seq(Int)
    BY <1>4, BytesAreNumbers
  <1> HIDE DEF digits, r
  <1>9. BigEndianAfter(r[0], digits) = r[width]
    <2>1. r[0] \in Int /\ r \in [0..Len(digits) -> Int]
      BY <1>4, <1>5
    <2>2. \A i \in 1..Len(digits) : r[i] = 256 * r[i - 1] + digits[i]
      BY <1>4, <1>6
    <2>3. BigEndianAfter(r[0], digits) = r[Len(digits)]
      BY <1>8, <2>1, <2>2, BigEndianIs
    <2> QED BY <1>4, <2>3
  <1> QED BY <1>4, <1>7, <1>9 DEF digits

LEMMA BigEndianOfDigits ==
    ASSUME NEW n, NEW width \in Nat, Fits(n, width)
    PROVE  FromBigEndian(Digits(n, width, 256)) = n
  BY DigitsSpell DEF Fits, FromBigEndian

LEMMA TwosComplementOfDigits ==
    ASSUME NEW n \in Int, NEW width \in Nat \ {0}, Without(n, width - 1, 256) \in -128..127
    PROVE  FromTwosComplement(Digits(n, width, 256)) = n
  <1>1. Without(n, width, 256) = Without(n, width - 1, 256) \div 256
    <2>1. width - 1 \in Nat /\ (width - 1) + 1 = width
      OBVIOUS
    <2> QED BY <2>1, WithoutStep
  <1>2. Digits(n, width, 256)[1] = Without(n, width - 1, 256) % 256
    BY DEF Digits
  <1>3. Without(n, width, 256) = IF Digits(n, width, 256)[1] < 128 THEN 0 ELSE -1
    BY <1>1, <1>2
  <1> QED BY <1>3, DigitsSpell DEF FromTwosComplement

-----------------------------------------------------------------------------
(* The calls of decode_value.                                              *)

LEMMA CallsAre ==
    ASSUME NEW data, NEW d \in Nat, NEW c \in Nat, NEW n \in Nat
    PROVE  /\ Calls(data, 0).value[c] = TooDeep
           /\ Calls(data, 0).items[c][n] = TooDeep
           /\ Calls(data, 0).fields[c][n] = TooDeep
           /\ Calls(data, d + 1).value[c] = ReadValue(data, c, Calls(data, d))
           /\ Calls(data, d + 1).items[c][n] = ReadItems(data, c, n, Calls(data, d))
           /\ Calls(data, d + 1).fields[c][n] = ReadFields(data, c, n, Calls(data, d))
  <1> DEFINE none == [value  |-> [x \in Nat |-> TooDeep],
                      items  |-> [x \in Nat |-> [y \in Nat |-> TooDeep]],
                      fields |-> [x \in Nat |-> [y \in Nat |-> TooDeep]]]
             outer(inner) == [value  |-> [x \in Nat |-> ReadValue(data, x, inner)],
                              items  |-> [x \in Nat |-> [y \in Nat |-> ReadItems(data, x, y, inner)]],
                              fields |-> [x \in Nat |-> [y \in Nat |-> ReadFields(data, x, y, inner)]]]
             def(k, f) == f = [i \in 0..k |-> IF i = 0 THEN none ELSE outer(f[i - 1])]
             call(k) == CHOOSE f : def(k, f)
             S == {k \in Nat : \E f : def(k, f)}
  <1>1. \A k \in Nat : Calls(data, k) = call(k)[k]
    BY DEF Calls
  <1>2. none.value[c] = TooDeep /\ none.items[c][n] = TooDeep /\ none.fields[c][n] = TooDeep
    OBVIOUS
  <1>3. ASSUME NEW x
        PROVE  /\ outer(x).value[c] = ReadValue(data, c, x)
               /\ outer(x).items[c][n] = ReadItems(data, c, n, x)
               /\ outer(x).fields[c][n] = ReadFields(data, c, n, x)
    OBVIOUS
  <1> HIDE DEF none, outer
  <1>4. 0 \in S
    <2>1. [i \in 0..0 |-> none] = [i \in 0..0 |->
                      IF i = 0 THEN none ELSE outer([j \in 0..0 |-> none][i - 1])]
      OBVIOUS
    <2> QED BY <2>1
  <1>5. ASSUME NEW k \in Nat, k \in S PROVE k + 1 \in S
    <2>1. PICK f : def(k, f)
      BY <1>5
    <2> DEFINE g == [i \in 0..k + 1 |-> IF i = k + 1 THEN outer(f[k]) ELSE f[i]]
    <2>2. ASSUME NEW i \in 0..k + 1
          PROVE  g[i] = IF i = 0 THEN none ELSE outer(g[i - 1])
      <3>1. CASE i = k + 1
        BY <3>1
      <3>2. CASE i # k + 1
        <4>1. i \in 0..k /\ (i # 0 => i - 1 \in 0..k)
          BY <3>2
        <4> QED BY <2>1, <4>1
      <3> QED BY <3>1, <3>2
    <2>3. g = [i \in 0..k + 1 |-> g[i]]
      OBVIOUS
    <2> HIDE DEF g
    <2>4. def(k + 1, g)
      BY <2>2, <2>3
    <2> QED BY <2>4
  <1>6. Nat \subseteq S
    <2> HIDE DEF S
    <2> QED BY <1>4, <1>5, Induction
  <1>7. \A k \in Nat : def(k, call(k))
    BY <1>6
  <1> HIDE DEF call
  <1>8. \A k \in Nat : call(k)[0] = none
    BY <1>7
  <1>9. ASSUME NEW k \in Nat, NEW i \in 1..k PROVE call(k)[i] = outer(call(k)[i - 1])
    <2>1. i \in 0..k /\ i # 0
      OBVIOUS
    <2>2. def(k, call(k))
      BY <1>7
    <2> QED BY <2>1, <2>2, Zenon
  <1>10. StepAlike(call(d + 1), call(d), d)
    BY <1>9 DEF StepAlike
  <1>11. Alike(call(d + 1), call(d), d)
    BY <1>8, <1>10, RecursionUnique
  <1>12. call(d + 1)[d + 1] = outer(call(d)[d])
    BY <1>9, <1>11 DEF Alike
  <1>13. Calls(data, 0) = none /\ Calls(data, d + 1) = outer(Calls(data, d))
    BY <1>1, <1>8, <1>12
  <1> QED BY <1>2, <1>3, <1>13

-----------------------------------------------------------------------------
(* What a call returns, and what it returns when the same bytes stand in   *)
(* another text, and when that text ends among them.                       *)

(* The first n bytes of a text stand in another one, behind offset bytes.  *)
Overlap(w) ==
    /\ w.data \in Seq(Byte) /\ w.other \in Seq(Byte)
    /\ w.offset \in Nat /\ w.n \in Nat
    /\ w.n <= Len(w.data) /\ w.offset + w.n <= Len(w.other)
    /\ \A i \in 1..w.n : w.other[w.offset + i] = w.data[i]

(* A result of a call at a cursor.                                         *)
Sound(data, cursor, r) ==
    \/ r.ok = TRUE /\ r.at \in cursor..Len(data)
    \/ r.ok = FALSE /\ r.error = "UnexpectedEof" /\ r.at \in 0..Len(data)
    \/ r.ok = FALSE /\ r.error = "InvalidUtf8" /\ r.at = 0
    \/ /\ r.ok = FALSE /\ r.error = "UnknownTypePrefix"
       /\ r.at \in 0..Len(data) - 1 /\ data[r.at + 1] \notin 0..14

(* The result of the same call in the other text, when there is a value.   *)
Mirrored(w, r, r2) ==
    r.ok => IF r.at <= w.n THEN r2 = Done(r.value, w.offset + r.at)
            ELSE Len(w.other) = w.offset + w.n =>
                    r2.ok = FALSE /\ r2.error = "UnexpectedEof" /\ r2.at \in 0..Len(w.other)

Reads(w, c, r, r2) == Sound(w.data, c, r) /\ (c <= w.n => Mirrored(w, r, r2))

(* The cursors, and the values read, of both.                              *)
SameCursor(w, c, c2) == c \in 0..Len(w.data) /\ (c <= w.n => c2 = w.offset + c)

SameValue(w, c, v, v2) == c <= w.n => v2 = v

LEMMA Lengths ==
    ASSUME NEW w, Overlap(w)
    PROVE  /\ Len(w.data) \in Nat /\ Len(w.other) \in Nat
           /\ w.offset \in Nat /\ w.n \in Nat
           /\ w.n <= Len(w.data) /\ w.offset + w.n <= Len(w.other)
  BY LenProperties DEF Overlap

LEMMA Cursor ==
    ASSUME NEW w, Overlap(w), NEW c, NEW c2, SameCursor(w, c, c2)
    PROVE  c \in Nat
  BY Lengths DEF SameCursor

LEMMA After ==
    ASSUME NEW w, Overlap(w), NEW c \in Nat, NEW r, NEW r2, Reads(w, c, r, r2), r.ok
    PROVE  r.at >= c /\ SameCursor(w, r.at, r2.at) /\ SameValue(w, r.at, r.value, r2.value)
  BY Lengths DEF Reads, Sound, Mirrored, SameCursor, SameValue, Done

(* One call after another.                                                 *)
LEMMA Chain ==
    ASSUME NEW w, Overlap(w), NEW c \in Nat, NEW r, NEW r2, NEW t, NEW t2,
           Reads(w, c, r, r2), r.ok => Reads(w, r.at, t, t2)
    PROVE  Reads(w, c, IF r.ok THEN t ELSE r, IF r2.ok THEN t2 ELSE r2)
  <1>1. CASE ~r.ok
    BY <1>1 DEF Reads, Sound, Mirrored
  <1>2. CASE r.ok
    <2>0. Sound(w.data, r.at, t) /\ r.at >= c /\ r.at \in Nat
      BY <1>2, After DEF Reads, SameCursor
    <2>1. Sound(w.data, r.at, t) /\ r.at >= c /\ r.at \in Nat /\ (t.ok => t.at >= r.at /\ t.at \in Int)
      BY <2>0, Lengths, SMTT(40) DEF Sound
    <2>2. Sound(w.data, c, t)
      BY <2>1 DEF Sound
    <2>3. CASE r.at <= w.n
      <3>1. c <= w.n => r2.ok
        BY <1>2, <2>3 DEF Reads, Mirrored, Done
      <3> QED BY <1>2, <2>1, <2>2, <2>3, <3>1 DEF Reads
    <2>4. CASE ~(r.at <= w.n)
      <3>1. c <= w.n /\ Len(w.other) = w.offset + w.n =>
              r2.ok = FALSE /\ r2.error = "UnexpectedEof" /\ r2.at \in 0..Len(w.other)
        BY <1>2, <2>4 DEF Reads, Mirrored
      <3>2. t.ok => ~(t.at <= w.n)
        BY <2>1, <2>4, Lengths
      <3> QED BY <1>2, <2>2, <3>1, <3>2 DEF Reads, Mirrored
    <2> QED BY <2>3, <2>4
  <1> QED BY <1>1, <1>2

LEMMA DoneReads ==
    ASSUME NEW w, Overlap(w), NEW c, NEW c2, NEW v, NEW v2,
           SameCursor(w, c, c2), SameValue(w, c, v, v2)
    PROVE  Reads(w, c, Done(v, c), Done(v2, c2))
  <1>1. Done(v, c).ok = TRUE /\ Done(v, c).value = v /\ Done(v, c).at = c
    BY DEF Done
  <1>2. Sound(w.data, c, Done(v, c))
    BY <1>1, Lengths DEF Sound, SameCursor
  <1>3. c <= w.n => Done(v2, c2) = Done(v, w.offset + c)
    BY DEF SameCursor, SameValue
  <1> QED BY <1>1, <1>2, <1>3 DEF Reads, Mirrored

LEMMA ReadBytesReads ==
    ASSUME NEW w, Overlap(w), NEW c, NEW c2, NEW k \in Nat, NEW k2,
           SameCursor(w, c, c2), SameValue(w, c, k, k2)
    PROVE  Reads(w, c, ReadBytes(w.data, c, k), ReadBytes(w.other, c2, k2))
  <1> DEFINE r == ReadBytes(w.data, c, k)
             r2 == ReadBytes(w.other, c2, k2)
  <1>1. c \in Nat /\ Len(w.data) \in Nat /\ Len(w.other) \in Nat /\ c <= Len(w.data)
    BY Lengths DEF SameCursor
  <1>2. Sound(w.data, c, r)
    BY <1>1 DEF Sound, ReadBytes, Done, Eof
  <1>3. ASSUME c <= w.n, r.ok PROVE Mirrored(w, r, r2)
    <2>1. c + k <= Len(w.data) /\ r = Done([i \in 1..k |-> w.data[c + i]], c + k)
      BY <1>1, <1>3 DEF ReadBytes, Eof
    <2>2. k2 = k /\ c2 = w.offset + c
      BY <1>3 DEF SameCursor, SameValue
    <2>3. CASE c + k <= w.n
      <3>1. \A i \in 1..k : w.other[c2 + i] = w.data[c + i]
        <4>1. \A i \in 1..k : c + i \in 1..w.n /\ c2 + i = w.offset + (c + i)
          BY <1>1, <2>2, <2>3, Lengths
        <4> QED BY <4>1 DEF Overlap
      <3>2. [i \in 1..k |-> w.other[c2 + i]] = [i \in 1..k |-> w.data[c + i]]
        BY <3>1
      <3>3. c2 + k <= Len(w.other) /\ c2 + k = w.offset + (c + k)
        BY <1>1, <2>2, <2>3, Lengths
      <3>4. r2 = Done([i \in 1..k |-> w.data[c + i]], w.offset + (c + k))
        <4>1. ~(c2 + k > Len(w.other))
          BY <1>1, <2>2, <3>3, Lengths
        <4>2. r2 = Done([i \in 1..k |-> w.other[c2 + i]], c2 + k)
          BY <2>2, <4>1 DEF ReadBytes
        <4> QED BY <3>2, <3>3, <4>2
      <3> QED BY <2>1, <2>3, <3>4 DEF Mirrored, Done
    <2>4. CASE ~(c + k <= w.n)
      <3>1. ASSUME Len(w.other) = w.offset + w.n
            PROVE  r2 = Eof(c2) /\ c2 \in 0..Len(w.other)
        <4>1. c2 + k2 > Len(w.other) /\ c2 \in 0..Len(w.other)
          BY <1>1, <1>3, <2>2, <2>4, <3>1, Lengths
        <4> QED BY <4>1 DEF ReadBytes
      <3> QED BY <2>1, <2>4, <3>1 DEF Mirrored, Done, Eof
    <2> QED BY <2>3, <2>4
  <1> QED BY <1>2, <1>3 DEF Reads, Mirrored

LEMMA ReadSizeReads ==
    ASSUME NEW w, Overlap(w), NEW c, NEW c2, NEW k \in Nat, SameCursor(w, c, c2)
    PROVE  c \in Nat /\ Reads(w, c, ReadBytes(w.data, c, k), ReadBytes(w.other, c2, k))
  <1>1. c \in Nat
    BY Lengths DEF SameCursor
  <1>2. SameValue(w, c, k, k)
    BY DEF SameValue
  <1> QED BY <1>1, <1>2, ReadBytesReads

(* A slice that is read is made of bytes.                                  *)
LEMMA ReadBytesValue ==
    ASSUME NEW data \in Seq(Byte), NEW c \in Nat, NEW k \in Nat, ReadBytes(data, c, k).ok
    PROVE  /\ ReadBytes(data, c, k).value \in Seq(Byte)
           /\ Len(ReadBytes(data, c, k).value) = k
           /\ ReadBytes(data, c, k).at = c + k
           /\ \A i \in 1..k : ReadBytes(data, c, k).value[i] = data[c + i]
  <1> DEFINE slice == [i \in 1..k |-> data[c + i]]
  <1>1. Len(data) \in Nat
    BY LenProperties
  <1>2. c + k <= Len(data) /\ ReadBytes(data, c, k) = Done(slice, c + k)
    BY <1>1 DEF ReadBytes, Eof
  <1>3. \A i \in 1..k : data[c + i] \in Byte
    <2>1. \A i \in 1..k : c + i \in 1..Len(data)
      BY <1>1, <1>2
    <2> QED BY <2>1, ElementOfSeq
  <1>4. slice \in Seq(Byte) /\ Len(slice) = k /\ \A i \in 1..k : slice[i] = data[c + i]
    BY <1>3
  <1> QED BY <1>2, <1>4 DEF Done

LEMMA ReadByteReads ==
    ASSUME NEW w, Overlap(w), NEW c, NEW c2, SameCursor(w, c, c2)
    PROVE  /\ Reads(w, c, ReadByte(w.data, c), ReadByte(w.other, c2))
           /\ ReadByte(w.data, c).ok =>
                 /\ ReadByte(w.data, c).at = c + 1
                 /\ ReadByte(w.data, c).value = w.data[c + 1]
                 /\ ReadByte(w.data, c).value \in Byte
  <1> DEFINE r == ReadBytes(w.data, c, 1)
             r2 == ReadBytes(w.other, c2, 1)
             t == Done(r.value[1], r.at)
             t2 == Done(r2.value[1], r2.at)
  <1>1. Reads(w, c, r, r2) /\ c \in Nat
    BY ReadSizeReads
  <1>2. ReadByte(w.data, c) = IF r.ok THEN t ELSE r
    BY DEF ReadByte, Try
  <1>3. ReadByte(w.other, c2) = IF r2.ok THEN t2 ELSE r2
    BY DEF ReadByte, Try
  <1>4. r.ok => r.value[1] = w.data[c + 1] /\ r.at = c + 1 /\ r.value[1] \in Byte
    <2>1. w.data \in Seq(Byte)
      BY DEF Overlap
    <2>2. ASSUME NEW k \in Nat, k = 1, r.ok
          PROVE  r.value[k] = w.data[c + k] /\ r.at = c + k /\ r.value[k] \in Byte
      <3>1. ReadBytes(w.data, c, k).ok
        BY <2>2
      <3>2. /\ ReadBytes(w.data, c, k).value \in Seq(Byte)
            /\ Len(ReadBytes(w.data, c, k).value) = k
            /\ ReadBytes(w.data, c, k).at = c + k
            /\ \A i \in 1..k : ReadBytes(w.data, c, k).value[i] = w.data[c + i]
        BY <1>1, <2>1, <3>1, ReadBytesValue
      <3>3. k \in 1..k
        BY <2>2
      <3>4. ReadBytes(w.data, c, k).value[k] \in Byte
        BY <3>2, <3>3, ElementOfSeq
      <3> QED BY <2>2, <3>2, <3>3, <3>4
    <2> QED BY <2>2
  <1> HIDE DEF r, r2
  <1>5. ASSUME r.ok PROVE Reads(w, r.at, t, t2)
    <2>1. SameCursor(w, r.at, r2.at) /\ SameValue(w, r.at, r.value[1], r2.value[1])
      BY <1>1, <1>5, After DEF SameValue
    <2> QED BY <2>1, DoneReads
  <1>6. Reads(w, c, ReadByte(w.data, c), ReadByte(w.other, c2))
    BY <1>1, <1>2, <1>3, <1>5, Chain
  <1>7. ReadByte(w.data, c).ok => r.ok
    BY <1>2
  <1> QED BY <1>2, <1>4, <1>6, <1>7 DEF Done

LEMMA ReadPrefixedReads ==
    ASSUME NEW w, Overlap(w), NEW c, NEW c2, NEW width \in Nat, SameCursor(w, c, c2)
    PROVE  /\ Reads(w, c, ReadPrefixed(w.data, c, width), ReadPrefixed(w.other, c2, width))
           /\ ReadPrefixed(w.data, c, width).ok =>
                 /\ ReadPrefixed(w.data, c, width).value \in Seq(Byte)
                 /\ ReadPrefixed(w.data, c, width).at >= c + width
  <1> DEFINE r == ReadBytes(w.data, c, width)
             r2 == ReadBytes(w.other, c2, width)
             t == ReadBytes(w.data, r.at, FromBigEndian(r.value))
             t2 == ReadBytes(w.other, r2.at, FromBigEndian(r2.value))
  <1>1. Reads(w, c, r, r2) /\ c \in Nat
    BY ReadSizeReads
  <1>2. ReadPrefixed(w.data, c, width) = IF r.ok THEN t ELSE r
    BY DEF ReadPrefixed, Try
  <1>3. ReadPrefixed(w.other, c2, width) = IF r2.ok THEN t2 ELSE r2
    BY DEF ReadPrefixed, Try
  <1>4. w.data \in Seq(Byte)
    BY DEF Overlap
  <1>5. r.ok => FromBigEndian(r.value) \in Nat /\ r.at = c + width
    BY <1>1, <1>4, ReadBytesValue, BigEndianType
  <1>6. r.ok /\ t.ok => t.value \in Seq(Byte) /\ t.at >= c + width
    <2>1. r.ok => r.at \in Nat
      BY <1>1, <1>5
    <2>2. r.ok /\ t.ok => t.value \in Seq(Byte) /\ t.at = r.at + FromBigEndian(r.value)
      BY <1>4, <1>5, <2>1, ReadBytesValue
    <2> HIDE DEF r, t
    <2> QED BY <1>1, <1>5, <2>2
  <1>7. ASSUME r.ok PROVE Reads(w, r.at, t, t2)
    <2> HIDE DEF r, r2
    <2>1. SameCursor(w, r.at, r2.at) /\ SameValue(w, r.at, FromBigEndian(r.value), FromBigEndian(r2.value))
      BY <1>1, <1>7, After DEF SameValue
    <2> QED BY <1>5, <1>7, <2>1, ReadBytesReads
  <1> HIDE DEF r, r2, t, t2
  <1>8. Reads(w, c, ReadPrefixed(w.data, c, width), ReadPrefixed(w.other, c2, width))
    BY <1>1, <1>2, <1>3, <1>7, Chain
  <1>9. r.ok \/ ~ReadPrefixed(w.data, c, width).ok
    BY <1>2
  <1> QED BY <1>2, <1>6, <1>8, <1>9

LEMMA MapReads ==
    ASSUME NEW w, Overlap(w), NEW c \in Nat, NEW r, NEW r2, NEW v, NEW v2, Reads(w, c, r, r2),
           r.ok => (SameValue(w, r.at, r.value, r2.value) => SameValue(w, r.at, v, v2))
    PROVE  Reads(w, c, IF r.ok THEN Done(v, r.at) ELSE r, IF r2.ok THEN Done(v2, r2.at) ELSE r2)
  <1>1. ASSUME r.ok PROVE Reads(w, r.at, Done(v, r.at), Done(v2, r2.at))
    <2>1. SameCursor(w, r.at, r2.at) /\ SameValue(w, r.at, v, v2)
      BY <1>1, After
    <2> QED BY <2>1, DoneReads
  <1> QED BY <1>1, Chain

LEMMA Utf8Reads ==
    ASSUME NEW w, Overlap(w), NEW c, NEW c2, NEW v, NEW v2,
           SameCursor(w, c, c2), SameValue(w, c, v, v2)
    PROVE  Reads(w, c, Utf8(v, c), Utf8(v2, c2)) /\ (Utf8(v, c).ok => Utf8(v, c) = Done(v, c))
  <1>1. CASE ValidUtf8(v)
    <2>1. Reads(w, c, Done(v, c), Done(v2, c2))
      BY DoneReads
    <2>2. Utf8(v, c) = Done(v, c) /\ (c <= w.n => Utf8(v2, c2) = Done(v2, c2))
      BY <1>1 DEF Utf8, SameValue
    <2> QED BY <2>1, <2>2 DEF Reads
  <1>2. CASE ~ValidUtf8(v)
    <2>1. Utf8(v, c) = InvalidUtf8
      BY <1>2 DEF Utf8
    <2>2. InvalidUtf8.ok = FALSE /\ InvalidUtf8.error = "InvalidUtf8" /\ InvalidUtf8.at = 0
      BY DEF InvalidUtf8
    <2> QED BY <2>1, <2>2 DEF Reads, Sound, Mirrored
  <1> QED BY <1>1, <1>2

LEMMA ReadTextReads ==
    ASSUME NEW w, Overlap(w), NEW c, NEW c2, NEW width \in Nat, SameCursor(w, c, c2)
    PROVE  /\ Reads(w, c, ReadText(w.data, c, width), ReadText(w.other, c2, width))
           /\ ReadText(w.data, c, width).ok => ReadText(w.data, c, width).at >= c + width
  <1> DEFINE r == ReadPrefixed(w.data, c, width)
             r2 == ReadPrefixed(w.other, c2, width)
             t == Utf8(r.value, r.at)
             t2 == Utf8(r2.value, r2.at)
  <1>1. Reads(w, c, r, r2) /\ c \in Nat /\ (r.ok => r.at >= c + width)
    BY ReadPrefixedReads, Cursor
  <1>2. ReadText(w.data, c, width) = IF r.ok THEN t ELSE r
    BY DEF ReadText, Try
  <1>3. ReadText(w.other, c2, width) = IF r2.ok THEN t2 ELSE r2
    BY DEF ReadText, Try
  <1> HIDE DEF r, r2
  <1>4. ASSUME r.ok PROVE Reads(w, r.at, t, t2) /\ (t.ok => t.at = r.at)
    <2>1. SameCursor(w, r.at, r2.at) /\ SameValue(w, r.at, r.value, r2.value)
      BY <1>1, <1>4, After
    <2> QED BY <2>1, Utf8Reads DEF Done
  <1> HIDE DEF t, t2
  <1> QED BY <1>1, <1>2, <1>3, <1>4, Chain

LEMMA ReadAddressReads ==
    ASSUME NEW w, Overlap(w), NEW c, NEW c2, SameCursor(w, c, c2)
    PROVE  Reads(w, c, ReadAddress(w.data, c), ReadAddress(w.other, c2))
  <1> DEFINE r == ReadByte(w.data, c)
             r2 == ReadByte(w.other, c2)
             s == ReadBytes(w.data, r.at, HashWidth)
             s2 == ReadBytes(w.other, r2.at, HashWidth)
             v == EncodeStacksAddress(r.value, s.value)
             v2 == EncodeStacksAddress(r2.value, s2.value)
             t == IF s.ok THEN Done(v, s.at) ELSE s
             t2 == IF s2.ok THEN Done(v2, s2.at) ELSE s2
  <1>1. Reads(w, c, r, r2) /\ c \in Nat
    BY ReadByteReads, Cursor
  <1>2. ReadAddress(w.data, c) = IF r.ok THEN t ELSE r
    BY DEF ReadAddress, Try
  <1>3. ReadAddress(w.other, c2) = IF r2.ok THEN t2 ELSE r2
    BY DEF ReadAddress, Try
  <1>4. HashWidth \in Nat
    BY WidthAssumption DEF WidthAssumption
  <1> HIDE DEF r, r2
  <1>5. ASSUME r.ok PROVE Reads(w, r.at, t, t2)
    <2>1. SameCursor(w, r.at, r2.at) /\ SameValue(w, r.at, r.value, r2.value)
      BY <1>1, <1>5, After
    <2>2. Reads(w, r.at, s, s2) /\ r.at \in Nat
      BY <1>4, <2>1, ReadSizeReads
    <2>3. s.ok => (SameValue(w, s.at, s.value, s2.value) => SameValue(w, s.at, v, v2))
      <3>1. s.ok => s.at >= r.at /\ s.at \in Nat
        BY <2>2, After, Lengths DEF SameCursor
      <3> HIDE DEF s, s2
      <3> QED BY <2>1, <2>2, <3>1, Lengths DEF SameValue
    <2> HIDE DEF s, s2, v, v2
    <2> QED BY <2>2, <2>3, MapReads
  <1> HIDE DEF t, t2
  <1> QED BY <1>1, <1>2, <1>3, <1>5, Chain

(* The calls that a call makes, at cursors from c on.                      *)
ValuesFrom(w, c, inner, inner2) ==
    \A c1 \in Nat : \A c2 : c1 >= c /\ SameCursor(w, c1, c2) =>
        /\ Reads(w, c1, inner.value[c1], inner2.value[c2])
        /\ inner.value[c1].ok => inner.value[c1].at > c1

PartsFrom(w, c, inner, inner2) ==
    \A c1 \in Nat, n \in Nat : \A c2, n2 :
        c1 >= c /\ SameCursor(w, c1, c2) /\ SameValue(w, c1, n, n2) =>
            /\ Reads(w, c1, inner.items[c1][n], inner2.items[c2][n2])
            /\ Reads(w, c1, inner.fields[c1][n], inner2.fields[c2][n2])

(* Of what is not shared, nothing is said.                                 *)
LEMMA Adjust ==
    ASSUME NEW w, NEW c, NEW r, NEW r2, NEW r3, Reads(w, c, r, r2), c <= w.n => r3 = r2
    PROVE  Reads(w, c, r, r3)
  BY DEF Reads

LEMMA SameLater ==
    ASSUME NEW w, Overlap(w), NEW c \in Nat, NEW c1, NEW c2, NEW v, NEW v2,
           SameValue(w, c, v, v2), SameCursor(w, c1, c2), c1 >= c
    PROVE  SameValue(w, c1, v, v2)
  BY Lengths DEF SameValue, SameCursor

LEMMA ReadItemsReads ==
    ASSUME NEW w, Overlap(w), NEW c, NEW c2, SameCursor(w, c, c2),
           NEW n \in Nat, NEW n2, SameValue(w, c, n, n2), NEW inner, NEW inner2,
           ValuesFrom(w, c, inner, inner2), PartsFrom(w, c + 1, inner, inner2)
    PROVE  Reads(w, c, ReadItems(w.data, c, n, inner), ReadItems(w.other, c2, n2, inner2))
  <1>0. c \in Nat
    BY Cursor
  <1>1. CASE n = 0
    <2>1. ReadItems(w.data, c, n, inner) = Done(<<>>, c)
      BY <1>1 DEF ReadItems
    <2>2. c <= w.n => ReadItems(w.other, c2, n2, inner2) = Done(<<>>, c2)
      BY <1>1 DEF ReadItems, SameValue
    <2>3. SameValue(w, c, <<>>, <<>>)
      BY DEF SameValue
    <2>4. Reads(w, c, Done(<<>>, c), Done(<<>>, c2))
      BY <2>3, DoneReads
    <2> QED BY <2>1, <2>2, <2>4, Adjust
  <1>2. CASE n # 0
    <2> DEFINE r == inner.value[c]
               r2 == inner2.value[c2]
               s == inner.items[r.at][n - 1]
               s2 == inner2.items[r2.at][n2 - 1]
               v == <<r.value>> \o s.value
               v2 == <<r2.value>> \o s2.value
               t == IF s.ok THEN Done(v, s.at) ELSE s
               t2 == IF s2.ok THEN Done(v2, s2.at) ELSE s2
    <2>1. ReadItems(w.data, c, n, inner) = IF r.ok THEN t ELSE r
      BY <1>2, SMTT(40) DEF ReadItems, Try
    <2>2. c <= w.n => ReadItems(w.other, c2, n2, inner2) = IF r2.ok THEN t2 ELSE r2
      BY <1>2 DEF ReadItems, Try, SameValue
    <2>3. Reads(w, c, r, r2) /\ (r.ok => r.at > c)
      BY <1>0 DEF ValuesFrom
    <2> HIDE DEF r, r2
    <2>4. ASSUME r.ok PROVE Reads(w, r.at, t, t2)
      <3>1. SameCursor(w, r.at, r2.at) /\ SameValue(w, r.at, r.value, r2.value)
        BY <1>0, <2>3, <2>4, After
      <3>2. r.at \in Nat /\ r.at >= c + 1 /\ r.at >= c
        BY <1>0, <2>3, <2>4, <3>1, Cursor
      <3>3. SameValue(w, r.at, n - 1, n2 - 1)
        BY <1>0, <3>1, <3>2, SameLater DEF SameValue
      <3>4. Reads(w, r.at, s, s2)
        <4> DEFINE k == n - 1
                   k2 == n2 - 1
        <4>1. k \in Nat /\ SameValue(w, r.at, k, k2)
          BY <1>2, <3>3
        <4> HIDE DEF k, k2
        <4>2. Reads(w, r.at, inner.items[r.at][k], inner2.items[r2.at][k2])
          BY <3>1, <3>2, <4>1 DEF PartsFrom
        <4> QED BY <4>2 DEF k, k2
      <3> HIDE DEF s, s2
      <3>5. s.ok => (SameValue(w, s.at, s.value, s2.value) => SameValue(w, s.at, v, v2))
        <4>1. ASSUME s.ok PROVE SameValue(w, s.at, r.value, r2.value)
          BY <3>1, <3>2, <3>4, <4>1, After, SameLater
        <4> QED BY <4>1 DEF SameValue
      <3> HIDE DEF v, v2
      <3> QED BY <3>2, <3>4, <3>5, MapReads
    <2> HIDE DEF t, t2
    <2> QED BY <1>0, <2>1, <2>2, <2>3, <2>4, Chain, Adjust
  <1> QED BY <1>1, <1>2

LEMMA ReadFieldsReads ==
    ASSUME NEW w, Overlap(w), NEW c, NEW c2, SameCursor(w, c, c2),
           NEW n \in Nat, NEW n2, SameValue(w, c, n, n2), NEW inner, NEW inner2,
           ValuesFrom(w, c + 1, inner, inner2), PartsFrom(w, c + 1, inner, inner2)
    PROVE  Reads(w, c, ReadFields(w.data, c, n, inner), ReadFields(w.other, c2, n2, inner2))
  <1>0. c \in Nat
    BY Cursor
  <1>1. CASE n = 0
    <2>1. ReadFields(w.data, c, n, inner) = Done({}, c)
      BY <1>1 DEF ReadFields
    <2>2. c <= w.n => ReadFields(w.other, c2, n2, inner2) = Done({}, c2)
      BY <1>1 DEF ReadFields, SameValue
    <2>3. SameValue(w, c, {}, {})
      BY DEF SameValue
    <2>4. Reads(w, c, Done({}, c), Done({}, c2))
      BY <2>3, DoneReads
    <2> QED BY <2>1, <2>2, <2>4, Adjust
  <1>2. CASE n # 0
    <2> DEFINE r == ReadText(w.data, c, 1)
               r2 == ReadText(w.other, c2, 1)
               s == inner.value[r.at]
               s2 == inner2.value[r2.at]
               f == inner.fields[s.at][n - 1]
               f2 == inner2.fields[s2.at][n2 - 1]
               v == InsertBefore(r.value, s.value, f.value)
               v2 == InsertBefore(r2.value, s2.value, f2.value)
               t == IF f.ok THEN Done(v, f.at) ELSE f
               t2 == IF f2.ok THEN Done(v2, f2.at) ELSE f2
               u == IF s.ok THEN t ELSE s
               u2 == IF s2.ok THEN t2 ELSE s2
    <2>1. ReadFields(w.data, c, n, inner) = IF r.ok THEN u ELSE r
      BY <1>2, SMTT(40) DEF ReadFields, Try
    <2>2. c <= w.n => ReadFields(w.other, c2, n2, inner2) = IF r2.ok THEN u2 ELSE r2
      BY <1>2, ZenonT(40) DEF ReadFields, Try, SameValue
    <2>3. Reads(w, c, r, r2) /\ (r.ok => r.at >= c + 1)
      BY ReadTextReads
    <2> HIDE DEF r, r2
    <2>4. ASSUME r.ok PROVE Reads(w, r.at, u, u2)
      <3>1. SameCursor(w, r.at, r2.at) /\ SameValue(w, r.at, r.value, r2.value)
        BY <1>0, <2>3, <2>4, After
      <3>2. r.at \in Nat /\ r.at >= c + 1 /\ r.at >= c
        BY <1>0, <2>3, <2>4, <3>1, Cursor
      <3>3. Reads(w, r.at, s, s2)
        BY <3>1, <3>2 DEF ValuesFrom
      <3> HIDE DEF s, s2
      <3>4. ASSUME s.ok PROVE Reads(w, s.at, t, t2)
        <4>1. SameCursor(w, s.at, s2.at) /\ SameValue(w, s.at, s.value, s2.value)
          BY <3>2, <3>3, <3>4, After
        <4>2. s.at \in Nat /\ s.at >= r.at /\ s.at >= c + 1 /\ s.at >= c
          BY <1>0, <3>2, <3>3, <3>4, <4>1, Cursor, After
        <4>3. SameValue(w, s.at, n - 1, n2 - 1)
          BY <1>0, <4>1, <4>2, SameLater DEF SameValue
        <4>4. Reads(w, s.at, f, f2)
          <5> DEFINE k == n - 1
                     k2 == n2 - 1
          <5>1. k \in Nat /\ SameValue(w, s.at, k, k2)
            BY <1>2, <4>3
          <5> HIDE DEF k, k2
          <5>2. Reads(w, s.at, inner.fields[s.at][k], inner2.fields[s2.at][k2])
            BY <4>1, <4>2, <5>1 DEF PartsFrom
          <5> QED BY <5>2 DEF k, k2
        <4> HIDE DEF f, f2
        <4>5. f.ok => (SameValue(w, f.at, f.value, f2.value) => SameValue(w, f.at, v, v2))
          <5>1. ASSUME f.ok
                PROVE  SameValue(w, f.at, r.value, r2.value) /\ SameValue(w, f.at, s.value, s2.value)
            <6>1. SameCursor(w, f.at, f2.at) /\ f.at >= s.at
              BY <4>2, <4>4, <5>1, After
            <6>2. SameValue(w, s.at, r.value, r2.value)
              BY <3>1, <3>2, <4>1, <4>2, SameLater
            <6> QED BY <4>1, <4>2, <6>1, <6>2, SameLater
          <5> QED BY <5>1 DEF SameValue
        <4> HIDE DEF v, v2
        <4> QED BY <4>2, <4>4, <4>5, MapReads
      <3> HIDE DEF t, t2
      <3> QED BY <3>2, <3>3, <3>4, Chain
    <2> HIDE DEF u, u2
    <2> QED BY <1>0, <2>1, <2>2, <2>3, <2>4, Chain, Adjust
  <1> QED BY <1>1, <1>2

LEMMA PayloadReads ==
    ASSUME NEW w, Overlap(w), NEW c, NEW c2, SameCursor(w, c, c2), NEW inner, NEW inner2,
           ValuesFrom(w, c, inner, inner2), PartsFrom(w, c, inner, inner2),
           NEW tag \in Byte, c > 0, w.data[c] = tag
    PROVE  Reads(w, c, ReadPayload(tag, w.data, c, inner), ReadPayload(tag, w.other, c2, inner2))
  <1> DEFINE size(d, x) == ReadBytes(d, x, LenWidth)
  <1>a. c \in Nat /\ IntWidth \in Nat /\ LenWidth \in Nat
    BY Cursor, WidthAssumption DEF WidthAssumption
  <1>b. Reads(w, c, inner.value[c], inner2.value[c2])
    BY <1>a DEF ValuesFrom
  <1>c. Reads(w, c, size(w.data, c), size(w.other, c2))
    BY <1>a, ReadSizeReads
  <1>d. ASSUME size(w.data, c).ok
        PROVE  LET r == size(w.data, c)
                   r2 == size(w.other, c2)
                   n == FromBigEndian(r.value)
                   n2 == FromBigEndian(r2.value)
               IN  /\ r.at \in Nat
                   /\ Reads(w, r.at, inner.items[r.at][n], inner2.items[r2.at][n2])
                   /\ Reads(w, r.at, inner.fields[r.at][n], inner2.fields[r2.at][n2])
    <2> DEFINE r == size(w.data, c)
               r2 == size(w.other, c2)
               n == FromBigEndian(r.value)
               n2 == FromBigEndian(r2.value)
    <2>1. w.data \in Seq(Byte)
      BY DEF Overlap
    <2>2. n \in Nat
      BY <1>a, <1>d, <2>1, ReadBytesValue, BigEndianType
    <2> HIDE DEF size
    <2>3. SameCursor(w, r.at, r2.at) /\ SameValue(w, r.at, n, n2) /\ r.at >= c
      BY <1>a, <1>c, <1>d, After DEF SameValue
    <2>4. r.at \in Nat
      BY <2>3, Cursor
    <2> HIDE DEF r, r2, n, n2
    <2>5. /\ Reads(w, r.at, inner.items[r.at][n], inner2.items[r2.at][n2])
          /\ Reads(w, r.at, inner.fields[r.at][n], inner2.fields[r2.at][n2])
      BY <2>2, <2>3, <2>4 DEF PartsFrom
    <2> QED BY <2>4, <2>5 DEF r, r2, n, n2
  <1>0. CASE tag = 0
    <2> DEFINE r(d, x, i) == ReadBytes(d, x, IntWidth)
               v(z) == JsonNumber("int", FromTwosComplement(z))
    <2>1. ASSUME NEW d, NEW x, NEW i
          PROVE  ReadPayload(tag, d, x, i) =
                    IF r(d, x, i).ok THEN Done(v(r(d, x, i).value), r(d, x, i).at) ELSE r(d, x, i)
      BY <1>0 DEF ReadPayload, Try
    <2>2. Reads(w, c, r(w.data, c, inner), r(w.other, c2, inner2))
      BY <1>a, ReadSizeReads
    <2> HIDE DEF r
    <2>3. ASSUME NEW x, NEW z, NEW z2, SameValue(w, x, z, z2) PROVE SameValue(w, x, v(z), v(z2))
      BY <2>3 DEF SameValue
    <2> HIDE DEF v
    <2> QED BY <1>a, <2>1, <2>2, <2>3, MapReads
  <1>1. CASE tag = 1
    <2> DEFINE r(d, x, i) == ReadBytes(d, x, IntWidth)
               v(z) == JsonNumber("uint", FromBigEndian(z))
    <2>1. ASSUME NEW d, NEW x, NEW i
          PROVE  ReadPayload(tag, d, x, i) =
                    IF r(d, x, i).ok THEN Done(v(r(d, x, i).value), r(d, x, i).at) ELSE r(d, x, i)
      BY <1>1 DEF ReadPayload, Try
    <2>2. Reads(w, c, r(w.data, c, inner), r(w.other, c2, inner2))
      BY <1>a, ReadSizeReads
    <2> HIDE DEF r
    <2>3. ASSUME NEW x, NEW z, NEW z2, SameValue(w, x, z, z2) PROVE SameValue(w, x, v(z), v(z2))
      BY <2>3 DEF SameValue
    <2> HIDE DEF v
    <2> QED BY <1>a, <2>1, <2>2, <2>3, MapReads
  <1>2. CASE tag = 2
    <2> DEFINE r(d, x, i) == ReadPrefixed(d, x, LenWidth)
               v(z) == JsonText("buff", z)
    <2>1. ASSUME NEW d, NEW x, NEW i
          PROVE  ReadPayload(tag, d, x, i) =
                    IF r(d, x, i).ok THEN Done(v(r(d, x, i).value), r(d, x, i).at) ELSE r(d, x, i)
      BY <1>2 DEF ReadPayload, Try
    <2>2. Reads(w, c, r(w.data, c, inner), r(w.other, c2, inner2))
      BY <1>a, ReadPrefixedReads
    <2> HIDE DEF r
    <2>3. ASSUME NEW x, NEW z, NEW z2, SameValue(w, x, z, z2) PROVE SameValue(w, x, v(z), v(z2))
      BY <2>3 DEF SameValue
    <2> HIDE DEF v
    <2> QED BY <1>a, <2>1, <2>2, <2>3, MapReads
  <1>3. CASE tag = 3
    <2> DEFINE v == JsonBool(TRUE)
    <2>1. ASSUME NEW d, NEW x, NEW i PROVE ReadPayload(tag, d, x, i) = Done(v, x)
      BY <1>3 DEF ReadPayload
    <2> HIDE DEF v
    <2>2. SameValue(w, c, v, v)
      BY DEF SameValue
    <2> QED BY <2>1, <2>2, DoneReads
  <1>4. CASE tag = 4
    <2> DEFINE v == JsonBool(FALSE)
    <2>1. ASSUME NEW d, NEW x, NEW i PROVE ReadPayload(tag, d, x, i) = Done(v, x)
      BY <1>4 DEF ReadPayload
    <2> HIDE DEF v
    <2>2. SameValue(w, c, v, v)
      BY DEF SameValue
    <2> QED BY <2>1, <2>2, DoneReads
  <1>5. CASE tag = 5
    <2> DEFINE r(d, x, i) == ReadAddress(d, x)
               v(z) == JsonText("string", z)
    <2>1. ASSUME NEW d, NEW x, NEW i
          PROVE  ReadPayload(tag, d, x, i) =
                    IF r(d, x, i).ok THEN Done(v(r(d, x, i).value), r(d, x, i).at) ELSE r(d, x, i)
      BY <1>5 DEF ReadPayload, Try
    <2>2. Reads(w, c, r(w.data, c, inner), r(w.other, c2, inner2))
      BY ReadAddressReads
    <2> HIDE DEF r
    <2>3. ASSUME NEW x, NEW z, NEW z2, SameValue(w, x, z, z2) PROVE SameValue(w, x, v(z), v(z2))
      BY <2>3 DEF SameValue
    <2> HIDE DEF v
    <2> QED BY <1>a, <2>1, <2>2, <2>3, MapReads
  <1>6. CASE tag = 6
    <2> DEFINE r(d, x) == ReadAddress(d, x)
               s(d, x) == ReadText(d, r(d, x).at, 1)
               v(y, z) == JsonText("string", y \o <<46>> \o z)
               t(d, x) == IF s(d, x).ok THEN Done(v(r(d, x).value, s(d, x).value), s(d, x).at)
                          ELSE s(d, x)
    <2>1. ASSUME NEW d, NEW x, NEW i
          PROVE  ReadPayload(tag, d, x, i) = IF r(d, x).ok THEN t(d, x) ELSE r(d, x)
      BY <1>6 DEF ReadPayload, Try
    <2>2. Reads(w, c, r(w.data, c), r(w.other, c2))
      BY ReadAddressReads
    <2> HIDE DEF r
    <2>3. ASSUME r(w.data, c).ok PROVE Reads(w, r(w.data, c).at, t(w.data, c), t(w.other, c2))
      <3> DEFINE a == r(w.data, c)
                 a2 == r(w.other, c2)
                 b == s(w.data, c)
                 b2 == s(w.other, c2)
      <3>1. SameCursor(w, a.at, a2.at) /\ SameValue(w, a.at, a.value, a2.value)
        BY <1>a, <2>2, <2>3, After
      <3>2. Reads(w, a.at, b, b2) /\ a.at \in Nat
        BY <3>1, ReadTextReads, Cursor
      <3>3. t(w.data, c) = IF b.ok THEN Done(v(a.value, b.value), b.at) ELSE b
        OBVIOUS
      <3>4. t(w.other, c2) = IF b2.ok THEN Done(v(a2.value, b2.value), b2.at) ELSE b2
        OBVIOUS
      <3> HIDE DEF a, a2, s, b, b2, t
      <3>5. b.ok => (SameValue(w, b.at, b.value, b2.value) =>
                        SameValue(w, b.at, v(a.value, b.value), v(a2.value, b2.value)))
        <4>1. ASSUME b.ok PROVE SameValue(w, b.at, a.value, a2.value)
          BY <3>1, <3>2, <4>1, After, SameLater
        <4> QED BY <4>1 DEF SameValue
      <3> HIDE DEF v
      <3>6. Reads(w, a.at, t(w.data, c), t(w.other, c2))
        BY <3>2, <3>3, <3>4, <3>5, MapReads
      <3> QED BY <3>6 DEF a
    <2> HIDE DEF t
    <2> QED BY <1>a, <2>1, <2>2, <2>3, Chain
  <1>7. CASE tag = 7
    <2> DEFINE r(d, x, i) == i.value[x]
               v(z) == JsonWrapped("ok", z)
    <2>1. ASSUME NEW d, NEW x, NEW i
          PROVE  ReadPayload(tag, d, x, i) =
                    IF r(d, x, i).ok THEN Done(v(r(d, x, i).value), r(d, x, i).at) ELSE r(d, x, i)
      BY <1>7 DEF ReadPayload, Try
    <2>2. Reads(w, c, r(w.data, c, inner), r(w.other, c2, inner2))
      BY <1>b
    <2> HIDE DEF r
    <2>3. ASSUME NEW x, NEW z, NEW z2, SameValue(w, x, z, z2) PROVE SameValue(w, x, v(z), v(z2))
      BY <2>3 DEF SameValue
    <2> HIDE DEF v
    <2> QED BY <1>a, <2>1, <2>2, <2>3, MapReads
  <1>8. CASE tag = 8
    <2> DEFINE r(d, x, i) == i.value[x]
               v(z) == JsonWrapped("err", z)
    <2>1. ASSUME NEW d, NEW x, NEW i
          PROVE  ReadPayload(tag, d, x, i) =
                    IF r(d, x, i).ok THEN Done(v(r(d, x, i).value), r(d, x, i).at) ELSE r(d, x, i)
      BY <1>8 DEF ReadPayload, Try
    <2>2. Reads(w, c, r(w.data, c, inner), r(w.other, c2, inner2))
      BY <1>b
    <2> HIDE DEF r
    <2>3. ASSUME NEW x, NEW z, NEW z2, SameValue(w, x, z, z2) PROVE SameValue(w, x, v(z), v(z2))
      BY <2>3 DEF SameValue
    <2> HIDE DEF v
    <2> QED BY <1>a, <2>1, <2>2, <2>3, MapReads
  <1>9. CASE tag = 9
    <2> DEFINE v == JsonNull
    <2>1. ASSUME NEW d, NEW x, NEW i PROVE ReadPayload(tag, d, x, i) = Done(v, x)
      BY <1>9 DEF ReadPayload
    <2> HIDE DEF v
    <2>2. SameValue(w, c, v, v)
      BY DEF SameValue
    <2> QED BY <2>1, <2>2, DoneReads
  <1>10. CASE tag = 10
    <2>1. ASSUME NEW d, NEW x, NEW i PROVE ReadPayload(tag, d, x, i) = i.value[x]
      BY <1>10 DEF ReadPayload
    <2> QED BY <1>b, <2>1
  <1>11. CASE tag = 11
    <2> DEFINE s(d, x, i) == i.items[size(d, x).at][FromBigEndian(size(d, x).value)]
               v(z) == JsonArray(z)
               t(d, x, i) == IF s(d, x, i).ok THEN Done(v(s(d, x, i).value), s(d, x, i).at)
                             ELSE s(d, x, i)
    <2>1. ASSUME NEW d, NEW x, NEW i
          PROVE  ReadPayload(tag, d, x, i) = IF size(d, x).ok THEN t(d, x, i) ELSE size(d, x)
      BY <1>11 DEF ReadPayload, Try
    <2>2. ASSUME size(w.data, c).ok
          PROVE  Reads(w, size(w.data, c).at, t(w.data, c, inner), t(w.other, c2, inner2))
      <3>1. /\ size(w.data, c).at \in Nat
            /\ Reads(w, size(w.data, c).at, s(w.data, c, inner), s(w.other, c2, inner2))
        BY <1>d, <2>2
      <3> HIDE DEF s, size
      <3>2. ASSUME NEW x, NEW z, NEW z2, SameValue(w, x, z, z2)
            PROVE  SameValue(w, x, v(z), v(z2))
        BY <3>2 DEF SameValue
      <3> HIDE DEF v
      <3> QED BY <3>1, <3>2, MapReads, SMTT(40)
    <2> HIDE DEF t, size
    <2> QED BY <1>a, <1>c, <2>1, <2>2, Chain
  <1>12. CASE tag = 12
    <2> DEFINE s(d, x, i) == i.fields[size(d, x).at][FromBigEndian(size(d, x).value)]
               v(z) == JsonObject(z)
               t(d, x, i) == IF s(d, x, i).ok THEN Done(v(s(d, x, i).value), s(d, x, i).at)
                             ELSE s(d, x, i)
    <2>1. ASSUME NEW d, NEW x, NEW i
          PROVE  ReadPayload(tag, d, x, i) = IF size(d, x).ok THEN t(d, x, i) ELSE size(d, x)
      BY <1>12, SMTT(40) DEF ReadPayload, Try
    <2>2. ASSUME size(w.data, c).ok
          PROVE  Reads(w, size(w.data, c).at, t(w.data, c, inner), t(w.other, c2, inner2))
      <3>1. /\ size(w.data, c).at \in Nat
            /\ Reads(w, size(w.data, c).at, s(w.data, c, inner), s(w.other, c2, inner2))
        BY <1>d, <2>2
      <3> HIDE DEF s, size
      <3>2. ASSUME NEW x, NEW z, NEW z2, SameValue(w, x, z, z2)
            PROVE  SameValue(w, x, v(z), v(z2))
        BY <3>2 DEF SameValue
      <3> HIDE DEF v
      <3> QED BY <3>1, <3>2, MapReads
    <2> HIDE DEF t, size
    <2> QED BY <1>a, <1>c, <2>1, <2>2, Chain
  <1>13. CASE tag \in {13, 14}
    <2> DEFINE r(d, x, i) == ReadText(d, x, LenWidth)
               v(z) == JsonText("string", z)
    <2>1. ASSUME NEW d, NEW x, NEW i
          PROVE  ReadPayload(tag, d, x, i) =
                    IF r(d, x, i).ok THEN Done(v(r(d, x, i).value), r(d, x, i).at) ELSE r(d, x, i)
      BY <1>13 DEF ReadPayload, Try
    <2>2. Reads(w, c, r(w.data, c, inner), r(w.other, c2, inner2))
      BY <1>a, ReadTextReads
    <2> HIDE DEF r
    <2>3. ASSUME NEW x, NEW z, NEW z2, SameValue(w, x, z, z2) PROVE SameValue(w, x, v(z), v(z2))
      BY <2>3 DEF SameValue
    <2> HIDE DEF v
    <2> QED BY <1>a, <2>1, <2>2, <2>3, MapReads
  <1>14. CASE tag \notin 0..14
    <2>1. ReadPayload(tag, w.data, c, inner) = UnknownTag(c - 1)
      <3>1. /\ tag # 0 /\ tag # 1 /\ tag # 2 /\ tag # 3 /\ tag # 4 /\ tag # 5 /\ tag # 6
            /\ tag # 7 /\ tag # 8 /\ tag # 9 /\ tag # 10 /\ tag # 11 /\ tag # 12
            /\ tag \notin {13, 14}
        BY <1>14
      <3> QED BY <3>1 DEF ReadPayload
    <2>2. /\ UnknownTag(c - 1).ok = FALSE /\ UnknownTag(c - 1).error = "UnknownTypePrefix"
          /\ UnknownTag(c - 1).at = c - 1
      BY DEF UnknownTag
    <2>3. c - 1 \in 0..Len(w.data) - 1 /\ w.data[(c - 1) + 1] = tag
      BY <1>a, Lengths DEF SameCursor
    <2> QED BY <1>14, <2>1, <2>2, <2>3 DEF Reads, Sound, Mirrored
  <1>15. tag \in 0..14 <=> \/ tag = 0 \/ tag = 1 \/ tag = 2 \/ tag = 3 \/ tag = 4 \/ tag = 5
                           \/ tag = 6 \/ tag = 7 \/ tag = 8 \/ tag = 9 \/ tag = 10 \/ tag = 11
                           \/ tag = 12 \/ tag \in {13, 14}
    BY DEF Byte
  <1> QED BY <1>0, <1>1, <1>2, <1>3, <1>4, <1>5, <1>6, <1>7, <1>8, <1>9, <1>10, <1>11, <1>12,
             <1>13, <1>14, <1>15

LEMMA ReadValueReads ==
    ASSUME NEW w, Overlap(w), NEW c, NEW c2, SameCursor(w, c, c2), NEW inner, NEW inner2,
           ValuesFrom(w, c + 1, inner, inner2), PartsFrom(w, c + 1, inner, inner2)
    PROVE  /\ Reads(w, c, ReadValue(w.data, c, inner), ReadValue(w.other, c2, inner2))
           /\ ReadValue(w.data, c, inner).ok => ReadValue(w.data, c, inner).at > c
  <1> DEFINE r == ReadByte(w.data, c)
             r2 == ReadByte(w.other, c2)
             t == ReadPayload(r.value, w.data, r.at, inner)
             t2 == ReadPayload(r2.value, w.other, r2.at, inner2)
  <1>1. c \in Nat /\ Reads(w, c, r, r2)
    BY Cursor, ReadByteReads
  <1>2. r.ok => r.at = c + 1 /\ r.value = w.data[c + 1] /\ r.value \in Byte
    BY ReadByteReads
  <1>3. ReadValue(w.data, c, inner) = IF r.ok THEN t ELSE r
    BY DEF ReadValue, Try
  <1>4. ReadValue(w.other, c2, inner2) = IF r2.ok THEN t2 ELSE r2
    BY DEF ReadValue, Try
  <1> HIDE DEF r, r2
  <1>5. ASSUME r.ok PROVE Reads(w, r.at, t, t2) /\ (t.ok => t.at > c)
    <2>1. SameCursor(w, r.at, r2.at) /\ SameValue(w, r.at, r.value, r2.value)
      BY <1>1, <1>5, After
    <2>2. r.at > 0 /\ r.at \in Nat
      BY <1>1, <1>2, <1>5
    <2>3. Reads(w, r.at, t, ReadPayload(r.value, w.other, r2.at, inner2))
      BY <1>2, <1>5, <2>1, <2>2, PayloadReads
    <2>4. r.at <= w.n => t2 = ReadPayload(r.value, w.other, r2.at, inner2)
      BY <2>1 DEF SameValue
    <2> HIDE DEF t, t2
    <2>5. Reads(w, r.at, t, t2)
      BY <2>3, <2>4, Adjust
    <2>6. t.ok => t.at >= r.at /\ SameCursor(w, t.at, t2.at)
      BY <2>2, <2>5, After
    <2>7. t.ok => t.at \in Nat
      BY <2>6, Cursor
    <2> QED BY <1>1, <1>2, <1>5, <2>5, <2>6, <2>7
  <1> HIDE DEF t, t2
  <1>6. Reads(w, c, ReadValue(w.data, c, inner), ReadValue(w.other, c2, inner2))
    BY <1>1, <1>3, <1>4, <1>5, Chain
  <1> QED BY <1>3, <1>5, <1>6

(* So many calls may be open as are ever needed: from a cursor on, twice   *)
(* as many as there are bytes left.                                        *)
Enough(w, d, d2, c, c2, more) ==
    /\ 2 * (Len(w.data) - c) + more <= d
    /\ c <= w.n => 2 * (Len(w.other) - c2) + more <= d2

CallsRead(w, d, d2) ==
    \A c \in Nat, n \in Nat : \A c2, n2 : SameCursor(w, c, c2) /\ SameValue(w, c, n, n2) =>
        /\ Enough(w, d, d2, c, c2, 1) =>
              /\ Reads(w, c, Calls(w.data, d).value[c], Calls(w.other, d2).value[c2])
              /\ Calls(w.data, d).value[c].ok => Calls(w.data, d).value[c].at > c
        /\ Enough(w, d, d2, c, c2, 2) =>
              /\ Reads(w, c, Calls(w.data, d).items[c][n], Calls(w.other, d2).items[c2][n2])
              /\ Reads(w, c, Calls(w.data, d).fields[c][n], Calls(w.other, d2).fields[c2][n2])

LEMMA EnoughInside ==
    ASSUME NEW w, Overlap(w), NEW d \in Nat, NEW d2 \in Nat, NEW e \in Nat, NEW c \in Nat, NEW c2,
           c <= w.n => d2 = e + 1, SameCursor(w, c, c2), NEW c3 \in Nat, NEW c4,
           SameCursor(w, c3, c4), c3 >= c
    PROVE  /\ Enough(w, d + 1, d2, c, c2, 2) => Enough(w, d, e, c3, c4, 1)
           /\ Enough(w, d + 1, d2, c, c2, 1) \/ Enough(w, d + 1, d2, c, c2, 2) =>
                 (c3 > c => Enough(w, d, e, c3, c4, 1) /\ Enough(w, d, e, c3, c4, 2))
  <1>1. Len(w.data) \in Nat /\ Len(w.other) \in Nat /\ w.offset \in Nat /\ w.n \in Nat
    BY Lengths
  <1>2. c3 <= w.n =>
          c <= w.n /\ c2 = w.offset + c /\ c4 = w.offset + c3 /\ d2 = e + 1
    BY <1>1 DEF SameCursor
  <1> HIDE DEF SameCursor
  <1>3. ASSUME NEW more \in {1, 2}, NEW most \in {1, 2}, c3 > c \/ (more = 1 /\ most = 2),
               Enough(w, d + 1, d2, c, c2, most)
        PROVE  Enough(w, d, e, c3, c4, more)
    <2>1. 2 * (Len(w.data) - c3) + more <= d
      BY <1>1, <1>3 DEF Enough
    <2>2. ASSUME c3 <= w.n PROVE 2 * (Len(w.other) - c4) + more <= e
      <3>1. 2 * (Len(w.other) - c2) + most <= d2
        BY <1>2, <1>3, <2>2 DEF Enough
      <3>2. 2 * (Len(w.other) - (w.offset + c)) + most <= e + 1
        BY <1>2, <2>2, <3>1
      <3>3. 2 * (Len(w.other) - (w.offset + c3)) + more <= e
        <4>1. ASSUME NEW len \in Int, NEW o \in Int, 2 * (len - (o + c)) + most <= e + 1
              PROVE  2 * (len - (o + c3)) + more <= e
          <5>1. CASE c3 > c
            BY <4>1, <5>1
          <5>2. CASE more = 1 /\ most = 2
            BY <4>1, <5>2
          <5> QED BY <1>3, <5>1, <5>2
        <4>2. Len(w.other) \in Int /\ w.offset \in Int
          BY <1>1
        <4> QED BY <3>2, <4>1, <4>2, Zenon
      <3> QED BY <1>2, <2>2, <3>3
    <2> QED BY <2>1, <2>2 DEF Enough
  <1> QED BY <1>3

LEMMA CallsReadStep ==
    ASSUME NEW w, Overlap(w), NEW d \in Nat, \A e \in Nat : CallsRead(w, d, e), NEW d2 \in Nat
    PROVE  CallsRead(w, d + 1, d2)
  <1> SUFFICES ASSUME NEW c \in Nat, NEW n \in Nat, NEW c2, NEW n2,
                      SameCursor(w, c, c2), SameValue(w, c, n, n2),
                      Enough(w, d + 1, d2, c, c2, 1) \/ Enough(w, d + 1, d2, c, c2, 2)
               PROVE
        /\ Enough(w, d + 1, d2, c, c2, 1) =>
              /\ Reads(w, c, Calls(w.data, d + 1).value[c], Calls(w.other, d2).value[c2])
              /\ Calls(w.data, d + 1).value[c].ok => Calls(w.data, d + 1).value[c].at > c
        /\ Enough(w, d + 1, d2, c, c2, 2) =>
              /\ Reads(w, c, Calls(w.data, d + 1).items[c][n], Calls(w.other, d2).items[c2][n2])
              /\ Reads(w, c, Calls(w.data, d + 1).fields[c][n], Calls(w.other, d2).fields[c2][n2])
    BY ZenonT(40) DEF CallsRead
  <1>1. PICK e \in Nat : c <= w.n => d2 = e + 1
    <2>1. CASE c <= w.n
      <3>1. c2 <= Len(w.other) /\ c2 \in Nat
        BY <2>1, Lengths DEF SameCursor
      <3>2. d2 >= 1
        BY <2>1, <3>1, Lengths DEF Enough
      <3>3. d2 - 1 \in Nat /\ d2 = (d2 - 1) + 1
        BY <3>2
      <3> QED BY <3>3
    <2>2. CASE ~(c <= w.n)
      BY <2>2
    <2> QED BY <2>1, <2>2
  <1> DEFINE inner == Calls(w.data, d)
             inner2 == Calls(w.other, e)
  <1>2. CallsRead(w, d, e)
    OBVIOUS
  <1>3. /\ Calls(w.data, d + 1).value[c] = ReadValue(w.data, c, inner)
        /\ Calls(w.data, d + 1).items[c][n] = ReadItems(w.data, c, n, inner)
        /\ Calls(w.data, d + 1).fields[c][n] = ReadFields(w.data, c, n, inner)
    <2>1. ASSUME NEW data
          PROVE  /\ Calls(data, d + 1).value[c] = ReadValue(data, c, Calls(data, d))
                 /\ Calls(data, d + 1).items[c][n] = ReadItems(data, c, n, Calls(data, d))
                 /\ Calls(data, d + 1).fields[c][n] = ReadFields(data, c, n, Calls(data, d))
      BY CallsAre
    <2> QED BY <2>1
  <1>4. ASSUME c <= w.n
        PROVE  /\ Calls(w.other, d2).value[c2] = ReadValue(w.other, c2, inner2)
               /\ Calls(w.other, d2).items[c2][n2] = ReadItems(w.other, c2, n2, inner2)
               /\ Calls(w.other, d2).fields[c2][n2] = ReadFields(w.other, c2, n2, inner2)
    <2>1. c2 \in Nat /\ n2 \in Nat /\ d2 = e + 1
      BY <1>1, <1>4, Lengths DEF SameCursor, SameValue
    <2> QED BY <2>1, CallsAre
  <1>5. ValuesFrom(w, c + 1, inner, inner2)
    <2>1. ASSUME NEW c3 \in Nat, NEW c4, c3 >= c + 1, SameCursor(w, c3, c4)
          PROVE  /\ Reads(w, c3, inner.value[c3], inner2.value[c4])
                 /\ inner.value[c3].ok => inner.value[c3].at > c3
      <3>1. Enough(w, d, e, c3, c4, 1)
        <4>1. c3 >= c /\ c3 > c
          BY <2>1
        <4> QED BY <1>1, <2>1, <4>1, EnoughInside
      <3>2. SameValue(w, c3, 0, 0)
        BY DEF SameValue
      <3> QED BY <1>2, <2>1, <3>1, <3>2 DEF CallsRead
    <2> HIDE DEF inner, inner2
    <2> QED BY <2>1 DEF ValuesFrom
  <1>6. PartsFrom(w, c + 1, inner, inner2)
    <2>1. ASSUME NEW c3 \in Nat, NEW c4, c3 >= c + 1, SameCursor(w, c3, c4),
                 NEW k \in Nat, NEW k2, SameValue(w, c3, k, k2)
          PROVE  /\ Reads(w, c3, inner.items[c3][k], inner2.items[c4][k2])
                 /\ Reads(w, c3, inner.fields[c3][k], inner2.fields[c4][k2])
      <3>1. Enough(w, d, e, c3, c4, 2)
        <4>1. c3 >= c /\ c3 > c
          BY <2>1
        <4> QED BY <1>1, <2>1, <4>1, EnoughInside
      <3> QED BY <1>2, <2>1, <3>1 DEF CallsRead
    <2> HIDE DEF inner, inner2
    <2> QED BY <2>1 DEF PartsFrom
  <1>7. ASSUME Enough(w, d + 1, d2, c, c2, 2) PROVE ValuesFrom(w, c, inner, inner2)
    <2>1. ASSUME NEW c3 \in Nat, NEW c4, c3 >= c, SameCursor(w, c3, c4)
          PROVE  /\ Reads(w, c3, inner.value[c3], inner2.value[c4])
                 /\ inner.value[c3].ok => inner.value[c3].at > c3
      <3>1. Enough(w, d, e, c3, c4, 1)
        BY <1>1, <1>7, <2>1, EnoughInside
      <3>2. SameValue(w, c3, 0, 0)
        BY DEF SameValue
      <3> QED BY <1>2, <2>1, <3>1, <3>2 DEF CallsRead
    <2> HIDE DEF inner, inner2
    <2> QED BY <2>1 DEF ValuesFrom
  <1> HIDE DEF inner, inner2
  <1>8. /\ Reads(w, c, ReadValue(w.data, c, inner), ReadValue(w.other, c2, inner2))
        /\ ReadValue(w.data, c, inner).ok => ReadValue(w.data, c, inner).at > c
    BY <1>5, <1>6, ReadValueReads
  <1>9. Reads(w, c, ReadFields(w.data, c, n, inner), ReadFields(w.other, c2, n2, inner2))
    BY <1>5, <1>6, ReadFieldsReads
  <1>10. Enough(w, d + 1, d2, c, c2, 2) =>
            Reads(w, c, ReadItems(w.data, c, n, inner), ReadItems(w.other, c2, n2, inner2))
    BY <1>6, <1>7, ReadItemsReads
  <1> QED BY <1>3, <1>4, <1>8, <1>9, <1>10, Adjust

LEMMA CallsReadAll ==
    ASSUME NEW w, Overlap(w), NEW d \in Nat, NEW d2 \in Nat
    PROVE  CallsRead(w, d, d2)
  <1> DEFINE S == {k \in Nat : \A e \in Nat : CallsRead(w, k, e)}
  <1>1. 0 \in S
    <2>1. ASSUME NEW e \in Nat PROVE CallsRead(w, 0, e)
      <3>1. ASSUME NEW c \in Nat, NEW c2, SameCursor(w, c, c2)
            PROVE  ~Enough(w, 0, e, c, c2, 1) /\ ~Enough(w, 0, e, c, c2, 2)
        BY <3>1, Lengths DEF Enough, SameCursor
      <3> QED BY <3>1 DEF CallsRead
    <2> QED BY <2>1
  <1>2. ASSUME NEW k \in Nat, k \in S PROVE k + 1 \in S
    BY <1>2, CallsReadStep
  <1>3. d \in S
    <2> HIDE DEF S
    <2> QED BY <1>1, <1>2, Induction
  <1> QED BY <1>3

-----------------------------------------------------------------------------
(* Parts of a text, and what is read where they stand.                     *)

Stands(part, data, c) ==
    /\ part \in Seq(Byte) /\ data \in Seq(Byte) /\ c \in Nat
    /\ c + Len(part) <= Len(data)
    /\ \A i \in 1..Len(part) : data[c + i] = part[i]

LEMMA StandsLengths ==
    ASSUME NEW part, NEW data, NEW c, Stands(part, data, c)
    PROVE  /\ part \in Seq(Byte) /\ data \in Seq(Byte) /\ c \in Nat
           /\ Len(part) \in Nat /\ Len(data) \in Nat /\ c + Len(part) <= Len(data)
  BY LenProperties DEF Stands

LEMMA StandsItself ==
    ASSUME NEW data \in Seq(Byte)
    PROVE  Stands(data, data, 0)
  BY LenProperties DEF Stands

LEMMA StandsBoth ==
    ASSUME NEW a \in Seq(Byte), NEW b \in Seq(Byte), NEW data, NEW c, Stands(a \o b, data, c)
    PROVE  Stands(a, data, c) /\ Stands(b, data, c + Len(a)) /\ Len(a \o b) = Len(a) + Len(b)
  <1>1. Len(a) \in Nat /\ Len(b) \in Nat
    BY LenProperties
  <1>2. /\ Len(a \o b) = Len(a) + Len(b)
        /\ \A i \in 1..Len(a) + Len(b) :
              (a \o b)[i] = IF i <= Len(a) THEN a[i] ELSE b[i - Len(a)]
    BY ConcatProperties
  <1> DEFINE ab == a \o b
  <1> HIDE DEF ab
  <1>3. /\ data \in Seq(Byte) /\ c \in Nat /\ c + (Len(a) + Len(b)) <= Len(data)
        /\ \A i \in 1..Len(a) + Len(b) : data[c + i] = ab[i]
    BY <1>2 DEF Stands, ab
  <1>4. Len(data) \in Nat
    BY <1>3, LenProperties
  <1>5. Stands(a, data, c)
    <2>1. \A i \in 1..Len(a) : data[c + i] = a[i]
      <3>1. \A i \in 1..Len(a) : i \in 1..Len(a) + Len(b) /\ i <= Len(a)
        BY <1>1
      <3> QED BY <1>2, <1>3, <3>1 DEF ab
    <2> QED BY <1>1, <1>3, <1>4, <2>1 DEF Stands
  <1>6. Stands(b, data, c + Len(a))
    <2>1. ASSUME NEW i \in 1..Len(b) PROVE data[(c + Len(a)) + i] = b[i]
      <3> DEFINE j == Len(a) + i
      <3>1. j \in 1..Len(a) + Len(b) /\ ~(j <= Len(a)) /\ j - Len(a) = i /\ c + j = (c + Len(a)) + i
        BY <1>1, <1>3
      <3> HIDE DEF j
      <3> QED BY <1>2, <1>3, <3>1 DEF ab
    <2>2. c + Len(a) \in Nat /\ (c + Len(a)) + Len(b) <= Len(data)
      BY <1>1, <1>3, <1>4
    <2> QED BY <1>3, <2>1, <2>2 DEF Stands
  <1> QED BY <1>2, <1>5, <1>6

LEMMA Concat ==
    ASSUME NEW a \in Seq(Byte), NEW b \in Seq(Byte)
    PROVE  /\ a \o b \in Seq(Byte) /\ Len(a \o b) = Len(a) + Len(b)
           /\ Stands(a, a \o b, 0) /\ Stands(b, a \o b, Len(a))
  <1>1. a \o b \in Seq(Byte) /\ Len(a \o b) = Len(a) + Len(b) /\ Len(a) \in Nat
    BY ConcatProperties, LenProperties
  <1>2. Stands(a \o b, a \o b, 0)
    BY <1>1, StandsItself
  <1>3. Stands(a, a \o b, 0) /\ Stands(b, a \o b, 0 + Len(a))
    BY <1>2, StandsBoth
  <1> QED BY <1>1, <1>3

LEMMA ReadBytesStanding ==
    ASSUME NEW part, NEW data, NEW c, Stands(part, data, c)
    PROVE  ReadBytes(data, c, Len(part)) = Done(part, c + Len(part))
  <1>1. [i \in 1..Len(part) |-> data[c + i]] = part
    <2>1. part = [i \in 1..Len(part) |-> part[i]]
      BY LenProperties DEF Stands
    <2>2. \A i \in 1..Len(part) : data[c + i] = part[i]
      BY DEF Stands
    <2> QED BY <2>1, <2>2
  <1>2. ~(c + Len(part) > Len(data))
    BY StandsLengths
  <1> QED BY <1>1, <1>2 DEF ReadBytes

LEMMA OneByte ==
    ASSUME NEW b \in Byte
    PROVE  <<b>> \in Seq(Byte) /\ Len(<<b>>) = 1 /\ <<b>>[1] = b
  OBVIOUS

LEMMA ReadByteStanding ==
    ASSUME NEW b \in Byte, NEW data, NEW c, Stands(<<b>>, data, c)
    PROVE  ReadByte(data, c) = Done(b, c + 1)
  <1> DEFINE part == <<b>>
  <1>1. Len(part) = 1 /\ part[1] = b
    BY OneByte
  <1> HIDE DEF part
  <1>2. ReadBytes(data, c, Len(part)) = Done(part, c + Len(part))
    BY ReadBytesStanding DEF part
  <1>3. ReadBytes(data, c, 1) = Done(part, c + 1)
    BY <1>1, <1>2
  <1> DEFINE r == ReadBytes(data, c, 1)
  <1>4. ReadByte(data, c) = IF r.ok THEN Done(r.value[1], r.at) ELSE r
    BY DEF ReadByte, Try
  <1> HIDE DEF r
  <1>5. r.ok /\ r.value = part /\ r.at = c + 1
    BY <1>3 DEF Done, r
  <1> QED BY <1>1, <1>4, <1>5

LEMMA ReadPrefixedStanding ==
    ASSUME NEW text \in Seq(Byte), NEW width \in Nat, Fits(Len(text), width), NEW data, NEW c,
           Stands(Digits(Len(text), width, 256) \o text, data, c)
    PROVE  ReadPrefixed(data, c, width) = Done(text, (c + width) + Len(text))
  <1> DEFINE digits == Digits(Len(text), width, 256)
  <1>1. digits \in Seq(Byte) /\ Len(digits) = width
    BY LenProperties, DigitsSpell
  <1>2. Stands(digits, data, c) /\ Stands(text, data, c + width)
    BY <1>1, StandsBoth
  <1>3. ReadBytes(data, c, width) = Done(digits, c + width)
    BY <1>1, <1>2, ReadBytesStanding
  <1>4. FromBigEndian(digits) = Len(text)
    BY BigEndianOfDigits
  <1>5. ReadBytes(data, c + width, Len(text)) = Done(text, (c + width) + Len(text))
    BY <1>2, ReadBytesStanding
  <1> HIDE DEF digits
  <1> QED BY <1>3, <1>4, <1>5 DEF ReadPrefixed, Try, Done

(* A length of one byte.                                                   *)
LEMMA OneDigit ==
    ASSUME NEW n, Fits(n, 1)
    PROVE  n \in Byte /\ <<n>> = Digits(n, 1, 256)
  <1>1. n \in Nat /\ Without(n, 1, 256) = 0
    BY DEF Fits
  <1>2. Without(n, 0 + 1, 256) = n \div 256 /\ Without(n, 0, 256) = n
    BY <1>1, WithoutStep
  <1>3. n \in Byte /\ n % 256 = n
    BY <1>1, <1>2 DEF Byte
  <1>4. Digits(n, 1, 256) = [i \in 1..1 |-> n]
    BY <1>2, <1>3 DEF Digits
  <1> QED BY <1>3, <1>4

LEMMA ReadTextStanding ==
    ASSUME NEW text, IsText(text), NEW width \in Nat, Fits(Len(text), width), NEW data, NEW c,
           Stands(Digits(Len(text), width, 256) \o text, data, c)
    PROVE  ReadText(data, c, width) = Done(text, (c + width) + Len(text))
  <1>1. ReadPrefixed(data, c, width) = Done(text, (c + width) + Len(text))
    BY ReadPrefixedStanding DEF IsText
  <1> QED BY <1>1 DEF ReadText, Try, Utf8, Done, IsText

-----------------------------------------------------------------------------
(* What is read at a cursor, with as many calls as are needed or more.     *)

ValueAt(data, c, r) ==
    \A d \in Nat : 2 * (Len(data) - c) + 1 <= d => Calls(data, d).value[c] = r

ItemsAt(data, c, n, r) ==
    \A d \in Nat : 2 * (Len(data) - c) + 2 <= d => Calls(data, d).items[c][n] = r

FieldsAt(data, c, n, r) ==
    \A d \in Nat : 2 * (Len(data) - c) + 2 <= d => Calls(data, d).fields[c][n] = r

(* A part is read the same wherever it stands.                             *)
LEMMA Moved ==
    ASSUME NEW part, NEW data, NEW c, Stands(part, data, c), NEW n \in Nat, NEW v
    PROVE  /\ ValueAt(part, 0, Done(v, Len(part))) => ValueAt(data, c, Done(v, c + Len(part)))
           /\ ItemsAt(part, 0, n, Done(v, Len(part))) => ItemsAt(data, c, n, Done(v, c + Len(part)))
           /\ FieldsAt(part, 0, n, Done(v, Len(part))) => FieldsAt(data, c, n, Done(v, c + Len(part)))
  <1> DEFINE w == [data |-> part, other |-> data, offset |-> c, n |-> Len(part)]
             d == 2 * Len(part) + 2
             r == Done(v, Len(part))
  <1>1. /\ Len(part) \in Nat /\ Len(data) \in Nat /\ c \in Nat /\ c + Len(part) <= Len(data)
        /\ part \in Seq(Byte) /\ data \in Seq(Byte)
    BY StandsLengths
  <1>2. w.data = part /\ w.other = data /\ w.offset = c /\ w.n = Len(part)
    OBVIOUS
  <1> HIDE DEF w
  <1>3. Overlap(w)
    BY <1>1, <1>2 DEF Overlap, Stands
  <1>4. SameCursor(w, 0, c) /\ SameValue(w, 0, n, n)
    BY <1>1, <1>2 DEF SameCursor, SameValue
  <1>5. d \in Nat /\ 2 * (Len(part) - 0) + 1 <= d /\ 2 * (Len(part) - 0) + 2 <= d
    BY <1>1
  <1> HIDE DEF d
  <1>6. r.ok = TRUE /\ r.value = v /\ r.at = Len(part)
    BY DEF Done
  <1>7. ASSUME NEW r2, Mirrored(w, r, r2) PROVE r2 = Done(v, c + Len(part))
    BY <1>1, <1>2, <1>6, <1>7 DEF Mirrored
  <1>8. ASSUME NEW d2 \in Nat
        PROVE  /\ 2 * (Len(data) - c) + 1 <= d2 => Enough(w, d, d2, 0, c, 1)
               /\ 2 * (Len(data) - c) + 2 <= d2 => Enough(w, d, d2, 0, c, 2)
    BY <1>1, <1>2, <1>5 DEF Enough
  <1>9. 0 <= w.n
    BY <1>1, <1>2
  <1>10. \A d2 \in Nat : CallsRead(w, d, d2)
    BY <1>3, <1>5, CallsReadAll
  <1> HIDE DEF r
  <1>11. ASSUME ValueAt(part, 0, r), NEW d2 \in Nat, 2 * (Len(data) - c) + 1 <= d2
         PROVE  Calls(data, d2).value[c] = Done(v, c + Len(part))
    <2>1. Calls(part, d).value[0] = r
      BY <1>5, <1>11 DEF ValueAt
    <2>2. Reads(w, 0, Calls(w.data, d).value[0], Calls(w.other, d2).value[c])
      BY <1>4, <1>8, <1>10, <1>11 DEF CallsRead
    <2> QED BY <1>2, <1>7, <1>9, <2>1, <2>2 DEF Reads
  <1>12. ASSUME ItemsAt(part, 0, n, r), NEW d2 \in Nat, 2 * (Len(data) - c) + 2 <= d2
         PROVE  Calls(data, d2).items[c][n] = Done(v, c + Len(part))
    <2>1. Calls(part, d).items[0][n] = r
      BY <1>5, <1>12 DEF ItemsAt
    <2>2. Reads(w, 0, Calls(w.data, d).items[0][n], Calls(w.other, d2).items[c][n])
      BY <1>4, <1>8, <1>10, <1>12 DEF CallsRead
    <2> QED BY <1>2, <1>7, <1>9, <2>1, <2>2 DEF Reads
  <1>13. ASSUME FieldsAt(part, 0, n, r), NEW d2 \in Nat, 2 * (Len(data) - c) + 2 <= d2
         PROVE  Calls(data, d2).fields[c][n] = Done(v, c + Len(part))
    <2>1. Calls(part, d).fields[0][n] = r
      BY <1>5, <1>13 DEF FieldsAt
    <2>2. Reads(w, 0, Calls(w.data, d).fields[0][n], Calls(w.other, d2).fields[c][n])
      BY <1>4, <1>8, <1>10, <1>13 DEF CallsRead
    <2> QED BY <1>2, <1>7, <1>9, <2>1, <2>2 DEF Reads
  <1>14. ValueAt(part, 0, r) => ValueAt(data, c, Done(v, c + Len(part)))
    BY <1>11 DEF ValueAt
  <1>15. ItemsAt(part, 0, n, r) => ItemsAt(data, c, n, Done(v, c + Len(part)))
    BY <1>12 DEF ItemsAt
  <1>16. FieldsAt(part, 0, n, r) => FieldsAt(data, c, n, Done(v, c + Len(part)))
    BY <1>13 DEF FieldsAt
  <1> QED BY <1>14, <1>15, <1>16 DEF r

(* One call.                                                               *)
LEMMA ValueAtTag ==
    ASSUME NEW tag \in Byte, NEW data, NEW c, Stands(<<tag>>, data, c), NEW r,
           \A d \in Nat : 2 * (Len(data) - (c + 1)) + 2 <= d =>
              ReadPayload(tag, data, c + 1, Calls(data, d)) = r
    PROVE  ValueAt(data, c, r)
  <1>1. c \in Nat /\ Len(data) \in Nat /\ c + 1 <= Len(data)
    <2>1. c + Len(<<tag>>) <= Len(data)
      BY StandsLengths
    <2> QED BY <2>1, OneByte, StandsLengths
  <1>2. ReadByte(data, c) = Done(tag, c + 1)
    BY ReadByteStanding
  <1>3. ASSUME NEW d \in Nat, 2 * (Len(data) - c) + 1 <= d
        PROVE  Calls(data, d).value[c] = r
    <2> DEFINE e == d - 1
    <2>1. e \in Nat /\ d = e + 1 /\ 2 * (Len(data) - (c + 1)) + 2 <= e
      BY <1>1, <1>3
    <2> HIDE DEF e
    <2>2. Calls(data, d).value[c] = ReadValue(data, c, Calls(data, e))
      BY <1>1, <2>1, CallsAre
    <2> DEFINE b == ReadByte(data, c)
    <2>3. ReadValue(data, c, Calls(data, e)) =
             IF b.ok THEN ReadPayload(b.value, data, b.at, Calls(data, e)) ELSE b
      BY DEF ReadValue, Try
    <2>4. b.ok /\ b.value = tag /\ b.at = c + 1
      BY <1>2 DEF Done
    <2>5. ReadPayload(tag, data, c + 1, Calls(data, e)) = r
      BY <2>1
    <2> QED BY <2>2, <2>3, <2>4, <2>5
  <1> QED BY <1>3 DEF ValueAt

LEMMA ItemsAtEnd ==
    ASSUME NEW data \in Seq(Byte), NEW c \in Nat, c <= Len(data)
    PROVE  ItemsAt(data, c, 0, Done(<<>>, c)) /\ FieldsAt(data, c, 0, Done({}, c))
  <1>1. ASSUME NEW d \in Nat, 2 * (Len(data) - c) + 2 <= d
        PROVE  /\ Calls(data, d).items[c][0] = Done(<<>>, c)
               /\ Calls(data, d).fields[c][0] = Done({}, c)
    <2> DEFINE e == d - 1
               none == 0
    <2>1. e \in Nat /\ d = e + 1 /\ none \in Nat
      BY <1>1, LenProperties
    <2> HIDE DEF e, none
    <2>2. /\ Calls(data, d).items[c][none] = ReadItems(data, c, none, Calls(data, e))
          /\ Calls(data, d).fields[c][none] = ReadFields(data, c, none, Calls(data, e))
      BY <2>1, CallsAre
    <2> QED BY <2>2 DEF ReadItems, ReadFields, none
  <1> QED BY <1>1 DEF ItemsAt, FieldsAt

LEMMA ItemsAtNext ==
    ASSUME NEW data \in Seq(Byte), NEW c \in Nat, NEW c1 \in Nat, NEW n \in Nat,
           c < c1, c1 <= Len(data), NEW x, NEW xs, NEW c2,
           ValueAt(data, c, Done(x, c1)), ItemsAt(data, c1, n, Done(xs, c2))
    PROVE  ItemsAt(data, c, n + 1, Done(<<x>> \o xs, c2))
  <1>1. ASSUME NEW d \in Nat, 2 * (Len(data) - c) + 2 <= d
        PROVE  Calls(data, d).items[c][n + 1] = Done(<<x>> \o xs, c2)
    <2> DEFINE e == d - 1
               m == n + 1
               r == Calls(data, e).value[c]
               s == Calls(data, e).items[r.at][m - 1]
    <2>1. /\ e \in Nat /\ d = e + 1 /\ m \in Nat /\ m # 0 /\ m - 1 = n
          /\ 2 * (Len(data) - c) + 1 <= e /\ 2 * (Len(data) - c1) + 2 <= e
      BY <1>1, LenProperties
    <2> HIDE DEF e, m
    <2>2. Calls(data, d).items[c][m] = ReadItems(data, c, m, Calls(data, e))
      BY <2>1, CallsAre
    <2>3. ReadItems(data, c, m, Calls(data, e)) =
             IF r.ok THEN IF s.ok THEN Done(<<r.value>> \o s.value, s.at) ELSE s ELSE r
      BY <2>1 DEF ReadItems, Try
    <2>4. r = Done(x, c1)
      BY <2>1 DEF ValueAt
    <2>5. r.ok /\ r.value = x /\ r.at = c1
      BY <2>4 DEF Done
    <2>6. s = Done(xs, c2)
      BY <2>1, <2>5 DEF ItemsAt
    <2>7. s.ok /\ s.value = xs /\ s.at = c2
      BY <2>6 DEF Done
    <2> HIDE DEF r, s
    <2> QED BY <2>2, <2>3, <2>5, <2>7 DEF m
  <1> QED BY <1>1 DEF ItemsAt

LEMMA FieldsAtNext ==
    ASSUME NEW data \in Seq(Byte), NEW c \in Nat, NEW c1 \in Nat, NEW c2 \in Nat, NEW n \in Nat,
           c < c1, c1 <= c2, c2 <= Len(data), NEW name, NEW x, NEW fs, NEW c3,
           ReadText(data, c, 1) = Done(name, c1), ValueAt(data, c1, Done(x, c2)),
           FieldsAt(data, c2, n, Done(fs, c3)), \A f \in fs : f[1] # name
    PROVE  FieldsAt(data, c, n + 1, Done(fs \cup {<<name, x>>}, c3))
  <1>1. ASSUME NEW d \in Nat, 2 * (Len(data) - c) + 2 <= d
        PROVE  Calls(data, d).fields[c][n + 1] = Done(fs \cup {<<name, x>>}, c3)
    <2> DEFINE e == d - 1
               m == n + 1
               q == ReadText(data, c, 1)
               r == Calls(data, e).value[q.at]
               s == Calls(data, e).fields[r.at][m - 1]
    <2>1. /\ e \in Nat /\ d = e + 1 /\ m \in Nat /\ m # 0 /\ m - 1 = n
          /\ 2 * (Len(data) - c1) + 1 <= e /\ 2 * (Len(data) - c2) + 2 <= e
      BY <1>1, LenProperties
    <2> HIDE DEF e, m
    <2>2. Calls(data, d).fields[c][m] = ReadFields(data, c, m, Calls(data, e))
      BY <2>1, CallsAre
    <2>3. ReadFields(data, c, m, Calls(data, e)) =
             IF q.ok
             THEN IF r.ok
                  THEN IF s.ok THEN Done(InsertBefore(q.value, r.value, s.value), s.at) ELSE s
                  ELSE r
             ELSE q
      BY <2>1 DEF ReadFields, Try
    <2>4. q.ok /\ q.value = name /\ q.at = c1
      BY DEF Done
    <2> HIDE DEF q
    <2>5. r = Done(x, c2)
      BY <2>1, <2>4 DEF ValueAt
    <2>6. r.ok /\ r.value = x /\ r.at = c2
      BY <2>5 DEF Done
    <2> HIDE DEF r
    <2>7. s = Done(fs, c3)
      BY <2>1, <2>6 DEF FieldsAt
    <2>8. s.ok /\ s.value = fs /\ s.at = c3
      BY <2>7 DEF Done
    <2> HIDE DEF s
    <2>9. InsertBefore(name, x, fs) = fs \cup {<<name, x>>}
      BY DEF InsertBefore
    <2> QED BY <2>2, <2>3, <2>4, <2>6, <2>8, <2>9 DEF m
  <1> QED BY <1>1 DEF FieldsAt

-----------------------------------------------------------------------------
(* Less of a number, and the numbers less than it.                         *)

LEMMA WithoutGrows ==
    ASSUME NEW n \in Nat, NEW m \in 0..n, NEW k \in Nat, NEW base \in {32, 256}
    PROVE  Without(m, k, base) \in 0..Without(n, k, base) /\ Without(n, k, base) \in Nat
  <1> DEFINE S == {j \in Nat : Without(n, j, base) \in Nat
                                  /\ Without(m, j, base) \in 0..Without(n, j, base)}
  <1>0. n \in Int /\ m \in Int /\ base \in Nat \ {0} /\ m \in Nat
    OBVIOUS
  <1>1. 0 \in S
    <2>1. Without(m, 0, base) = m /\ Without(n, 0, base) = n
      BY <1>0, WithoutStep
    <2> QED BY <2>1
  <1>2. ASSUME NEW j \in Nat, j \in S PROVE j + 1 \in S
    <2> DEFINE x == Without(m, j, base)
               y == Without(n, j, base)
    <2>1. x \in Nat /\ y \in Nat /\ x <= y
      BY <1>2
    <2>2. Without(m, j + 1, base) = x \div base /\ Without(n, j + 1, base) = y \div base
      BY <1>0, WithoutStep
    <2> HIDE DEF x, y
    <2>3. x \div base \in Nat /\ y \div base \in Nat /\ x \div base <= y \div base
      <3>1. CASE base = 32
        BY <2>1, <3>1
      <3>2. CASE base = 256
        BY <2>1, <3>2
      <3> QED BY <3>1, <3>2
    <2> QED BY <2>2, <2>3
  <1>3. k \in S
    <2> HIDE DEF S
    <2> QED BY <1>1, <1>2, Induction
  <1> QED BY <1>3

LEMMA FitsLess ==
    ASSUME NEW n, NEW m, NEW width \in Nat, Fits(n, width), m \in 0..n
    PROVE  Fits(m, width)
  BY WithoutGrows DEF Fits

(* Digits may be taken from the number before or after the others.         *)
LEMMA WithoutFirst ==
    ASSUME NEW n \in Int, NEW k \in Nat, NEW base \in Nat \ {0}
    PROVE  Without(n, k + 1, base) = Without(n \div base, k, base)
  <1> DEFINE S == {j \in Nat : Without(n, j + 1, base) = Without(n \div base, j, base)}
  <1>0. n \div base \in Int
    OBVIOUS
  <1>1. 0 \in S
    <2>1. Without(n, 0, base) = n /\ Without(n \div base, 0, base) = n \div base
      BY <1>0, WithoutStep
    <2> DEFINE none == 0
    <2>2. none \in Nat /\ none = 0
      OBVIOUS
    <2> HIDE DEF none
    <2>3. Without(n, none + 1, base) = Without(n, none, base) \div base
      BY <2>2, WithoutStep
    <2> QED BY <2>1, <2>2, <2>3
  <1>2. ASSUME NEW j \in Nat, j \in S PROVE j + 1 \in S
    <2>1. Without(n, (j + 1) + 1, base) = Without(n, j + 1, base) \div base
      BY WithoutStep
    <2>2. Without(n \div base, j + 1, base) = Without(n \div base, j, base) \div base
      BY <1>0, WithoutStep
    <2> QED BY <1>2, <2>1, <2>2
  <1>3. k \in S
    <2> HIDE DEF S
    <2> QED BY <1>1, <1>2, Induction
  <1> QED BY <1>3

LEMMA Minimum ==
    ASSUME NEW S \in SUBSET Nat, S # {}
    PROVE  Min(S) \in S /\ \A y \in S : Min(S) <= y
  <1> SUFFICES \E x \in S : \A y \in S : x <= y
    BY DEF Min
  <1> SUFFICES ASSUME ~\E x \in S : \A y \in S : x <= y PROVE FALSE
    OBVIOUS
  <1> DEFINE Smaller == {n \in Nat : \A m \in 0..n : m \notin S}
  <1>1. 0 \in Smaller
    <2>1. \A y \in S : 0 <= y
      OBVIOUS
    <2> QED BY <2>1
  <1>2. ASSUME NEW n \in Nat, n \in Smaller PROVE n + 1 \in Smaller
    <2>1. ASSUME NEW y \in S PROVE n + 1 <= y
      <3>1. y \in Nat /\ y \notin 0..n
        BY <1>2
      <3> QED BY <3>1
    <2> QED BY <1>2, <2>1
  <1>3. Nat \subseteq Smaller
    <2> HIDE DEF Smaller
    <2> QED BY <1>1, <1>2, Induction
  <1>4. PICK y \in S : TRUE
    OBVIOUS
  <1>5. y \in Nat /\ y \in 0..y
    OBVIOUS
  <1> QED BY <1>3, <1>4, <1>5

-----------------------------------------------------------------------------
(* The decoder as it is called.                                            *)

LEMMA DecodeReads ==
    ASSUME NEW w, Overlap(w), NEW c, NEW c2, SameCursor(w, c, c2)
    PROVE  /\ Reads(w, c, DecodeValue(w.data, c), DecodeValue(w.other, c2))
           /\ DecodeValue(w.data, c).ok => DecodeValue(w.data, c).at > c
  <1> DEFINE d == 2 * Len(w.data) + 1
             d2 == 2 * Len(w.other) + 1
             none == 0
  <1>1. c \in Nat /\ d \in Nat /\ d2 \in Nat /\ none \in Nat
    BY Lengths, Cursor
  <1>2. Enough(w, d, d2, c, c2, 1)
    <2>1. 2 * (Len(w.data) - c) + 1 <= d
      BY <1>1, Lengths
    <2>2. ASSUME c <= w.n PROVE 2 * (Len(w.other) - c2) + 1 <= d2
      <3>1. c2 \in Nat /\ Len(w.other) \in Nat
        BY <1>1, <2>2, Lengths DEF SameCursor
      <3> QED BY <3>1
    <2> QED BY <2>1, <2>2 DEF Enough
  <1>3. SameValue(w, c, none, none)
    BY DEF SameValue
  <1>4. DecodeValue(w.data, c) = Calls(w.data, d).value[c]
    BY DEF DecodeValue
  <1>5. DecodeValue(w.other, c2) = Calls(w.other, d2).value[c2]
    BY DEF DecodeValue
  <1> HIDE DEF d, d2, none
  <1>6. CallsRead(w, d, d2)
    BY <1>1, CallsReadAll
  <1> QED BY <1>1, <1>2, <1>3, <1>4, <1>5, <1>6 DEF CallsRead

(* The recursion ends: the decoder answers every text that it is called on *)
(* with a value of at least a byte, which ends within the text, or with an *)
(* error of the code at an offset within it, which for an unknown tag is   *)
(* that of the tag.  No number of calls is too small to tell which.        *)
THEOREM DecoderEnds ==
    ASSUME NEW data \in Seq(Byte), NEW cursor \in 0..Len(data)
    PROVE  /\ Sound(data, cursor, DecodeValue(data, cursor))
           /\ DecodeValue(data, cursor).ok => DecodeValue(data, cursor).at > cursor
           /\ DecodeValue(data, cursor) # TooDeep
  <1> DEFINE w == [data |-> data, other |-> data, offset |-> 0, n |-> Len(data)]
  <1>1. w.data = data /\ w.other = data /\ w.offset = 0 /\ w.n = Len(data)
    OBVIOUS
  <1> HIDE DEF w
  <1>2. Len(data) \in Nat
    BY LenProperties
  <1>3. Overlap(w)
    BY <1>1, <1>2 DEF Overlap
  <1>4. SameCursor(w, cursor, cursor)
    BY <1>1, <1>2 DEF SameCursor
  <1>5. /\ Reads(w, cursor, DecodeValue(w.data, cursor), DecodeValue(w.other, cursor))
        /\ DecodeValue(w.data, cursor).ok => DecodeValue(w.data, cursor).at > cursor
    BY <1>3, <1>4, DecodeReads
  <1>6. Sound(data, cursor, DecodeValue(data, cursor))
    BY <1>1, <1>5 DEF Reads
  <1>7. ASSUME NEW r, Sound(data, cursor, r) PROVE r # TooDeep
    BY <1>7 DEF Sound, TooDeep
  <1> QED BY <1>1, <1>5, <1>6, <1>7

IsDone(r, v, at) == r = Done(v, at)

(* A value stands at the front of a text and nowhere else is looked: of    *)
(* the text alone up to where the decoder stopped it reads the same value, *)
(* and of less than that it reads none.                                    *)
LEMMA DecodePrefix ==
    ASSUME NEW data \in Seq(Byte), NEW n \in 0..Len(data), NEW v, NEW at,
           DecodeValue(data, 0) = Done(v, at)
    PROVE  /\ Prefix(data, n) \in Seq(Byte) /\ Len(Prefix(data, n)) = n
           /\ at \in 1..Len(data)
           /\ at <= n => IsDone(DecodeValue(Prefix(data, n), 0), v, at)
           /\ at > n => /\ DecodeValue(Prefix(data, n), 0).ok = FALSE
                        /\ DecodeValue(Prefix(data, n), 0).error = "UnexpectedEof"
                        /\ DecodeValue(Prefix(data, n), 0).at \in 0..n
  <1> DEFINE part == Prefix(data, n)
             w == [data |-> data, other |-> part, offset |-> 0, n |-> n]
             r == DecodeValue(data, 0)
  <1>1. w.data = data /\ w.other = part /\ w.offset = 0 /\ w.n = n
    OBVIOUS
  <1> HIDE DEF w
  <1>2. Len(data) \in Nat /\ n \in Nat /\ n <= Len(data)
    BY LenProperties
  <1>3. \A i \in 1..n : data[i] \in Byte
    BY <1>2, ElementOfSeq
  <1>4. part \in Seq(Byte) /\ Len(part) = n /\ \A i \in 1..n : part[i] = data[i]
    BY <1>2, <1>3 DEF Prefix
  <1> HIDE DEF part
  <1>5. Overlap(w)
    BY <1>1, <1>2, <1>4 DEF Overlap
  <1>6. SameCursor(w, 0, 0)
    BY <1>1, <1>2 DEF SameCursor
  <1>7. /\ Reads(w, 0, DecodeValue(w.data, 0), DecodeValue(w.other, 0))
        /\ DecodeValue(w.data, 0).ok => DecodeValue(w.data, 0).at > 0
    BY <1>5, <1>6, DecodeReads
  <1>8. Sound(data, 0, r) /\ Mirrored(w, r, DecodeValue(part, 0)) /\ (r.ok => r.at > 0)
    BY <1>1, <1>2, <1>7 DEF Reads
  <1>9. r.ok = TRUE /\ r.value = v /\ r.at = at
    BY DEF Done
  <1> HIDE DEF r
  <1>10. at \in 1..Len(data)
    BY <1>2, <1>8, <1>9 DEF Sound
  <1>11. at <= n => IsDone(DecodeValue(part, 0), v, at)
    BY <1>1, <1>8, <1>9, <1>10 DEF Mirrored, IsDone
  <1>12. at > n => /\ DecodeValue(part, 0).ok = FALSE
                   /\ DecodeValue(part, 0).error = "UnexpectedEof"
                   /\ DecodeValue(part, 0).at \in 0..n
    BY <1>1, <1>4, <1>8, <1>9, <1>10, <1>2 DEF Mirrored
  <1> QED BY <1>4, <1>10, <1>11, <1>12 DEF part

LEMMA DecodeAgain ==
    ASSUME NEW data \in Seq(Byte), NEW n \in 0..Len(data), NEW v, NEW at, at <= n,
           DecodeValue(data, 0) = Done(v, at)
    PROVE  DecodeValue(Prefix(data, n), 0) = Done(v, at)
  <1>1. IsDone(DecodeValue(Prefix(data, n), 0), v, at)
    BY DecodePrefix
  <1> QED BY <1>1 DEF IsDone

(* A value that is read is the result of a call that was done.             *)
LEMMA DecodeDone ==
    ASSUME NEW data \in Seq(Byte), DecodeValue(data, 0).ok
    PROVE  DecodeValue(data, 0) = Done(DecodeValue(data, 0).value, DecodeValue(data, 0).at)
  <1> DEFINE w == [data |-> data, other |-> data, offset |-> 0, n |-> Len(data)]
             r == DecodeValue(data, 0)
  <1>1. w.data = data /\ w.other = data /\ w.offset = 0 /\ w.n = Len(data)
    OBVIOUS
  <1> HIDE DEF w
  <1>2. Len(data) \in Nat
    BY LenProperties
  <1>3. Overlap(w) /\ SameCursor(w, 0, 0)
    BY <1>1, <1>2 DEF Overlap, SameCursor
  <1>4. Reads(w, 0, DecodeValue(w.data, 0), DecodeValue(w.other, 0))
    BY <1>3, DecodeReads
  <1>5. Sound(data, 0, r) /\ Mirrored(w, r, r)
    BY <1>1, <1>2, <1>4 DEF Reads
  <1> HIDE DEF r
  <1>6. r.at \in 0..Len(data)
    BY <1>5, <1>2 DEF Sound, r
  <1>7. r = Done(r.value, r.at)
    BY <1>1, <1>2, <1>5, <1>6 DEF Mirrored, r
  <1> QED BY <1>7 DEF r

-----------------------------------------------------------------------------
(* c32: the divisions of the code give the digits of the number.           *)

LEMMA ZerosInFront ==
    ASSUME NEW bytes \in Seq(Byte)
    PROVE  /\ LeadingZeros(bytes) \in 0..Len(bytes)
           /\ \A i \in 1..LeadingZeros(bytes) : bytes[i] = 0
  <1> DEFINE len == Len(bytes)
             S == {i \in DOMAIN bytes : bytes[i] # 0} \cup {len + 1}
  <1>1. len \in Nat /\ DOMAIN bytes = 1..len
    BY LenProperties
  <1>2. S \in SUBSET Nat /\ S # {} /\ S \subseteq 1..len + 1 /\ len + 1 \in S
    BY <1>1
  <1>3. Min(S) \in S /\ \A y \in S : Min(S) <= y
    BY <1>2, Minimum
  <1> DEFINE min == Min(S)
  <1>4. LeadingZeros(bytes) = min - 1
    BY DEF LeadingZeros
  <1>5. min \in S /\ min \in 1..len + 1 /\ \A y \in S : min <= y
    BY <1>2, <1>3
  <1> HIDE DEF min
  <1>6. ASSUME NEW i \in 1..min - 1 PROVE bytes[i] = 0
    <2>1. i \in 1..len /\ ~(min <= i)
      BY <1>1, <1>5
    <2>2. i \notin S
      BY <1>5, <2>1, Zenon
    <2> QED BY <1>1, <2>1, <2>2
  <1>7. min - 1 \in 0..len
    BY <1>1, <1>5
  <1> HIDE DEF S
  <1> QED BY <1>4, <1>6, <1>7

(* Zeros in front do not count.                                            *)
LEMMA ZerosDropped ==
    ASSUME NEW bytes \in Seq(Byte), NEW z \in 0..Len(bytes), \A i \in 1..z : bytes[i] = 0
    PROVE  /\ [i \in 1..Len(bytes) - z |-> bytes[z + i]] \in Seq(Byte)
           /\ FromBigEndian([i \in 1..Len(bytes) - z |-> bytes[z + i]]) = FromBigEndian(bytes)
  <1> DEFINE len == Len(bytes)
             rest == [i \in 1..len - z |-> bytes[z + i]]
  <1>1. len \in Nat /\ z \in Nat /\ z <= len /\ len - z \in Nat
    BY LenProperties
  <1>2. rest \in Seq(Byte) /\ Len(rest) = len - z /\ \A i \in 1..len - z : rest[i] = bytes[z + i]
    <2>1. \A i \in 1..len - z : bytes[z + i] \in Byte
      <3>1. \A i \in 1..len - z : z + i \in 1..len
        BY <1>1
      <3> QED BY <3>1, ElementOfSeq
    <2> QED BY <1>1, <2>1
  <1>3. PICK r \in [0..len -> Nat] :
           /\ r[0] = 0
           /\ \A i \in 1..len : r[i] = 256 * r[i - 1] + bytes[i]
           /\ FromBigEndian(bytes) = r[len]
    BY BigEndianSteps
  <1> HIDE DEF rest
  <1>4. r[z] = 0
    <2> DEFINE S == {j \in Nat : j <= z => r[j] = 0}
    <2>1. 0 \in S
      BY <1>3
    <2>2. ASSUME NEW j \in Nat, j \in S PROVE j + 1 \in S
      <3>1. ASSUME j + 1 <= z PROVE r[j + 1] = 0
        <4> DEFINE k == j + 1
        <4>1. k \in 1..len /\ k \in 1..z /\ k - 1 = j /\ j <= z
          BY <1>1, <3>1
        <4> HIDE DEF k
        <4>2. r[k] = 256 * r[k - 1] + bytes[k] /\ bytes[k] = 0 /\ r[k - 1] = 0
          BY <1>3, <2>2, <4>1
        <4> QED BY <4>2 DEF k
      <3> QED BY <3>1
    <2>3. z \in S
      <3> HIDE DEF S
      <3> QED BY <1>1, <2>1, <2>2, Induction
    <2> QED BY <2>3
  <1> DEFINE s == [i \in 0..Len(rest) |-> r[z + i]]
  <1>5. s \in [0..Len(rest) -> Int] /\ s[0] = 0 /\ s[Len(rest)] = r[len]
    BY <1>1, <1>2, <1>4
  <1>6. ASSUME NEW i \in 1..Len(rest) PROVE s[i] = 256 * s[i - 1] + rest[i]
    <2> DEFINE k == z + i
    <2>1. k \in 1..len /\ k - 1 = z + (i - 1) /\ i \in 0..Len(rest) /\ i - 1 \in 0..Len(rest)
          /\ i \in 1..len - z
      BY <1>1, <1>2
    <2>2. s[i] = r[z + i] /\ s[i - 1] = r[z + (i - 1)] /\ rest[i] = bytes[z + i]
      BY <1>2, <2>1
    <2> HIDE DEF s
    <2>3. r[k] = 256 * r[k - 1] + bytes[k]
      <3> HIDE DEF k
      <3> QED BY <1>3, <2>1
    <2> QED BY <2>1, <2>2, <2>3
  <1> HIDE DEF s
  <1>7. rest \in Seq(Int)
    BY <1>2, BytesAreNumbers
  <1> DEFINE first == 0
  <1>8. first \in Int /\ s[0] = first
    BY <1>5
  <1> HIDE DEF first
  <1>9. BigEndianAfter(first, rest) = s[Len(rest)]
    BY <1>5, <1>6, <1>7, <1>8, BigEndianIs, ZenonT(40)
  <1>10. FromBigEndian(rest) = s[Len(rest)]
    BY <1>9 DEF FromBigEndian, first
  <1> QED BY <1>2, <1>3, <1>5, <1>10 DEF rest

(* What divmod32 goes through.                                             *)
LEMMA DivMod32Steps ==
    ASSUME NEW data \in Seq(Byte)
    PROVE  \E m \in [0..Len(data) -> 0..31] :
              /\ m[0] = 0
              /\ \A i \in 1..Len(data) : m[i] = (256 * m[i - 1] + data[i]) % 32
              /\ DivMod32(data).remainder = m[Len(data)]
              /\ \A result : result = [i \in 1..Len(data) |-> (256 * m[i - 1] + data[i]) \div 32] =>
                    DivMod32(data).quotient =
                       [i \in 1..Len(data) - LeadingZeros(result) |-> result[LeadingZeros(result) + i]]
  <1> DEFINE len == Len(data)
             first == 0
             def(f) == f = [i \in 0..Len(data) |->
                              IF i = 0 THEN 0 ELSE (256 * f[i - 1] + data[i]) % 32]
             n == CHOOSE f : def(f)
             step == [i \in 1..len |-> [x \in 0..31 |-> (256 * x + data[i]) % 32]]
  <1>1. len \in Nat /\ DOMAIN data = 1..len /\ \A i \in 1..len : data[i] \in Nat
    BY BytesAreNumbers, LenProperties
  <1>2. step \in [1..len -> [0..31 -> 0..31]]
    <2>1. \A b \in Nat, x \in 0..31 : (256 * x + b) % 32 \in 0..31
      OBVIOUS
    <2> QED BY <1>1, <2>1
  <1>3. \A i \in 1..len, x \in 0..31 : step[i][x] = (256 * x + data[i]) % 32
    OBVIOUS
  <1>4. first \in 0..31 /\ first = 0
    OBVIOUS
  <1> HIDE DEF step, first
  <1>5. PICK m \in [0..len -> 0..31] : Solves(m, len, first, step)
    <2> HIDE DEF len
    <2> QED BY <1>1, <1>2, <1>4, RecursionExists, Zenon
  <1>6. m[0] = 0 /\ \A i \in 1..len : m[i] = (256 * m[i - 1] + data[i]) % 32
    <2>1. m[0] = 0 /\ \A i \in 1..len : m[i] = step[i][m[i - 1]]
      BY <1>4, <1>5 DEF Solves
    <2>2. \A i \in 1..len : m[i - 1] \in 0..31
      <3>1. \A i \in 1..len : i - 1 \in 0..len
        BY <1>1
      <3> HIDE DEF len
      <3> QED BY <1>5, <3>1
    <2> QED BY <1>3, <2>1, <2>2, ZenonT(40)
  <1>7. def(m)
    BY <1>6
  <1>8. def(n)
    BY <1>7, SMTT(40)
  <1> HIDE DEF n
  <1>9. n = m
    <2>1. n[0] = m[0]
      BY <1>1, <1>6, <1>8
    <2>2. ASSUME NEW i \in 1..len PROVE n[i] = (256 * n[i - 1] + data[i]) % 32
      <3>1. i \in 0..Len(data) /\ i # 0
        OBVIOUS
      <3> QED BY <1>8, <3>1, Zenon
    <2>3. StepAlike(n, m, len)
      BY <1>6, <2>2 DEF StepAlike
    <2>4. Alike(n, m, len)
      BY <1>1, <2>1, <2>3, RecursionUnique
    <2>5. n = [i \in 0..len |-> n[i]] /\ m = [i \in 0..len |-> m[i]]
      BY <1>5, <1>8
    <2> QED BY <2>4, <2>5 DEF Alike
  <1>10. DivMod32(data) =
           LET result == [i \in DOMAIN data |-> (256 * n[i - 1] + data[i]) \div 32]
               zeros == LeadingZeros(result)
           IN  [quotient  |-> [i \in 1..Len(data) - zeros |-> result[zeros + i]],
                remainder |-> n[Len(data)]]
    BY DEF DivMod32, n
  <1>11. DivMod32(data).remainder = m[len]
    BY <1>9, <1>10
  <1>12. ASSUME NEW result, result = [i \in 1..len |-> (256 * m[i - 1] + data[i]) \div 32]
         PROVE  DivMod32(data).quotient =
                  [i \in 1..len - LeadingZeros(result) |-> result[LeadingZeros(result) + i]]
    <2>1. result = [i \in DOMAIN data |-> (256 * n[i - 1] + data[i]) \div 32]
      BY <1>1, <1>9, <1>12
    <2> QED BY <1>10, <2>1
  <1> QED BY <1>6, <1>11, <1>12

(* A turn of the long division.                                            *)
LEMMA DivisionTurn ==
    ASSUME NEW q \in Nat, NEW m \in Nat, NEW b \in Nat, NEW x, x = 256 * m + b
    PROVE  256 * (32 * q + m) + b = 32 * (256 * q + (x \div 32)) + (x % 32)
  <1>1. x \in Nat
    OBVIOUS
  <1>2. 256 * (32 * q + m) + b = 32 * (256 * q) + x
    OBVIOUS
  <1> DEFINE y == x \div 32
             z == x % 32
  <1>3. x = 32 * y + z /\ y \in Nat /\ z \in Nat
    BY <1>1
  <1> HIDE DEF y, z
  <1>4. 32 * (256 * q + y) + z = 32 * (256 * q) + (32 * y + z)
    BY <1>3
  <1>5. 256 * (32 * q + m) + b = 32 * (256 * q + y) + z
    BY <1>2, <1>3, <1>4
  <1> QED BY <1>5 DEF y, z

LEMMA DivMod32Divides ==
    ASSUME NEW data \in Seq(Byte)
    PROVE  /\ DivMod32(data).quotient \in Seq(Byte)
           /\ FromBigEndian(DivMod32(data).quotient) = FromBigEndian(data) \div 32
           /\ DivMod32(data).remainder = FromBigEndian(data) % 32
  <1> DEFINE len == Len(data)
  <1>1. len \in Nat /\ \A i \in 1..len : data[i] \in Nat /\ data[i] < 256
    BY BytesAreNumbers
  <1> HIDE DEF len
  <1>2. PICK m \in [0..len -> 0..31] :
              /\ m[0] = 0
              /\ \A i \in 1..len : m[i] = (256 * m[i - 1] + data[i]) % 32
              /\ DivMod32(data).remainder = m[len]
              /\ \A result : result = [i \in 1..len |-> (256 * m[i - 1] + data[i]) \div 32] =>
                    DivMod32(data).quotient =
                       [i \in 1..len - LeadingZeros(result) |-> result[LeadingZeros(result) + i]]
    BY DivMod32Steps DEF len
  <1> DEFINE result == [i \in 1..len |-> (256 * m[i - 1] + data[i]) \div 32]
             z == LeadingZeros(result)
  <1>3. \A i \in 1..len : m[i] \in 0..31 /\ m[i - 1] \in 0..31
    <2>1. \A i \in 1..len : i \in 0..len /\ i - 1 \in 0..len
      BY <1>1
    <2> QED BY <1>2, <2>1
  <1>4. result \in Seq(Byte) /\ Len(result) = len
    <2>1. \A x \in 0..31, b \in Nat : b < 256 => (256 * x + b) \div 32 \in Byte
      BY DEF Byte
    <2>2. \A i \in 1..len : (256 * m[i - 1] + data[i]) \div 32 \in Byte
      BY <1>1, <1>3, <2>1, ZenonT(40)
    <2> QED BY <1>1, <2>2
  <1>5. \A i \in 1..len : result[i] = (256 * m[i - 1] + data[i]) \div 32
    OBVIOUS
  <1>6. DivMod32(data).quotient = [i \in 1..len - z |-> result[z + i]]
    BY <1>2, ZenonT(40)
  <1> HIDE DEF result
  <1>7. z \in 0..Len(result) /\ \A i \in 1..z : result[i] = 0
    BY <1>4, ZerosInFront
  <1>8. /\ DivMod32(data).quotient \in Seq(Byte)
        /\ FromBigEndian(DivMod32(data).quotient) = FromBigEndian(result)
    <2> HIDE DEF z
    <2>1. /\ [i \in 1..Len(result) - z |-> result[z + i]] \in Seq(Byte)
          /\ FromBigEndian([i \in 1..Len(result) - z |-> result[z + i]]) = FromBigEndian(result)
      BY <1>4, <1>7, ZerosDropped
    <2> QED BY <1>4, <1>6, <2>1
  <1>9. PICK n \in [0..len -> Nat] :
           n[0] = 0 /\ (\A i \in 1..len : n[i] = 256 * n[i - 1] + data[i]) /\ FromBigEndian(data) = n[len]
    BY BigEndianSteps DEF len
  <1>10. PICK q \in [0..len -> Nat] :
           q[0] = 0 /\ (\A i \in 1..len : q[i] = 256 * q[i - 1] + result[i])
           /\ FromBigEndian(result) = q[len]
    BY <1>4, BigEndianSteps
  <1> DEFINE S == {i \in Nat : i <= len => n[i] = 32 * q[i] + m[i]}
  <1>11. 0 \in S
    BY <1>2, <1>9, <1>10
  <1>12. ASSUME NEW i \in Nat, i \in S PROVE i + 1 \in S
    <2>1. ASSUME i + 1 <= len PROVE n[i + 1] = 32 * q[i + 1] + m[i + 1]
      <3> DEFINE k == i + 1
      <3>1. k \in 1..len /\ k - 1 = i /\ i <= len /\ i \in 0..len
        BY <1>1, <2>1
      <3> HIDE DEF k
      <3>2. n[i] = 32 * q[i] + m[i] /\ n[i] \in Nat /\ q[i] \in Nat /\ m[i] \in Nat /\ data[k] \in Nat
        <4>1. n[i] = 32 * q[i] + m[i]
          BY <1>12, <3>1
        <4>2. n[i] \in Nat /\ q[i] \in Nat /\ m[i] \in 0..31
          BY <3>1
        <4>3. data[k] \in Nat
          BY <1>1, <3>1, Zenon
        <4>4. \A x \in 0..31 : x \in Nat
          OBVIOUS
        <4> QED BY <4>1, <4>2, <4>3, <4>4, Zenon
      <3>3. n[k] = 256 * n[i] + data[k]
        BY <1>9, <3>1
      <3>4. m[k] = (256 * m[i] + data[k]) % 32
        BY <1>2, <3>1
      <3>5. q[k] = 256 * q[i] + result[k] /\ result[k] = (256 * m[i] + data[k]) \div 32
        BY <1>5, <1>10, <3>1
      <3> DEFINE q1 == q[i]
                 m1 == m[i]
                 n1 == n[i]
                 b == data[k]
                 q2 == q[k]
                 m2 == m[k]
                 n2 == n[k]
      <3>6. n1 = 32 * q1 + m1 /\ q1 \in Nat /\ m1 \in Nat /\ b \in Nat
        BY <3>2
      <3>7. n2 = 256 * n1 + b
        BY <3>3
      <3> DEFINE x == 256 * m1 + b
      <3>8. m2 = x % 32 /\ q2 = 256 * q1 + (x \div 32)
        BY <3>4, <3>5
      <3> HIDE DEF q1, m1, n1, b, q2, m2, n2
      <3>9. n2 = 32 * q2 + m2
        <4>1. n2 = 256 * (32 * q1 + m1) + b
          BY <3>6, <3>7
        <4>2. x = 256 * m1 + b
          OBVIOUS
        <4> HIDE DEF x
        <4>3. 256 * (32 * q1 + m1) + b = 32 * (256 * q1 + (x \div 32)) + (x % 32)
          BY <3>6, <4>2, DivisionTurn
        <4> QED BY <3>8, <4>1, <4>3
      <3> QED BY <3>9 DEF k, q2, m2, n2
    <2> QED BY <2>1
  <1>13. n[len] = 32 * q[len] + m[len]
    <2>1. len \in S
      <3> HIDE DEF S
      <3> QED BY <1>1, <1>11, <1>12, Induction
    <2> QED BY <2>1
  <1>14. n[len] \in Nat /\ q[len] \in Nat /\ m[len] \in 0..31
    BY <1>1
  <1>15. q[len] = n[len] \div 32 /\ m[len] = n[len] % 32
    <2>1. ASSUME NEW a \in Nat, NEW b \in Nat, NEW c \in 0..31, a = 32 * b + c
          PROVE  b = a \div 32 /\ c = a % 32
      BY <2>1
    <2> QED BY <1>13, <1>14, <2>1
  <1> QED BY <1>2, <1>8, <1>9, <1>10, <1>15

(* What is left after each division spells what is left of the number.     *)
LEMMA DivisionsStep ==
    ASSUME NEW data \in Seq(Byte), NEW k \in Nat
    PROVE  /\ AfterDivisions(data, 0) = data
           /\ AfterDivisions(data, k) \in Seq(Byte)
           /\ AfterDivisions(data, k + 1) = DivMod32(AfterDivisions(data, k)).quotient
  <1> DEFINE V == Seq(Byte)
             def(j, f) == f = [i \in 0..j |-> IF i = 0 THEN data ELSE DivMod32(f[i - 1]).quotient]
             num(j) == CHOOSE f : def(j, f)
             last == k + 1
             step == [i \in 1..last |-> [x \in V |-> DivMod32(x).quotient]]
  <1>1. \A x \in V : DivMod32(x).quotient \in V
    BY DivMod32Divides
  <1> HIDE DEF V
  <1>2. step \in [1..last -> [V -> V]] /\ last \in Nat /\ data \in V
    BY <1>1 DEF V
  <1>3. \A i \in 1..last, x \in V : step[i][x] = DivMod32(x).quotient
    OBVIOUS
  <1> HIDE DEF step, last
  <1>4. PICK r \in [0..last -> V] : Solves(r, last, data, step)
    BY <1>2, RecursionExists, Zenon
  <1>5. r[0] = data /\ \A i \in 1..last : r[i] = DivMod32(r[i - 1]).quotient
    <2>1. r[0] = data /\ \A i \in 1..last : r[i] = step[i][r[i - 1]]
      BY <1>4 DEF Solves
    <2>2. \A i \in 1..last : r[i - 1] \in V
      BY <1>2
    <2> QED BY <1>3, <2>1, <2>2
  <1>6. ASSUME NEW j \in 0..last PROVE AfterDivisions(data, j) = r[j]
    <2> DEFINE s == [i \in 0..j |-> r[i]]
               f == num(j)
    <2>1. j \in Nat /\ s[0] = data /\ s[j] = r[j]
      BY <1>2, <1>5
    <2>2. \A i \in 1..j : s[i] = DivMod32(s[i - 1]).quotient
      <3>1. ASSUME NEW i \in 1..j PROVE i \in 1..last /\ i \in 0..j /\ i - 1 \in 0..j
        BY <1>2
      <3> QED BY <1>5, <3>1
    <2>3. s = [i \in 0..j |-> s[i]]
      OBVIOUS
    <2> HIDE DEF s
    <2>4. def(j, s)
      <3>1. ASSUME NEW i \in 0..j PROVE s[i] = IF i = 0 THEN data ELSE DivMod32(s[i - 1]).quotient
        <4>1. i = 0 \/ i \in 1..j
          BY <2>1
        <4> QED BY <2>1, <2>2, <4>1
      <3> QED BY <2>3, <3>1
    <2>5. def(j, f)
      BY <2>4
    <2>6. AfterDivisions(data, j) = f[j]
      BY DEF AfterDivisions
    <2> HIDE DEF f
    <2>7. f[0] = s[0]
      BY <2>1, <2>5
    <2>8. ASSUME NEW i \in 1..j PROVE f[i] = DivMod32(f[i - 1]).quotient
      <3>1. i \in 0..j /\ i # 0
        BY <2>1
      <3> QED BY <2>5, <3>1, Zenon
    <2>9. StepAlike(f, s, j)
      BY <2>2, <2>8 DEF StepAlike
    <2>10. Alike(f, s, j)
      BY <2>1, <2>7, <2>9, RecursionUnique
    <2> QED BY <2>1, <2>6, <2>10 DEF Alike
  <1>7. 0 \in 0..last /\ k \in 0..last /\ last \in 0..last /\ k + 1 \in 1..last /\ last = k + 1
    BY DEF last
  <1>8. /\ AfterDivisions(data, 0) = r[0] /\ AfterDivisions(data, k) = r[k]
        /\ AfterDivisions(data, last) = r[last]
    BY <1>6, <1>7
  <1>9. r[last] = DivMod32(r[k]).quotient /\ r[k] \in V
    <2>1. last \in 1..last /\ last - 1 = k
      BY <1>7
    <2> QED BY <1>5, <1>7, <2>1
  <1> QED BY <1>5, <1>7, <1>8, <1>9 DEF V

LEMMA DivisionsSpell ==
    ASSUME NEW data \in Seq(Byte), NEW k \in Nat
    PROVE  FromBigEndian(AfterDivisions(data, k)) = Without(FromBigEndian(data), k, 32)
  <1> DEFINE n == FromBigEndian(data)
             S == {j \in Nat : FromBigEndian(AfterDivisions(data, j)) = Without(n, j, 32)}
  <1>1. n \in Int
    BY BigEndianType
  <1> HIDE DEF n
  <1>2. 0 \in S
    <2>1. AfterDivisions(data, 0) = data
      BY DivisionsStep
    <2>2. Without(n, 0, 32) = n
      BY <1>1, WithoutStep
    <2> QED BY <2>1, <2>2 DEF n
  <1>3. ASSUME NEW j \in Nat, j \in S PROVE j + 1 \in S
    <2>1. /\ AfterDivisions(data, j) \in Seq(Byte)
          /\ AfterDivisions(data, j + 1) = DivMod32(AfterDivisions(data, j)).quotient
      BY DivisionsStep
    <2>2. FromBigEndian(AfterDivisions(data, j + 1)) = FromBigEndian(AfterDivisions(data, j)) \div 32
      BY <2>1, DivMod32Divides
    <2>3. Without(n, j + 1, 32) = Without(n, j, 32) \div 32
      BY <1>1, WithoutStep
    <2> QED BY <1>3, <2>2, <2>3
  <1>4. k \in S
    <2> HIDE DEF S
    <2> QED BY <1>2, <1>3, Induction
  <1> QED BY <1>4 DEF n

LEMMA ZeroSpelled ==
    ASSUME NEW bytes \in Seq(Byte)
    PROVE  IsZero(bytes) <=> FromBigEndian(bytes) = 0
  <1> DEFINE len == Len(bytes)
  <1>1. len \in Nat /\ DOMAIN bytes = 1..len /\ \A i \in 1..len : bytes[i] \in Nat
    BY BytesAreNumbers, LenProperties
  <1> HIDE DEF len
  <1>2. PICK r \in [0..len -> Nat] :
           r[0] = 0 /\ (\A i \in 1..len : r[i] = 256 * r[i - 1] + bytes[i]) /\ FromBigEndian(bytes) = r[len]
    BY BigEndianSteps DEF len
  <1> DEFINE S == {j \in Nat : j <= len => (r[j] = 0 <=> \A i \in 1..j : bytes[i] = 0)}
  <1>3. 0 \in S
    BY <1>2
  <1>4. ASSUME NEW j \in Nat, j \in S PROVE j + 1 \in S
    <2>1. ASSUME j + 1 <= len PROVE r[j + 1] = 0 <=> \A i \in 1..j + 1 : bytes[i] = 0
      <3> DEFINE k == j + 1
      <3>1. k \in 1..len /\ k - 1 = j /\ j <= len /\ j \in 0..len
        BY <1>1, <2>1
      <3>2. 1..k = 1..j \cup {k}
        OBVIOUS
      <3> HIDE DEF k
      <3>3. r[k] = 256 * r[j] + bytes[k]
        BY <1>2, <3>1
      <3>4. bytes[k] \in Nat /\ r[j] \in Nat
        BY <1>1, <1>2, <3>1
      <3>5. r[k] = 0 <=> r[j] = 0 /\ bytes[k] = 0
        <4>1. \A x \in Nat, y \in Nat : 256 * x + y = 0 <=> x = 0 /\ y = 0
          OBVIOUS
        <4> QED BY <3>3, <3>4, <4>1
      <3>6. r[j] = 0 <=> \A i \in 1..j : bytes[i] = 0
        BY <1>4, <3>1
      <3>7. r[k] = 0 <=> \A i \in 1..k : bytes[i] = 0
        BY <3>2, <3>5, <3>6, Zenon
      <3> QED BY <3>7 DEF k
    <2> QED BY <2>1
  <1>5. len \in S
    <2> HIDE DEF S
    <2> QED BY <1>1, <1>3, <1>4, Induction
  <1>6. r[len] = 0 <=> \A i \in 1..len : bytes[i] = 0
    BY <1>5
  <1> QED BY <1>1, <1>2, <1>6 DEF IsZero

(* Two digits to the base 32 are more than a byte.                         *)
LEMMA TwoDigits ==
    ASSUME NEW x \in Nat, NEW y \in Nat, y < 256
    PROVE  ((256 * x + y) \div 32) \div 32 \in 0..x
  <1> DEFINE a == (256 * x + y) \div 32
  <1>1. a \in Nat /\ 32 * a <= 256 * x + y
    OBVIOUS
  <1>2. a <= 8 * x + 7
    BY <1>1
  <1> HIDE DEF a
  <1> DEFINE b == a \div 32
  <1>3. b \in Nat /\ 32 * b <= a
    BY <1>1
  <1> HIDE DEF b
  <1>4. b <= x
    BY <1>1, <1>2, <1>3
  <1> QED BY <1>3, <1>4 DEF a, b

LEMMA FewDigits ==
    ASSUME NEW data \in Seq(Byte)
    PROVE  Without(FromBigEndian(data), 2 * Len(data), 32) = 0
  <1> DEFINE len == Len(data)
  <1>1. len \in Nat /\ \A i \in 1..len : data[i] \in Nat /\ data[i] < 256
    BY BytesAreNumbers
  <1> HIDE DEF len
  <1>2. PICK r \in [0..len -> Nat] :
           r[0] = 0 /\ (\A i \in 1..len : r[i] = 256 * r[i - 1] + data[i]) /\ FromBigEndian(data) = r[len]
    BY BigEndianSteps DEF len
  <1> DEFINE S == {j \in Nat : j <= len => Without(r[j], 2 * j, 32) = 0}
  <1>3. 0 \in S
    <2>1. 0 \in Int
      OBVIOUS
    <2>2. Without(0, 0, 32) = 0
      BY <2>1, WithoutStep
    <2> QED BY <1>2, <2>2
  <1>4. ASSUME NEW j \in Nat, j \in S PROVE j + 1 \in S
    <2>1. ASSUME j + 1 <= len PROVE Without(r[j + 1], 2 * (j + 1), 32) = 0
      <3> DEFINE k == j + 1
                 twice == 2 * j
                 n == r[k]
                 before == r[j]
      <3>1. k \in 1..len /\ k - 1 = j /\ j <= len /\ j \in 0..len /\ k \in 0..len
        BY <1>1, <2>1
      <3>2. twice \in Nat /\ 2 * k = (twice + 1) + 1 /\ twice + 1 \in Nat
        OBVIOUS
      <3> HIDE DEF k, twice
      <3>3. n \in Nat /\ before \in Nat
        BY <3>1
      <3>4. data[k] \in Nat /\ data[k] < 256
        BY <1>1, <3>1, Zenon
      <3>5. n = 256 * before + data[k]
        BY <1>2, <3>1
      <3>6. Without(before, twice, 32) = 0
        BY <1>4, <3>1 DEF twice
      <3> HIDE DEF n, before
      <3> DEFINE a == n \div 32
                 b == a \div 32
      <3>7. a \in Int /\ b \in 0..before
        <4>1. a \in Int
          BY <3>3
        <4> QED BY <3>3, <3>4, <3>5, <4>1, TwoDigits
      <3>8. Without(n, (twice + 1) + 1, 32) = Without(a, twice + 1, 32)
        BY <3>2, <3>3, WithoutFirst
      <3>9. Without(a, twice + 1, 32) = Without(b, twice, 32)
        BY <3>2, <3>7, WithoutFirst
      <3>10. Without(b, twice, 32) \in 0..Without(before, twice, 32)
        BY <3>2, <3>3, <3>7, WithoutGrows, ZenonT(40)
      <3>11. Without(n, 2 * k, 32) = 0
        BY <3>2, <3>6, <3>8, <3>9, <3>10
      <3> QED BY <3>11 DEF k, n
    <2> QED BY <2>1
  <1>5. len \in S
    <2> HIDE DEF S
    <2> QED BY <1>1, <1>3, <1>4, Induction
  <1> QED BY <1>2, <1>5 DEF len

(* What stands in f for each digit.                                        *)
Spelled(f, digits) == [i \in DOMAIN digits |-> f[digits[i] + 1]]

LEMMA SpelledConcat ==
    ASSUME NEW S, NEW a \in Seq(S), NEW b \in Seq(S), NEW f
    PROVE  Spelled(f, a \o b) = Spelled(f, a) \o Spelled(f, b)
  <1> DEFINE T == {f[x + 1] : x \in S}
             ab == a \o b
             fa == [i \in DOMAIN a |-> f[a[i] + 1]]
             fb == [i \in DOMAIN b |-> f[b[i] + 1]]
             fab == [i \in DOMAIN ab |-> f[ab[i] + 1]]
  <1>0. \A x \in S : f[x + 1] \in T
    OBVIOUS
  <1> HIDE DEF T
  <1>1. /\ Len(a) \in Nat /\ Len(b) \in Nat /\ DOMAIN a = 1..Len(a) /\ DOMAIN b = 1..Len(b)
        /\ \A i \in 1..Len(a) : a[i] \in S
        /\ \A i \in 1..Len(b) : b[i] \in S
    BY LenProperties, ElementOfSeq
  <1>2. /\ ab \in Seq(S) /\ Len(ab) = Len(a) + Len(b)
        /\ \A i \in 1..Len(a) + Len(b) : ab[i] = IF i <= Len(a) THEN a[i] ELSE b[i - Len(a)]
    BY ConcatProperties
  <1>3. DOMAIN ab = 1..Len(a) + Len(b)
    BY <1>2, LenProperties
  <1>4. fa \in Seq(T) /\ Len(fa) = Len(a) /\ \A i \in 1..Len(a) : fa[i] = f[a[i] + 1]
    <2>1. fa = [i \in 1..Len(a) |-> f[a[i] + 1]] /\ \A i \in 1..Len(a) : f[a[i] + 1] \in T
      BY <1>0, <1>1
    <2> HIDE DEF fa
    <2> QED BY <1>1, <2>1
  <1>5. fb \in Seq(T) /\ Len(fb) = Len(b) /\ \A i \in 1..Len(b) : fb[i] = f[b[i] + 1]
    <2>1. fb = [i \in 1..Len(b) |-> f[b[i] + 1]] /\ \A i \in 1..Len(b) : f[b[i] + 1] \in T
      BY <1>0, <1>1
    <2> HIDE DEF fb
    <2> QED BY <1>1, <2>1
  <1> HIDE DEF ab, fa, fb
  <1>6. /\ fa \o fb \in Seq(T) /\ Len(fa \o fb) = Len(a) + Len(b)
        /\ \A i \in 1..Len(a) + Len(b) :
              (fa \o fb)[i] = IF i <= Len(a) THEN fa[i] ELSE fb[i - Len(a)]
    <2>1. /\ fa \o fb \in Seq(T) /\ Len(fa \o fb) = Len(fa) + Len(fb)
          /\ \A i \in 1..Len(fa) + Len(fb) :
                (fa \o fb)[i] = IF i <= Len(fa) THEN fa[i] ELSE fb[i - Len(fa)]
      <3>1. fa \in Seq(T) /\ fb \in Seq(T)
        BY <1>4, <1>5
      <3> QED BY <3>1, ConcatProperties
    <2>2. Len(fa) = Len(a) /\ Len(fb) = Len(b)
      BY <1>4, <1>5
    <2> QED BY <2>1, <2>2
  <1>7. ASSUME NEW i \in 1..Len(a) + Len(b) PROVE (fa \o fb)[i] = f[ab[i] + 1]
    <2>1. CASE i <= Len(a)
      <3>1. i \in 1..Len(a)
        BY <1>1, <2>1
      <3> QED BY <1>2, <1>4, <1>6, <2>1, <3>1
    <2>2. CASE ~(i <= Len(a))
      <3>1. i - Len(a) \in 1..Len(b)
        BY <1>1, <2>2
      <3> QED BY <1>2, <1>5, <1>6, <2>2, <3>1
    <2> QED BY <2>1, <2>2
  <1>8. fa \o fb = [i \in 1..Len(a) + Len(b) |-> (fa \o fb)[i]]
    BY <1>6, LenProperties
  <1>9. fab = fa \o fb
    BY <1>3, <1>7, <1>8
  <1> QED BY <1>9 DEF ab, fa, fb, Spelled

(* The letters of a c32 text are those of the digits of its number.        *)
LEMMA C32Encodes ==
    ASSUME NEW data \in Seq(Byte)
    PROVE  C32Encode(data) = Spelled(Alphabet, C32Groups(data))
  <1> DEFINE len == Len(data)
             n == FromBigEndian(data)
             zeros == LeadingZeros(data)
             K == {k \in 0..2 * len : IsZero(AfterDivisions(data, k))}
             L == {k \in 0..2 * len : Without(n, k, 32) = 0}
             size == Min(L)
             front == [i \in 1..zeros |-> 0]
             back == [i \in 1..size |-> Without(n, size - i, 32) % 32]
  <1>1. len \in Nat /\ n \in Nat /\ zeros \in Nat
    BY LenProperties, BigEndianType, ZerosInFront
  <1>2. ASSUME NEW k \in Nat
        PROVE  /\ IsZero(AfterDivisions(data, k)) <=> Without(n, k, 32) = 0
               /\ DivMod32(AfterDivisions(data, k)).remainder = Without(n, k, 32) % 32
               /\ Without(n, k, 32) \in Int
    <2>1. AfterDivisions(data, k) \in Seq(Byte)
      BY DivisionsStep
    <2>2. FromBigEndian(AfterDivisions(data, k)) = Without(n, k, 32)
      BY DivisionsSpell
    <2>3. Without(n, k, 32) \in Int
      <3> HIDE DEF n
      <3> QED BY <1>1, WithoutStep
    <2> QED BY <2>1, <2>2, <2>3, ZeroSpelled, DivMod32Divides
  <1>3. K = L
    <2>1. \A k \in 0..2 * len : k \in Nat
      OBVIOUS
    <2> HIDE DEF len, n
    <2> QED BY <1>2, <2>1
  <1>4. size \in Nat
    <2>1. 2 * len \in L
      <3>1. Without(n, 2 * len, 32) = 0
        BY FewDigits
      <3> HIDE DEF n, len
      <3> QED BY <1>1, <3>1
    <2>2. L \in SUBSET Nat /\ L # {}
      BY <2>1
    <2> HIDE DEF L
    <2> QED BY <2>2, Minimum
  <1>5. C32Digits(data) = [i \in 1..size |-> Alphabet[(Without(n, size - i, 32) % 32) + 1]]
    <2>1. C32Digits(data) =
            [i \in 1..Min(K) |-> Alphabet[DivMod32(AfterDivisions(data, Min(K) - i)).remainder + 1]]
      BY DEF C32Digits
    <2> HIDE DEF K, L
    <2>2. C32Digits(data) =
            [i \in 1..size |-> Alphabet[DivMod32(AfterDivisions(data, size - i)).remainder + 1]]
      BY <1>3, <2>1
    <2> HIDE DEF size, n
    <2>3. ASSUME NEW i \in 1..size
          PROVE  DivMod32(AfterDivisions(data, size - i)).remainder = Without(n, size - i, 32) % 32
      <3>1. size - i \in Nat
        BY <1>4
      <3> QED BY <1>2, <3>1
    <2> QED BY <2>2, <2>3
  <1>6. C32Groups(data) = front \o back
    BY DEF C32Groups, Digits
  <1>7. C32Encode(data) = [i \in 1..zeros |-> Alphabet[1]] \o C32Digits(data)
    BY DEF C32Encode
  <1>8. front \in Seq(0..31) /\ DOMAIN front = 1..zeros /\ \A i \in 1..zeros : front[i] = 0
    <2> HIDE DEF zeros
    <2> QED BY <1>1
  <1>9. /\ back \in Seq(0..31) /\ DOMAIN back = 1..size
        /\ \A i \in 1..size : back[i] = Without(n, size - i, 32) % 32
    <2> HIDE DEF size, n
    <2>1. ASSUME NEW i \in 1..size PROVE Without(n, size - i, 32) % 32 \in 0..31
      <3>1. size - i \in Nat
        BY <1>4
      <3>2. Without(n, size - i, 32) \in Int
        BY <1>2, <3>1
      <3>3. \A x \in Int : x % 32 \in 0..31
        OBVIOUS
      <3> QED BY <3>2, <3>3, Zenon
    <2> QED BY <1>4, <2>1
  <1> HIDE DEF front, back
  <1>10. Spelled(Alphabet, front \o back) = Spelled(Alphabet, front) \o Spelled(Alphabet, back)
    <2> DEFINE D == 0..31
    <2>1. front \in Seq(D) /\ back \in Seq(D)
      BY <1>8, <1>9
    <2> HIDE DEF D
    <2> QED BY <2>1, SpelledConcat, Zenon
  <1>11. Spelled(Alphabet, front) = [i \in 1..zeros |-> Alphabet[1]]
    <2> HIDE DEF zeros
    <2>1. \A i \in 1..zeros : Alphabet[front[i] + 1] = Alphabet[1]
      BY <1>8
    <2> QED BY <1>8, <2>1 DEF Spelled
  <1>12. Spelled(Alphabet, back) = C32Digits(data)
    <2> HIDE DEF size, n
    <2> QED BY <1>5, <1>9 DEF Spelled
  <1> QED BY <1>6, <1>7, <1>10, <1>11, <1>12

LEMMA AddressIs ==
    ASSUME NEW l, l.text \in Seq(Byte), Checksum[<<l.number>> \o l.text] \in Seq(Byte)
    PROVE  EncodeStacksAddress(l.number, l.text) = Address(l)
  <1> DEFINE data == l.text \o Checksum[<<l.number>> \o l.text]
  <1>1. data \in Seq(Byte)
    BY ConcatProperties
  <1> HIDE DEF data
  <1>2. C32Encode(data) = Spelled(Alphabet, C32Groups(data))
    BY <1>1, C32Encodes
  <1> QED BY <1>2 DEF EncodeStacksAddress, Address, Spelled, data

-----------------------------------------------------------------------------
(* Values without parts.                                                   *)

LEMMA ConcatBytes ==
    ASSUME NEW a \in Seq(Byte), NEW b \in Seq(Byte), NEW c \in Seq(Byte)
    PROVE  (a \o b) \o c = a \o (b \o c)
  BY ConcatAssociative

LEMMA SumAgain ==
    ASSUME NEW a \in Nat, NEW b \in Nat, NEW c \in Nat
    PROVE  (a + b) + c = a + (b + c)
  OBVIOUS

LEMMA Tags ==
    /\ TagOf["int"] = 0 /\ TagOf["uint"] = 1 /\ TagOf["buff"] = 2
    /\ TagOf["true"] = 3 /\ TagOf["false"] = 4 /\ TagOf["standard"] = 5 /\ TagOf["contract"] = 6
    /\ TagOf["ok"] = 7 /\ TagOf["err"] = 8 /\ TagOf["none"] = 9 /\ TagOf["some"] = 10
    /\ TagOf["list"] = 11 /\ TagOf["tuple"] = 12 /\ TagOf["ascii"] = 13 /\ TagOf["utf8"] = 14
  BY DEF TagOf

LEMMA ReadAddressStanding ==
    ASSUME NEW version \in Byte, NEW hash \in Seq(Byte), Len(hash) = HashWidth,
           NEW data, NEW c, Stands(<<version>> \o hash, data, c)
    PROVE  ReadAddress(data, c) = Done(EncodeStacksAddress(version, hash), (c + 1) + HashWidth)
  <1> DEFINE r == ReadByte(data, c)
             s == ReadBytes(data, r.at, HashWidth)
             first == <<version>>
  <1>1. first \in Seq(Byte) /\ Len(first) = 1
    BY OneByte
  <1>2. Stands(first, data, c) /\ Stands(hash, data, c + Len(first))
    <2> HIDE DEF first
    <2>1. Stands(first \o hash, data, c)
      BY DEF first
    <2> QED BY <1>1, <2>1, StandsBoth
  <1>3. r = Done(version, c + 1)
    BY <1>2, ReadByteStanding
  <1>4. ReadBytes(data, c + 1, HashWidth) = Done(hash, (c + 1) + HashWidth)
    <2>1. Stands(hash, data, c + 1)
      BY <1>1, <1>2
    <2> QED BY <2>1, ReadBytesStanding
  <1>5. ReadAddress(data, c) =
           IF r.ok THEN IF s.ok THEN Done(EncodeStacksAddress(r.value, s.value), s.at) ELSE s ELSE r
    BY DEF ReadAddress, Try
  <1>6. r.ok /\ r.value = version /\ r.at = c + 1
    BY <1>3 DEF Done
  <1> HIDE DEF r
  <1>7. s = Done(hash, (c + 1) + HashWidth)
    BY <1>4, <1>6
  <1>8. s.ok /\ s.value = hash /\ s.at = (c + 1) + HashWidth
    BY <1>7 DEF Done
  <1> HIDE DEF s
  <1> QED BY <1>5, <1>6, <1>8

(* What the decoder does behind the tag of a leaf.                         *)
LeafReads(l) ==
    /\ LeafBody(l) \in Seq(Byte)
    /\ \A data, c, inner : Stands(LeafBody(l), data, c) =>
          ReadPayload(TagOf[l.type], data, c, inner) = Done(LeafShown(l), c + Len(LeafBody(l)))

LEMMA NumbersRead ==
    ASSUME NEW l, IsLeaf(l), l.type \in {"int", "uint"}
    PROVE  LeafReads(l)
  <1> DEFINE body == Digits(l.number, IntWidth, 256)
  <1>1. IntWidth \in Nat \ {0}
    BY WidthAssumption DEF WidthAssumption
  <1>2. l.number \in Int
    BY DEF IsLeaf, Fits
  <1>3. body \in Seq(Byte) /\ Len(body) = IntWidth
    BY <1>1, <1>2, DigitsSpell
  <1>4. LeafBody(l) = body /\ LeafShown(l) = JsonNumber(l.type, l.number)
    BY DEF LeafBody, LeafShown
  <1>5. /\ l.type = "int" => FromTwosComplement(body) = l.number
        /\ l.type = "uint" => FromBigEndian(body) = l.number
    <2>1. ASSUME l.type = "int" PROVE FromTwosComplement(body) = l.number
      <3>1. Without(l.number, IntWidth - 1, 256) \in -128..127
        BY <2>1 DEF IsLeaf
      <3> QED BY <1>1, <1>2, <3>1, TwosComplementOfDigits, ZenonT(40)
    <2>2. ASSUME l.type = "uint" PROVE FromBigEndian(body) = l.number
      <3>1. Fits(l.number, IntWidth)
        BY <2>2 DEF IsLeaf
      <3> QED BY <1>1, <3>1, BigEndianOfDigits
    <2> QED BY <2>1, <2>2
  <1> HIDE DEF body
  <1>6. ASSUME NEW data, NEW c, NEW inner, Stands(body, data, c)
        PROVE  ReadPayload(TagOf[l.type], data, c, inner) = Done(LeafShown(l), c + Len(body))
    <2> DEFINE r == ReadBytes(data, c, IntWidth)
    <2>1. r = Done(body, c + IntWidth)
      BY <1>3, <1>6, ReadBytesStanding
    <2>2. r.ok /\ r.value = body /\ r.at = c + IntWidth
      BY <2>1 DEF Done
    <2>3. CASE l.type = "int"
      <3>1. ReadPayload(0, data, c, inner) =
               IF r.ok THEN Done(JsonNumber("int", FromTwosComplement(r.value)), r.at) ELSE r
        BY DEF ReadPayload, Try
      <3> HIDE DEF r
      <3> QED BY <1>3, <1>4, <1>5, <2>2, <2>3, <3>1, Tags
    <2>4. CASE l.type = "uint"
      <3>1. ReadPayload(1, data, c, inner) =
               IF r.ok THEN Done(JsonNumber("uint", FromBigEndian(r.value)), r.at) ELSE r
        BY DEF ReadPayload, Try
      <3> HIDE DEF r
      <3> QED BY <1>3, <1>4, <1>5, <2>2, <2>4, <3>1, Tags
    <2> QED BY <2>3, <2>4
  <1> QED BY <1>3, <1>4, <1>6 DEF LeafReads

LEMMA TextsRead ==
    ASSUME NEW l, IsLeaf(l), l.type \in {"buff", "ascii", "utf8"}
    PROVE  LeafReads(l)
  <1> DEFINE size == Digits(Len(l.text), LenWidth, 256)
             body == size \o l.text
  <1>1. LenWidth \in Nat
    BY WidthAssumption DEF WidthAssumption
  <1>2. l.text \in Seq(Byte) /\ Fits(Len(l.text), LenWidth) /\ Len(l.text) \in Nat
    BY LenProperties DEF IsLeaf, IsText
  <1>3. size \in Seq(Byte) /\ Len(size) = LenWidth
    BY <1>1, <1>2, DigitsSpell
  <1>4. body \in Seq(Byte) /\ Len(body) = LenWidth + Len(l.text)
    <2> HIDE DEF size
    <2>1. size \o l.text \in Seq(Byte) /\ Len(size \o l.text) = Len(size) + Len(l.text)
      BY <1>2, <1>3, Concat
    <2> QED BY <1>3, <2>1
  <1>5. /\ LeafBody(l) = body
        /\ LeafShown(l) = IF l.type = "buff" THEN JsonText("buff", l.text)
                          ELSE JsonText("string", l.text)
    BY DEF LeafBody, LeafShown
  <1>6. ASSUME NEW data, NEW c, NEW inner, Stands(body, data, c)
        PROVE  ReadPayload(TagOf[l.type], data, c, inner) = Done(LeafShown(l), c + Len(body))
    <2> DEFINE at == (c + LenWidth) + Len(l.text)
    <2>1. at = c + Len(body)
      <3>1. c \in Nat
        BY <1>6 DEF Stands
      <3>2. Len(body) = LenWidth + Len(l.text) /\ Len(l.text) \in Nat
        BY <1>2, <1>4
      <3> HIDE DEF body
      <3> DEFINE n == Len(l.text)
      <3>3. n \in Nat /\ Len(body) = LenWidth + n
        BY <3>2
      <3> HIDE DEF n
      <3>4. (c + LenWidth) + n = c + (LenWidth + n)
        BY <1>1, <3>1, <3>3, SumAgain
      <3> QED BY <3>3, <3>4 DEF n
    <2>2. CASE l.type = "buff"
      <3> DEFINE r == ReadPrefixed(data, c, LenWidth)
      <3>1. r = Done(l.text, at)
        BY <1>1, <1>2, <1>6, ReadPrefixedStanding
      <3>2. r.ok /\ r.value = l.text /\ r.at = at
        BY <3>1 DEF Done
      <3>3. ReadPayload(2, data, c, inner) = IF r.ok THEN Done(JsonText("buff", r.value), r.at) ELSE r
        BY DEF ReadPayload, Try
      <3> HIDE DEF r, at, body
      <3> QED BY <1>5, <2>1, <2>2, <3>2, <3>3, Tags
    <2>3. CASE l.type \in {"ascii", "utf8"}
      <3> DEFINE r == ReadText(data, c, LenWidth)
      <3>1. r = Done(l.text, at)
        <4>1. IsText(l.text)
          BY <2>3 DEF IsLeaf
        <4> QED BY <1>1, <1>2, <1>6, <4>1, ReadTextStanding
      <3>2. r.ok /\ r.value = l.text /\ r.at = at
        BY <3>1 DEF Done
      <3>3. ASSUME NEW tag \in {13, 14}
            PROVE  ReadPayload(tag, data, c, inner) =
                      IF r.ok THEN Done(JsonText("string", r.value), r.at) ELSE r
        BY DEF ReadPayload, Try
      <3>4. TagOf[l.type] \in {13, 14}
        BY <2>3, Tags
      <3> HIDE DEF r, at, body
      <3> QED BY <1>5, <2>1, <2>3, <3>2, <3>3, <3>4
    <2> QED BY <2>2, <2>3
  <1> HIDE DEF body
  <1> QED BY <1>4, <1>5, <1>6, Zenon DEF LeafReads

LEMMA ConstantsRead ==
    ASSUME NEW l, l.type \in {"true", "false", "none"}
    PROVE  LeafReads(l)
  <1>1. LeafBody(l) = <<>>
    BY DEF LeafBody
  <1>2. ASSUME NEW data, NEW c, NEW inner, Stands(<<>>, data, c)
        PROVE  ReadPayload(TagOf[l.type], data, c, inner) = Done(LeafShown(l), c)
    <2>1. CASE l.type = "true"
      <3>1. LeafShown(l) = JsonBool(TRUE)
        BY <2>1 DEF LeafShown
      <3>2. ReadPayload(3, data, c, inner) = Done(JsonBool(TRUE), c)
        BY DEF ReadPayload
      <3> QED BY <2>1, <3>1, <3>2, Tags
    <2>2. CASE l.type = "false"
      <3>1. LeafShown(l) = JsonBool(FALSE)
        BY <2>2 DEF LeafShown
      <3>2. ReadPayload(4, data, c, inner) = Done(JsonBool(FALSE), c)
        BY DEF ReadPayload
      <3> QED BY <2>2, <3>1, <3>2, Tags
    <2>3. CASE l.type = "none"
      <3>1. LeafShown(l) = JsonNull
        BY <2>3 DEF LeafShown
      <3>2. ReadPayload(9, data, c, inner) = Done(JsonNull, c)
        BY DEF ReadPayload
      <3> QED BY <2>3, <3>1, <3>2, Tags
    <2> QED BY <2>1, <2>2, <2>3
  <1>3. <<>> \in Seq(Byte) /\ Len(<<>>) = 0
    OBVIOUS
  <1>4. \A data, c : Stands(<<>>, data, c) => c + Len(<<>>) = c
    BY <1>3 DEF Stands
  <1> QED BY <1>1, <1>2, <1>3, <1>4 DEF LeafReads

LEMMA PrincipalsRead ==
    ASSUME NEW l, IsLeaf(l), l.type \in {"standard", "contract"},
           Checksum[<<l.number>> \o l.text] \in Seq(Byte)
    PROVE  LeafReads(l)
  <1> DEFINE first == <<l.number>>
             front == first \o l.text
             address == EncodeStacksAddress(l.number, l.text)
  <1>1. /\ l.number \in Byte /\ l.text \in Seq(Byte) /\ Len(l.text) = HashWidth /\ HashWidth \in Nat
        /\ first \in Seq(Byte) /\ Len(first) = 1
    BY OneByte, WidthAssumption DEF IsLeaf, WidthAssumption
  <1>2. front \in Seq(Byte) /\ Len(front) = 1 + HashWidth
    <2> HIDE DEF first
    <2>1. first \o l.text \in Seq(Byte) /\ Len(first \o l.text) = Len(first) + Len(l.text)
      BY <1>1, Concat
    <2> QED BY <1>1, <2>1
  <1>3. address = Address(l)
    BY <1>1, AddressIs
  <1>4. ASSUME NEW data, NEW c, Stands(front, data, c)
        PROVE  ReadAddress(data, c) = Done(Address(l), c + Len(front)) /\ c \in Nat
    <2>1. ReadAddress(data, c) = Done(address, (c + 1) + HashWidth)
      BY <1>1, <1>4, ReadAddressStanding
    <2>2. c \in Nat
      BY <1>4 DEF Stands
    <2>3. (c + 1) + HashWidth = c + Len(front)
      <3> HIDE DEF front
      <3> QED BY <1>1, <1>2, <2>2
    <2> QED BY <1>3, <2>1, <2>2, <2>3
  <1>5. CASE l.type = "standard"
    <2>1. LeafBody(l) = front /\ LeafShown(l) = JsonText("string", Address(l))
      BY <1>5 DEF LeafBody, LeafShown
    <2> HIDE DEF front
    <2>2. ASSUME NEW data, NEW c, NEW inner, Stands(front, data, c)
          PROVE  ReadPayload(TagOf[l.type], data, c, inner) = Done(LeafShown(l), c + Len(front))
      <3> DEFINE r == ReadAddress(data, c)
      <3>1. r.ok /\ r.value = Address(l) /\ r.at = c + Len(front)
        BY <1>4, <2>2 DEF Done
      <3>2. ReadPayload(5, data, c, inner) = IF r.ok THEN Done(JsonText("string", r.value), r.at) ELSE r
        BY DEF ReadPayload, Try
      <3> HIDE DEF r
      <3> QED BY <1>5, <2>1, <3>1, <3>2, Tags
    <2> QED BY <1>2, <2>1, <2>2 DEF LeafReads
  <1>6. CASE l.type = "contract"
    <2> DEFINE size == <<Len(l.name)>>
               text == size \o l.name
               body == front \o text
    <2>1. IsText(l.name) /\ Fits(Len(l.name), 1) /\ l.name \in Seq(Byte)
      BY <1>6 DEF IsLeaf, IsText
    <2>2. Len(l.name) \in Byte /\ size = Digits(Len(l.name), 1, 256)
      BY <2>1, OneDigit
    <2>3. size \in Seq(Byte) /\ Len(size) = 1
      BY <2>2, OneByte
    <2>4. LeafBody(l) = (front \o size) \o l.name
      BY <1>6 DEF LeafBody
    <2>5. LeafShown(l) = JsonText("string", Address(l) \o <<46>> \o l.name)
      BY <1>6 DEF LeafShown
    <2> HIDE DEF front, size
    <2>6. LeafBody(l) = body
      <3>1. front \in Seq(Byte) /\ size \in Seq(Byte) /\ l.name \in Seq(Byte)
        BY <1>2, <2>1, <2>3
      <3>2. (front \o size) \o l.name = front \o (size \o l.name)
        BY <3>1, ConcatBytes, Zenon
      <3> QED BY <2>4, <3>2, Zenon
    <2>7. text \in Seq(Byte) /\ Len(text) = 1 + Len(l.name)
      <3>1. size \o l.name \in Seq(Byte) /\ Len(size \o l.name) = Len(size) + Len(l.name)
        BY <2>1, <2>3, Concat
      <3> QED BY <2>3, <3>1
    <2>8. body \in Seq(Byte) /\ Len(body) = Len(front) + Len(text)
      <3> HIDE DEF text
      <3> QED BY <1>2, <2>7, Concat
    <2>9. ASSUME NEW data, NEW c, NEW inner, Stands(body, data, c)
          PROVE  ReadPayload(TagOf[l.type], data, c, inner) = Done(LeafShown(l), c + Len(body))
      <3> DEFINE r == ReadAddress(data, c)
                 s == ReadText(data, r.at, 1)
                 c1 == c + Len(front)
      <3>1. Stands(front, data, c) /\ Stands(text, data, c1)
        <4> HIDE DEF text
        <4> QED BY <1>2, <2>7, <2>9, StandsBoth
      <3>2. r.ok /\ r.value = Address(l) /\ r.at = c1
        BY <1>4, <3>1 DEF Done
      <3>3. ReadText(data, c1, 1) = Done(l.name, (c1 + 1) + Len(l.name))
        <4> DEFINE one == 1
        <4>1. one \in Nat /\ Fits(Len(l.name), one) /\ Stands(Digits(Len(l.name), one, 256) \o l.name, data, c1)
          BY <2>1, <2>2, <3>1
        <4> HIDE DEF one
        <4>2. ReadText(data, c1, one) = Done(l.name, (c1 + one) + Len(l.name))
          BY <2>1, <4>1, ReadTextStanding
        <4> QED BY <4>2 DEF one
      <3>4. (c1 + 1) + Len(l.name) = c + Len(body)
        <4>1. c \in Nat /\ Len(l.name) \in Nat /\ Len(front) \in Nat
          BY <1>1, <1>2, <1>4, <2>1, <3>1, LenProperties
        <4>2. Len(body) = Len(front) + (1 + Len(l.name))
          BY <2>7, <2>8
        <4> HIDE DEF body
        <4> DEFINE n == Len(l.name)
                   f == Len(front)
                   b == Len(body)
        <4>3. c \in Nat /\ n \in Nat /\ f \in Nat /\ b = f + (1 + n)
          BY <4>1, <4>2
        <4> HIDE DEF n, f, b
        <4>4. ((c + f) + 1) + n = c + b
          BY <4>3
        <4> QED BY <4>4 DEF n, f, b
      <3>5. ReadPayload(6, data, c, inner) =
               IF r.ok
               THEN IF s.ok THEN Done(JsonText("string", r.value \o <<46>> \o s.value), s.at) ELSE s
               ELSE r
        BY DEF ReadPayload, Try
      <3> HIDE DEF r
      <3>6. s.ok /\ s.value = l.name /\ s.at = c + Len(body)
        BY <3>2, <3>3, <3>4 DEF Done
      <3> HIDE DEF s, body
      <3> QED BY <1>6, <2>5, <3>2, <3>5, <3>6, Tags
    <2> QED BY <2>6, <2>8, <2>9 DEF LeafReads
  <1> QED BY <1>5, <1>6

(* Every leaf that a contract can emit.                                    *)
LEMMA LeavesRead ==
    ASSUME NEW l \in Leaves
    PROVE  LeafReads(l) /\ l.type \in DOMAIN TagOf /\ l.type \notin {"list", "tuple"}
  <1>1. IsLeaf(l) /\ (l.type \in {"standard", "contract"} => Checksum[<<l.number>> \o l.text] \in Seq(Byte))
    BY ValuesAssumption DEF ValuesAssumption
  <1>2. l.type \in {"int", "uint", "buff", "ascii", "utf8", "true", "false", "none",
                    "standard", "contract"}
    BY <1>1 DEF IsLeaf
  <1>3. LeafReads(l)
    <2>1. \/ l.type \in {"int", "uint"}
          \/ l.type \in {"buff", "ascii", "utf8"}
          \/ l.type \in {"true", "false", "none"}
          \/ l.type \in {"standard", "contract"}
      BY <1>2
    <2>2. CASE l.type \in {"int", "uint"}
      BY <1>1, <2>2, NumbersRead
    <2>3. CASE l.type \in {"buff", "ascii", "utf8"}
      BY <1>1, <2>3, TextsRead
    <2>4. CASE l.type \in {"true", "false", "none"}
      BY <2>4, ConstantsRead
    <2>5. CASE l.type \in {"standard", "contract"}
      BY <1>1, <2>5, PrincipalsRead
    <2> QED BY <2>1, <2>2, <2>3, <2>4, <2>5
  <1>4. l.type \in DOMAIN TagOf
    BY <1>2 DEF TagOf
  <1> QED BY <1>2, <1>3, <1>4

-----------------------------------------------------------------------------
(* Values with parts.                                                      *)

(* What the decoder does behind a tag, with calls enough.                  *)
PayloadIs(tag, body, shown) ==
    /\ body \in Seq(Byte)
    /\ \A data, c : \A d \in Nat :
          Stands(body, data, c) /\ 2 * (Len(data) - c) + 2 <= d =>
             ReadPayload(tag, data, c, Calls(data, d)) = Done(shown, c + Len(body))

LEMMA Tagged ==
    ASSUME NEW tag \in Byte, NEW body, NEW shown, PayloadIs(tag, body, shown)
    PROVE  /\ <<tag>> \o body \in Seq(Byte) /\ Len(<<tag>> \o body) = 1 + Len(body)
           /\ ValueAt(<<tag>> \o body, 0, Done(shown, Len(<<tag>> \o body)))
  <1> DEFINE first == <<tag>>
             data == first \o body
  <1>1. body \in Seq(Byte) /\ first \in Seq(Byte) /\ Len(first) = 1
    BY OneByte DEF PayloadIs
  <1>2. /\ data \in Seq(Byte) /\ Len(data) = Len(first) + Len(body)
        /\ Stands(first, data, 0) /\ Stands(body, data, Len(first))
    <2> HIDE DEF first
    <2> QED BY <1>1, Concat
  <1> DEFINE start == 0
  <1>3. start + 1 = 1 /\ Stands(<<tag>>, data, start) /\ Stands(body, data, start + 1)
        /\ Len(data) = (start + 1) + Len(body)
    BY <1>1, <1>2
  <1> HIDE DEF data, start
  <1>4. \A d \in Nat : 2 * (Len(data) - (start + 1)) + 2 <= d =>
          ReadPayload(tag, data, start + 1, Calls(data, d)) = Done(shown, Len(data))
    BY <1>3 DEF PayloadIs
  <1>5. ValueAt(data, start, Done(shown, Len(data)))
    BY <1>3, <1>4, ValueAtTag
  <1> QED BY <1>1, <1>2, <1>5 DEF data, start

(* A value in the making: what its parts read as where they stand, and,    *)
(* when it takes no more parts, what it reads as itself.                   *)
Good(v) ==
    /\ v.type \in DOMAIN TagOf
    /\ v.size \in Nat
    /\ v.body \in Seq(Byte)
    /\ v.type = "list" =>
          /\ v.shown = JsonArray(v.shown.items)
          /\ ItemsAt(v.body, 0, v.size, Done(v.shown.items, Len(v.body)))
    /\ v.type = "tuple" =>
          /\ v.shown = JsonObject(v.shown.fields)
          /\ FieldsAt(v.body, 0, v.size, Done(v.shown.fields, Len(v.body)))
    /\ v.type \notin {"list", "tuple"} => PayloadIs(TagOf[v.type], v.body, v.shown)

LEMMA TagsAreBytes ==
    ASSUME NEW type \in DOMAIN TagOf
    PROVE  TagOf[type] \in Byte
  <1>1. type \in {"int", "uint", "buff", "true", "false", "standard", "contract", "ok", "err",
                  "none", "some", "list", "tuple", "ascii", "utf8"}
    BY DEF TagOf
  <1>2. \A n \in 0..14 : n \in Byte
    BY DEF Byte
  <1>3. TagOf[type] \in 0..14
    BY <1>1, Tags
  <1> QED BY <1>2, <1>3

(* The size in front of parts tells how many there are.                    *)
LEMMA PartsRead ==
    ASSUME NEW n, Fits(n, LenWidth), NEW body \in Seq(Byte), NEW parts1,
           NEW tag \in {11, 12},
           tag = 11 => ItemsAt(body, 0, n, Done(parts1, Len(body))),
           tag = 12 => FieldsAt(body, 0, n, Done(parts1, Len(body)))
    PROVE  PayloadIs(tag, Digits(n, LenWidth, 256) \o body,
                     IF tag = 11 THEN JsonArray(parts1) ELSE JsonObject(parts1))
  <1> DEFINE digits == Digits(n, LenWidth, 256)
             both == digits \o body
             shown == IF tag = 11 THEN JsonArray(parts1) ELSE JsonObject(parts1)
  <1>1. LenWidth \in Nat /\ n \in Nat
    BY WidthAssumption DEF WidthAssumption, Fits
  <1>2. digits \in Seq(Byte) /\ Len(digits) = LenWidth /\ FromBigEndian(digits) = n
    BY <1>1, DigitsSpell, BigEndianOfDigits
  <1> HIDE DEF digits
  <1>3. both \in Seq(Byte) /\ Len(both) = LenWidth + Len(body) /\ Len(body) \in Nat
    <2>1. digits \o body \in Seq(Byte) /\ Len(digits \o body) = Len(digits) + Len(body)
      BY <1>2, Concat
    <2> QED BY <1>2, <2>1, LenProperties
  <1>4. ASSUME NEW data, NEW c, NEW d \in Nat, Stands(both, data, c),
               2 * (Len(data) - c) + 2 <= d
        PROVE  ReadPayload(tag, data, c, Calls(data, d)) = Done(shown, c + Len(both))
    <2> DEFINE r == ReadBytes(data, c, LenWidth)
               c1 == c + LenWidth
               inner == Calls(data, d)
    <2>1. Stands(digits, data, c) /\ Stands(body, data, c1)
      BY <1>2, <1>4, StandsBoth
    <2>2. r = Done(digits, c1)
      BY <1>2, <2>1, ReadBytesStanding
    <2>3. r.ok /\ FromBigEndian(r.value) = n /\ r.at = c1
      BY <1>2, <2>2 DEF Done
    <2>4. c \in Nat /\ Len(data) \in Nat
      BY <2>1, StandsLengths
    <2> HIDE DEF both
    <2>5. 2 * (Len(data) - c1) + 2 <= d /\ c1 + Len(body) = c + Len(both)
      BY <1>1, <1>3, <1>4, <2>4
    <2> HIDE DEF r, c1
    <2>6. CASE tag = 11
      <3> DEFINE s == inner.items[r.at][FromBigEndian(r.value)]
      <3>1. ReadPayload(tag, data, c, inner) =
               IF r.ok THEN IF s.ok THEN Done(JsonArray(s.value), s.at) ELSE s ELSE r
        BY <2>6 DEF ReadPayload, Try, r
      <3>2. ItemsAt(data, c1, n, Done(parts1, c1 + Len(body)))
        BY <1>1, <2>1, <2>6, Moved
      <3>3. s = Done(parts1, c + Len(both))
        BY <2>3, <2>5, <3>2 DEF ItemsAt
      <3>4. s.ok /\ s.value = parts1 /\ s.at = c + Len(both)
        BY <3>3 DEF Done
      <3> HIDE DEF s
      <3> QED BY <2>3, <2>6, <3>1, <3>4
    <2>7. CASE tag = 12
      <3> DEFINE s == inner.fields[r.at][FromBigEndian(r.value)]
      <3>1. ReadPayload(tag, data, c, inner) =
               IF r.ok THEN IF s.ok THEN Done(JsonObject(s.value), s.at) ELSE s ELSE r
        BY <2>7 DEF ReadPayload, Try, r
      <3>2. FieldsAt(data, c1, n, Done(parts1, c1 + Len(body)))
        BY <1>1, <2>1, <2>7, Moved
      <3>3. s = Done(parts1, c + Len(both))
        BY <2>3, <2>5, <3>2 DEF FieldsAt
      <3>4. s.ok /\ s.value = parts1 /\ s.at = c + Len(both)
        BY <3>3 DEF Done
      <3> HIDE DEF s
      <3> QED BY <2>3, <2>7, <3>1, <3>4
    <2> QED BY <2>6, <2>7
  <1> HIDE DEF both, shown
  <1>5. PayloadIs(tag, both, shown)
    BY <1>3, <1>4 DEF PayloadIs
  <1> QED BY <1>5 DEF both, shown, digits

(* A value that has been built reads as what it is shown as.               *)
LEMMA Readable ==
    ASSUME NEW v, Good(v), Fits(v.size, LenWidth)
    PROVE  /\ Encode(v) \in Seq(Byte) /\ Len(Encode(v)) \in Nat \ {0}
           /\ ValueAt(Encode(v), 0, Done(v.shown, Len(Encode(v))))
  <1> DEFINE tag == TagOf[v.type]
             first == <<tag>>
             size == Digits(v.size, LenWidth, 256)
  <1>1. tag \in Byte /\ v.body \in Seq(Byte) /\ first \in Seq(Byte)
    BY TagsAreBytes, OneByte DEF Good
  <1>2. size \in Seq(Byte)
    <2>1. LenWidth \in Nat /\ v.size \in Int
      BY WidthAssumption DEF WidthAssumption, Good
    <2> QED BY <2>1, DigitsSpell
  <1>3. PICK body : PayloadIs(tag, body, v.shown) /\ Encode(v) = first \o body
    <2>1. CASE v.type \in {"list", "tuple"}
      <3>1. Encode(v) = (first \o size) \o v.body
        BY <2>1 DEF Encode
      <3> HIDE DEF first, size
      <3>2. Encode(v) = first \o (size \o v.body)
        BY <1>1, <1>2, <3>1, ConcatBytes
      <3>3. PayloadIs(tag, size \o v.body, v.shown)
        <4>1. CASE v.type = "list"
          <5>1. tag = 11
            BY <4>1, Tags
          <5>2. ItemsAt(v.body, 0, v.size, Done(v.shown.items, Len(v.body)))
                /\ v.shown = JsonArray(v.shown.items)
            BY <4>1 DEF Good
          <5> HIDE DEF tag
          <5>3. PayloadIs(tag, Digits(v.size, LenWidth, 256) \o v.body,
                          IF tag = 11 THEN JsonArray(v.shown.items) ELSE JsonObject(v.shown.items))
            BY <1>1, <5>1, <5>2, PartsRead
          <5> QED BY <5>1, <5>2, <5>3 DEF size
        <4>2. CASE v.type = "tuple"
          <5>1. tag = 12
            BY <4>2, Tags
          <5>2. FieldsAt(v.body, 0, v.size, Done(v.shown.fields, Len(v.body)))
                /\ v.shown = JsonObject(v.shown.fields)
            BY <4>2 DEF Good
          <5> HIDE DEF tag
          <5>3. PayloadIs(tag, Digits(v.size, LenWidth, 256) \o v.body,
                          IF tag = 11 THEN JsonArray(v.shown.fields) ELSE JsonObject(v.shown.fields))
            BY <1>1, <5>1, <5>2, PartsRead
          <5> QED BY <5>1, <5>2, <5>3 DEF size
        <4> QED BY <2>1, <4>1, <4>2
      <3> QED BY <3>2, <3>3
    <2>2. CASE v.type \notin {"list", "tuple"}
      <3>1. Encode(v) = (first \o <<>>) \o v.body
        BY <2>2 DEF Encode
      <3> HIDE DEF first
      <3>2. first \o <<>> = first
        BY <1>1, ConcatEmptySeq
      <3>3. PayloadIs(tag, v.body, v.shown)
        BY <2>2 DEF Good
      <3> QED BY <3>1, <3>2, <3>3
    <2> QED BY <2>1, <2>2
  <1>4. /\ <<tag>> \o body \in Seq(Byte) /\ Len(<<tag>> \o body) = 1 + Len(body)
        /\ ValueAt(<<tag>> \o body, 0, Done(v.shown, Len(<<tag>> \o body)))
    <2> HIDE DEF tag
    <2> QED BY <1>1, <1>3, Tagged
  <1>5. Len(body) \in Nat
    BY <1>3, LenProperties DEF PayloadIs
  <1> HIDE DEF tag
  <1> QED BY <1>3, <1>4, <1>5

LEMMA LeafGood ==
    ASSUME NEW l \in Leaves
    PROVE  Good(Value(l.type, 0, LeafBody(l), LeafShown(l)))
  <1>1. LeafReads(l) /\ l.type \in DOMAIN TagOf /\ l.type \notin {"list", "tuple"}
    BY LeavesRead
  <1>2. PayloadIs(TagOf[l.type], LeafBody(l), LeafShown(l))
    BY <1>1 DEF LeafReads, PayloadIs
  <1>3. LeafBody(l) \in Seq(Byte)
    BY <1>1 DEF LeafReads
  <1> QED BY <1>1, <1>2, <1>3 DEF Good, Value

LEMMA WrappedGood ==
    ASSUME NEW v, Good(v), Fits(v.size, LenWidth), NEW type \in {"ok", "err", "some"}
    PROVE  Good(Value(type, 0, Encode(v),
                      IF type = "some" THEN v.shown ELSE JsonWrapped(type, v.shown)))
  <1> DEFINE e == Encode(v)
             shown == IF type = "some" THEN v.shown ELSE JsonWrapped(type, v.shown)
  <1>1. e \in Seq(Byte) /\ Len(e) \in Nat \ {0} /\ ValueAt(e, 0, Done(v.shown, Len(e)))
    BY Readable
  <1> HIDE DEF e
  <1>2. ASSUME NEW data, NEW c, NEW d \in Nat, Stands(e, data, c), 2 * (Len(data) - c) + 2 <= d
        PROVE  ReadPayload(TagOf[type], data, c, Calls(data, d)) = Done(shown, c + Len(e))
    <2> DEFINE n == 0
               inner == Calls(data, d)
               r == inner.value[c]
    <2>1. n \in Nat
      OBVIOUS
    <2> HIDE DEF n
    <2>2. ValueAt(data, c, Done(v.shown, c + Len(e)))
      BY <1>1, <1>2, <2>1, Moved
    <2>3. c \in Nat /\ Len(data) \in Nat
      BY <1>2, StandsLengths
    <2>4. r = Done(v.shown, c + Len(e))
      BY <1>2, <2>2, <2>3 DEF ValueAt
    <2>5. r.ok /\ r.value = v.shown /\ r.at = c + Len(e)
      BY <2>4 DEF Done
    <2>6. CASE type = "ok"
      <3>1. ReadPayload(7, data, c, inner) = IF r.ok THEN Done(JsonWrapped("ok", r.value), r.at) ELSE r
        BY DEF ReadPayload, Try
      <3> HIDE DEF r
      <3> QED BY <2>5, <2>6, <3>1, Tags
    <2>7. CASE type = "err"
      <3>1. ReadPayload(8, data, c, inner) = IF r.ok THEN Done(JsonWrapped("err", r.value), r.at) ELSE r
        BY DEF ReadPayload, Try
      <3> HIDE DEF r
      <3> QED BY <2>5, <2>7, <3>1, Tags
    <2>8. CASE type = "some"
      <3>1. ReadPayload(10, data, c, inner) = r
        BY DEF ReadPayload
      <3> HIDE DEF r
      <3> QED BY <2>4, <2>8, <3>1, Tags
    <2> QED BY <2>6, <2>7, <2>8
  <1> HIDE DEF shown
  <1>3. PayloadIs(TagOf[type], e, shown)
    BY <1>1, <1>2 DEF PayloadIs
  <1>4. type \in DOMAIN TagOf /\ type \notin {"list", "tuple"}
    BY DEF TagOf
  <1>5. Good(Value(type, 0, e, shown))
    BY <1>1, <1>3, <1>4 DEF Good, Value
  <1> QED BY <1>5 DEF e, shown

LEMMA EmptyGood ==
    /\ Good(Value("list", 0, <<>>, JsonArray(<<>>)))
    /\ Good(Value("tuple", 0, <<>>, JsonObject({})))
  <1> DEFINE none == <<>>
  <1>1. none \in Seq(Byte) /\ Len(none) = 0
    OBVIOUS
  <1>2. ItemsAt(none, 0, 0, Done(<<>>, 0)) /\ FieldsAt(none, 0, 0, Done({}, 0))
    <2> DEFINE start == 0
    <2>1. start \in Nat /\ start <= Len(none)
      BY <1>1
    <2> HIDE DEF start, none
    <2>2. ItemsAt(none, start, 0, Done(<<>>, start)) /\ FieldsAt(none, start, 0, Done({}, start))
      BY <1>1, <2>1, ItemsAtEnd
    <2> QED BY <2>2 DEF start
  <1>3. JsonArray(<<>>).items = <<>> /\ JsonObject({}).fields = {}
    BY DEF JsonArray, JsonObject, Json
  <1>4. "list" \in DOMAIN TagOf /\ "tuple" \in DOMAIN TagOf
    BY DEF TagOf
  <1> HIDE DEF none
  <1>5. /\ Good(Value("list", 0, none, JsonArray(<<>>)))
        /\ Good(Value("tuple", 0, none, JsonObject({})))
    BY <1>1, <1>2, <1>3, <1>4 DEF Good, Value
  <1> QED BY <1>5 DEF none

LEMMA ItemGood ==
    ASSUME NEW v, Good(v), Fits(v.size, LenWidth), NEW list, Good(list), list.type = "list"
    PROVE  Good(Value("list", list.size + 1, Encode(v) \o list.body,
                      JsonArray(<<v.shown>> \o list.shown.items)))
  <1> DEFINE e == Encode(v)
             b == list.body
             data == e \o b
             items == list.shown.items
             n == list.size
             start == 0
  <1>1. e \in Seq(Byte) /\ Len(e) \in Nat \ {0} /\ ValueAt(e, start, Done(v.shown, Len(e)))
    BY Readable
  <1>2. b \in Seq(Byte) /\ n \in Nat /\ ItemsAt(b, start, n, Done(items, Len(b))) /\ Len(b) \in Nat
    BY LenProperties DEF Good
  <1>3. start = 0 /\ start \in Nat
    OBVIOUS
  <1> HIDE DEF e, b, items, n, start
  <1>4. /\ data \in Seq(Byte) /\ Len(data) = Len(e) + Len(b)
        /\ Stands(e, data, start) /\ Stands(b, data, Len(e))
    BY <1>1, <1>2, <1>3, Concat
  <1> HIDE DEF data
  <1>5. ValueAt(data, start, Done(v.shown, Len(e)))
    <2>1. ValueAt(data, start, Done(v.shown, start + Len(e)))
      BY <1>1, <1>3, <1>4, Moved
    <2>2. start + Len(e) = Len(e)
      BY <1>1, <1>3
    <2> QED BY <2>1, <2>2
  <1>6. ItemsAt(data, Len(e), n, Done(items, Len(data)))
    BY <1>2, <1>3, <1>4, Moved
  <1>7. ItemsAt(data, start, n + 1, Done(<<v.shown>> \o items, Len(data)))
    <2>1. Len(e) \in Nat /\ start < Len(e) /\ Len(e) <= Len(data)
      BY <1>1, <1>2, <1>3, <1>4
    <2> QED BY <1>2, <1>3, <1>4, <1>5, <1>6, <2>1, ItemsAtNext
  <1> DEFINE shown == JsonArray(<<v.shown>> \o items)
  <1>8. shown.items = <<v.shown>> \o items /\ shown = JsonArray(shown.items)
    BY DEF JsonArray, Json
  <1> HIDE DEF shown
  <1>9. Good(Value("list", n + 1, data, shown))
    <2>1. "list" \in DOMAIN TagOf
      BY DEF TagOf
    <2>2. n + 1 \in Nat /\ data \in Seq(Byte)
      BY <1>2, <1>4
    <2>3. ItemsAt(data, 0, n + 1, Done(shown.items, Len(data)))
      BY <1>3, <1>7, <1>8
    <2> DEFINE m == n + 1
               g == Value("list", m, data, shown)
    <2>4. g.type = "list" /\ g.size = m /\ g.body = data /\ g.shown = shown
      BY DEF Value
    <2> HIDE DEF g, m
    <2>5. Good(g)
      BY <1>8, <2>1, <2>2, <2>3, <2>4 DEF Good, m
    <2> QED BY <2>5 DEF g, m
  <1> QED BY <1>9 DEF e, b, data, items, n, shown

LEMMA FieldGood ==
    ASSUME NEW v, Good(v), Fits(v.size, LenWidth), NEW tuple, Good(tuple), tuple.type = "tuple",
           NEW name, IsText(name), Fits(Len(name), 1), \A f \in tuple.shown.fields : f[1] # name
    PROVE  Good(Value("tuple", tuple.size + 1, <<Len(name)>> \o name \o Encode(v) \o tuple.body,
                      JsonObject(tuple.shown.fields \cup {<<name, v.shown>>})))
  <1> DEFINE first == <<Len(name)>>
             text == first \o name
             e == Encode(v)
             b == tuple.body
             rest == e \o b
             data == text \o rest
             fields == tuple.shown.fields
             n == tuple.size
             start == 0
             c1 == Len(text)
             c2 == Len(text) + Len(e)
  <1>1. e \in Seq(Byte) /\ Len(e) \in Nat \ {0} /\ ValueAt(e, start, Done(v.shown, Len(e)))
    BY Readable
  <1>2. b \in Seq(Byte) /\ n \in Nat /\ FieldsAt(b, start, n, Done(fields, Len(b))) /\ Len(b) \in Nat
    BY LenProperties DEF Good
  <1>3. start = 0 /\ start \in Nat
    OBVIOUS
  <1>4. /\ Len(name) \in Byte /\ first = Digits(Len(name), 1, 256) /\ name \in Seq(Byte)
        /\ Len(name) \in Nat
    BY OneDigit, LenProperties DEF IsText
  <1>5. first \in Seq(Byte) /\ Len(first) = 1
    BY <1>4, OneByte
  <1> HIDE DEF e, b, fields, n, start, first
  <1>6. text \in Seq(Byte) /\ Len(text) = 1 + Len(name)
    <2>1. first \o name \in Seq(Byte) /\ Len(first \o name) = Len(first) + Len(name)
      BY <1>4, <1>5, Concat
    <2> QED BY <1>5, <2>1
  <1>7. text = Digits(Len(name), 1, 256) \o name
    BY <1>4
  <1>8. ((first \o name) \o e) \o b = data
    <2> HIDE DEF text
    <2>1. (text \o e) \o b = text \o (e \o b)
      BY <1>1, <1>2, <1>6, ConcatBytes
    <2> QED BY <2>1 DEF text
  <1> HIDE DEF text
  <1>9. /\ rest \in Seq(Byte) /\ Len(rest) = Len(e) + Len(b)
    BY <1>1, <1>2, Concat
  <1>10. /\ data \in Seq(Byte) /\ Len(data) = Len(text) + Len(rest)
         /\ Stands(text, data, start) /\ Stands(rest, data, c1)
    <2> HIDE DEF rest
    <2> QED BY <1>3, <1>6, <1>9, Concat
  <1>11. Stands(e, data, c1) /\ Stands(b, data, c2)
    <2> HIDE DEF data
    <2> QED BY <1>1, <1>2, <1>10, StandsBoth
  <1> HIDE DEF data, rest
  <1>12. /\ c1 \in Nat /\ c2 \in Nat /\ start < c1 /\ c1 <= c2 /\ c2 <= Len(data)
         /\ c1 + Len(e) = c2 /\ c2 + Len(b) = Len(data) /\ c1 = 1 + Len(name)
    BY <1>1, <1>2, <1>3, <1>4, <1>6, <1>9, <1>10
  <1> HIDE DEF c1, c2
  <1>13. ReadText(data, start, 1) = Done(name, c1)
    <2> DEFINE one == 1
    <2>1. one \in Nat /\ Fits(Len(name), one) /\ Stands(Digits(Len(name), one, 256) \o name, data, start)
      BY <1>7, <1>10
    <2>2. (start + one) + Len(name) = c1
      BY <1>3, <1>4, <1>12
    <2> HIDE DEF one
    <2>3. ReadText(data, start, one) = Done(name, (start + one) + Len(name))
      BY <2>1, ReadTextStanding
    <2> QED BY <2>2, <2>3 DEF one
  <1>14. ValueAt(data, c1, Done(v.shown, c2))
    <2>1. ValueAt(data, c1, Done(v.shown, c1 + Len(e)))
      BY <1>1, <1>3, <1>11, Moved
    <2> QED BY <1>12, <2>1
  <1>15. FieldsAt(data, c2, n, Done(fields, Len(data)))
    <2>1. FieldsAt(data, c2, n, Done(fields, c2 + Len(b)))
      BY <1>2, <1>3, <1>11, Moved
    <2> QED BY <1>12, <2>1
  <1>16. FieldsAt(data, start, n + 1, Done(fields \cup {<<name, v.shown>>}, Len(data)))
    BY <1>2, <1>3, <1>10, <1>12, <1>13, <1>14, <1>15, FieldsAtNext DEF fields
  <1> DEFINE shown == JsonObject(fields \cup {<<name, v.shown>>})
  <1>17. shown.fields = fields \cup {<<name, v.shown>>} /\ shown = JsonObject(shown.fields)
    BY DEF JsonObject, Json
  <1> HIDE DEF shown
  <1>18. Good(Value("tuple", n + 1, data, shown))
    <2>1. "tuple" \in DOMAIN TagOf
      BY DEF TagOf
    <2>2. n + 1 \in Nat /\ data \in Seq(Byte)
      BY <1>2, <1>10
    <2>3. FieldsAt(data, 0, n + 1, Done(shown.fields, Len(data)))
      BY <1>3, <1>16, <1>17
    <2> DEFINE m == n + 1
               g == Value("tuple", m, data, shown)
    <2>4. g.type = "tuple" /\ g.size = m /\ g.body = data /\ g.shown = shown
      BY DEF Value
    <2> HIDE DEF g, m
    <2>5. Good(g)
      BY <1>17, <2>1, <2>2, <2>3, <2>4 DEF Good, m
    <2> QED BY <2>5 DEF g, m
  <1> QED BY <1>8, <1>18 DEF e, b, fields, n, shown, first

-----------------------------------------------------------------------------
(* The inductive invariant: every value in the making is good, and no list *)
(* or tuple has more parts than a length can tell.  The second part of the *)
(* bound is there because merging turns a value into a part.               *)
IInv ==
    /\ parts \in Nat /\ parts <= MaxParts
    /\ \E S : values \in Seq(S)
    /\ \A i \in 1..Len(values) : Good(values[i]) /\ values[i].size + Len(values) <= parts

LEMMA Pushed ==
    ASSUME IInv, NEW v, Good(v), v.size = 0, Push(v), parts' <= MaxParts
    PROVE  IInv'
  <1>1. PICK S : values \in Seq(S)
    BY DEF IInv
  <1> DEFINE n == Len(values)
             s == Append(values, v)
  <1>2. n \in Nat /\ parts \in Nat
    BY <1>1, LenProperties DEF IInv
  <1>3. /\ s \in Seq(S \cup {v}) /\ Len(s) = n + 1
        /\ (\A i \in 1..n : s[i] = values[i]) /\ s[n + 1] = v
    <2>1. values \in Seq(S \cup {v}) /\ v \in S \cup {v}
      BY <1>1, SeqMonotonic
    <2> QED BY <2>1, AppendProperties
  <1>4. values' = s /\ parts' = parts + 1
    BY DEF Push
  <1> HIDE DEF n, s
  <1>5. \A i \in 1..n : Good(values[i]) /\ values[i].size \in Nat /\ values[i].size + n <= parts
    BY DEF IInv, Good, n
  <1>6. ASSUME NEW i \in 1..n + 1 PROVE Good(s[i]) /\ s[i].size + (n + 1) <= parts + 1
    <2>1. CASE i = n + 1
      <3>1. n <= parts
        <4>1. CASE n = 0
          BY <1>2, <4>1
        <4>2. CASE n # 0
          <5>1. n \in 1..n
            BY <1>2, <4>2
          <5>2. values[n].size \in Nat /\ values[n].size + n <= parts
            BY <1>5, <5>1
          <5> QED BY <1>2, <5>2
        <4> QED BY <4>1, <4>2
      <3>2. s[i] = v
        BY <1>3, <2>1
      <3> QED BY <1>2, <3>1, <3>2
    <2>2. CASE i # n + 1
      <3>1. i \in 1..n
        BY <1>2, <2>2
      <3>2. Good(values[i]) /\ values[i].size \in Nat /\ values[i].size + n <= parts
        BY <1>5, <3>1
      <3>3. s[i] = values[i]
        BY <1>3, <3>1
      <3> QED BY <1>2, <3>2, <3>3
    <2> QED BY <2>1, <2>2
  <1>7. parts' \in Nat /\ Len(values') = n + 1
    BY <1>2, <1>3, <1>4
  <1>8. \E T : values' \in Seq(T)
    BY <1>3, <1>4
  <1>9. \A i \in 1..Len(values') : Good(values'[i]) /\ values'[i].size + Len(values') <= parts'
    BY <1>4, <1>6, <1>7
  <1> QED BY <1>7, <1>8, <1>9 DEF IInv

LEMMA Enclosed ==
    ASSUME IInv, NEW v, Good(v), v.size = 0, Enclose(v), parts' <= MaxParts
    PROVE  IInv'
  <1>1. PICK S : values \in Seq(S)
    BY DEF IInv
  <1> DEFINE n == Len(values)
             s == [values EXCEPT ![n] = v]
  <1>2. n \in Nat /\ parts \in Nat
    BY <1>1, LenProperties DEF IInv
  <1>3. s \in Seq(S \cup {v}) /\ Len(s) = n /\ \A i \in 1..n : s[i] = IF i = n THEN v ELSE values[i]
    <2>1. values \in [1..n -> S]
      BY <1>1, LenProperties
    <2> HIDE DEF n
    <2>2. s \in [1..n -> S \cup {v}] /\ \A i \in 1..n : s[i] = IF i = n THEN v ELSE values[i]
      BY <2>1
    <2> HIDE DEF s
    <2> QED BY <1>2, <2>2
  <1>4. values' = s /\ parts' = parts + 1 /\ values # <<>>
    BY DEF Enclose
  <1>5. n # 0
    BY <1>1, <1>4, EmptySeq
  <1> HIDE DEF n, s
  <1>6. \A i \in 1..n : Good(values[i]) /\ values[i].size \in Nat /\ values[i].size + n <= parts
    BY DEF IInv, Good, n
  <1>7. ASSUME NEW i \in 1..n PROVE Good(s[i]) /\ s[i].size + n <= parts + 1
    <2>1. Good(values[i]) /\ values[i].size \in Nat /\ values[i].size + n <= parts
      BY <1>6
    <2>2. s[i] = IF i = n THEN v ELSE values[i]
      BY <1>3
    <2> QED BY <1>2, <2>1, <2>2
  <1>8. parts' \in Nat /\ Len(values') = n
    BY <1>2, <1>3, <1>4
  <1>9. \E T : values' \in Seq(T)
    BY <1>3, <1>4
  <1>10. \A i \in 1..Len(values') : Good(values'[i]) /\ values'[i].size + Len(values') <= parts'
    BY <1>4, <1>7, <1>8
  <1> QED BY <1>8, <1>9, <1>10 DEF IInv

LEMMA Merged ==
    ASSUME IInv, Len(values) > 1, NEW v, Good(v), v.size = Below.size + 1, Merge(v)
    PROVE  IInv'
  <1>1. PICK S : values \in Seq(S)
    BY DEF IInv
  <1> DEFINE n == Len(values)
             m == n - 1
             s == [i \in 1..n - 1 |-> IF i = n - 1 THEN v ELSE values[i]]
  <1>2. n \in Nat /\ parts \in Nat /\ m \in Nat /\ m \in 1..n /\ m + 1 = n /\ parts <= MaxParts
    BY <1>1, LenProperties DEF IInv
  <1>3. values' = s /\ parts' = parts /\ v.size = values[m].size + 1
    BY DEF Merge, Below
  <1>4. s \in Seq(S \cup {v}) /\ Len(s) = m /\ \A i \in 1..m : s[i] = IF i = m THEN v ELSE values[i]
    <2>1. \A i \in 1..m : values[i] \in S
      <3>1. \A i \in 1..m : i \in 1..n
        BY <1>2
      <3> QED BY <1>1, <3>1, ElementOfSeq
    <2>2. s = [i \in 1..m |-> IF i = m THEN v ELSE values[i]]
      OBVIOUS
    <2> HIDE DEF m, s
    <2> QED BY <1>2, <2>1, <2>2
  <1>5. \A i \in 1..n : Good(values[i]) /\ values[i].size \in Nat /\ values[i].size + n <= parts
    BY DEF IInv, Good
  <1> HIDE DEF n, m, s
  <1>6. ASSUME NEW i \in 1..m PROVE Good(s[i]) /\ s[i].size + m <= parts
    <2>1. i \in 1..n
      BY <1>2
    <2>2. Good(values[i]) /\ values[i].size \in Nat /\ values[i].size + n <= parts
      BY <1>5, <2>1
    <2>3. s[i] = IF i = m THEN v ELSE values[i]
      BY <1>4
    <2> QED BY <1>2, <1>3, <2>2, <2>3
  <1>7. parts' \in Nat /\ parts' <= MaxParts /\ Len(values') = m
    BY <1>2, <1>3, <1>4
  <1>8. \E T : values' \in Seq(T)
    BY <1>3, <1>4
  <1>9. \A i \in 1..Len(values') : Good(values'[i]) /\ values'[i].size + Len(values') <= parts'
    BY <1>3, <1>6, <1>7
  <1> QED BY <1>7, <1>8, <1>9 DEF IInv

(* No value has more parts than its size can tell.                         *)
LEMMA SizesFit ==
    ASSUME IInv, NEW i \in 1..Len(values)
    PROVE  Good(values[i]) /\ Fits(values[i].size, LenWidth)
  <1>1. Len(values) \in Nat
    BY LenProperties DEF IInv
  <1>2. Good(values[i]) /\ values[i].size \in Nat
    BY DEF IInv, Good
  <1>3. values[i].size + Len(values) <= parts /\ parts \in Nat /\ parts <= MaxParts
    BY DEF IInv
  <1>4. Fits(MaxParts, LenWidth) /\ MaxParts \in Nat
    BY ValuesAssumption DEF ValuesAssumption, Fits
  <1>5. values[i].size \in 0..MaxParts
    BY <1>1, <1>2, <1>3, <1>4
  <1>6. LenWidth \in Nat
    BY WidthAssumption DEF WidthAssumption
  <1> QED BY <1>2, <1>4, <1>5, <1>6, FitsLess

LEMMA InvInit == Init => IInv
  <1> SUFFICES ASSUME Init PROVE IInv
    OBVIOUS
  <1>1. values = <<>> /\ parts = 0
    BY DEF Init
  <1>2. 0 <= MaxParts
    BY ValuesAssumption DEF ValuesAssumption, Fits
  <1>3. <<>> \in Seq({}) /\ Len(<<>>) = 0
    OBVIOUS
  <1> QED BY <1>1, <1>2, <1>3 DEF IInv

LEMMA InvNext == IInv /\ [Next]_vars => IInv'
  <1> SUFFICES ASSUME IInv, [Next]_vars PROVE IInv'
    OBVIOUS
  <1> DEFINE n == Len(values)
  <1>0. n \in Nat
    BY LenProperties DEF IInv
  <1>a. n >= 1 => Good(Top) /\ Fits(Top.size, LenWidth)
    <2>1. n >= 1 => n \in 1..n
      BY <1>0
    <2> QED BY <2>1, SizesFit DEF Top
  <1>b. n > 1 => Good(Below)
    <2> DEFINE m == n - 1
    <2>1. n > 1 => m \in 1..n
      BY <1>0
    <2>2. n > 1 => Good(values[m])
      <3> HIDE DEF m
      <3> QED BY <2>1, SizesFit
    <2> QED BY <2>2 DEF Below
  <1>1. ASSUME NEW l \in Leaves, PushLeaf(l), parts' <= MaxParts PROVE IInv'
    <2> DEFINE v == Value(l.type, 0, LeafBody(l), LeafShown(l))
    <2>1. Good(v) /\ v.size = 0
      BY LeafGood DEF Value
    <2>2. Push(v)
      BY <1>1 DEF PushLeaf
    <2> HIDE DEF v
    <2> QED BY <1>1, <2>1, <2>2, Pushed
  <1>2. ASSUME NEW type \in {"ok", "err", "some"}, Wrap(type), parts' <= MaxParts PROVE IInv'
    <2> DEFINE v == Value(type, 0, Encode(Top),
                          IF type = "some" THEN Top.shown ELSE JsonWrapped(type, Top.shown))
    <2>1. Enclose(v)
      BY <1>2 DEF Wrap
    <2>2. n >= 1
      <3>1. values # <<>>
        BY <2>1 DEF Enclose
      <3>2. n # 0
        BY <3>1, EmptySeq DEF IInv
      <3> QED BY <1>0, <3>2
    <2>3. Good(v) /\ v.size = 0
      BY <1>a, <2>2, WrappedGood DEF Value
    <2> HIDE DEF v
    <2> QED BY <1>2, <2>1, <2>3, Enclosed
  <1>3. ASSUME PushList, parts' <= MaxParts PROVE IInv'
    <2> DEFINE v == Value("list", 0, <<>>, JsonArray(<<>>))
    <2>1. Good(v) /\ v.size = 0
      BY EmptyGood DEF Value
    <2>2. Push(v)
      BY <1>3 DEF PushList
    <2> HIDE DEF v
    <2> QED BY <1>3, <2>1, <2>2, Pushed
  <1>4. ASSUME PushTuple, parts' <= MaxParts PROVE IInv'
    <2> DEFINE v == Value("tuple", 0, <<>>, JsonObject({}))
    <2>1. Good(v) /\ v.size = 0
      BY EmptyGood DEF Value
    <2>2. Push(v)
      BY <1>4 DEF PushTuple
    <2> HIDE DEF v
    <2> QED BY <1>4, <2>1, <2>2, Pushed
  <1>5. ASSUME AddItem, parts' <= MaxParts PROVE IInv'
    <2> DEFINE v == Value("list", Below.size + 1, Encode(Top) \o Below.body,
                          JsonArray(<<Top.shown>> \o Below.shown.items))
    <2>1. n > 1 /\ Below.type = "list" /\ Merge(v)
      BY <1>5 DEF AddItem
    <2>2. Good(Top) /\ Fits(Top.size, LenWidth) /\ Good(Below)
      BY <1>0, <1>a, <1>b, <2>1
    <2>3. Good(v) /\ v.size = Below.size + 1
      BY <2>1, <2>2, ItemGood DEF Value
    <2> HIDE DEF v
    <2> QED BY <2>1, <2>3, Merged
  <1>6. ASSUME NEW name \in Names, AddField(name), parts' <= MaxParts PROVE IInv'
    <2> DEFINE v == Value("tuple", Below.size + 1,
                          <<Len(name)>> \o name \o Encode(Top) \o Below.body,
                          JsonObject(Below.shown.fields \cup {<<name, Top.shown>>}))
    <2>1. n > 1 /\ Below.type = "tuple" /\ Merge(v) /\ \A f \in Below.shown.fields : f[1] # name
      BY <1>6 DEF AddField
    <2>2. Good(Top) /\ Fits(Top.size, LenWidth) /\ Good(Below)
      BY <1>0, <1>a, <1>b, <2>1
    <2>3. IsText(name) /\ Fits(Len(name), 1)
      BY ValuesAssumption DEF ValuesAssumption
    <2>4. Good(v) /\ v.size = Below.size + 1
      BY <2>1, <2>2, <2>3, FieldGood DEF Value
    <2> HIDE DEF v
    <2> QED BY <2>1, <2>4, Merged
  <1>7. CASE UNCHANGED vars
    BY <1>7 DEF vars, IInv
  <1> QED BY <1>1, <1>2, <1>3, <1>4, <1>5, <1>6, <1>7 DEF Next

-----------------------------------------------------------------------------
(* Bytes written as digits.                                                *)

HexOf(data) ==
    LET digit(d) == IF d < 10 THEN 48 + d ELSE 87 + d
    IN  [i \in 1..2 * Len(data) |->
            IF i % 2 = 1 THEN digit(data[(i + 1) \div 2] \div 16) ELSE digit(data[i \div 2] % 16)]

HexIn(text) == [i \in 1..Len(text) |-> IF text[i] \in 97..102 THEN text[i] - 32 ELSE text[i]]

HexChar(d) == IF d < 10 THEN 48 + d ELSE 87 + d

Upper(c) == IF c \in 97..102 THEN c - 32 ELSE c

LEMMA HexChars ==
    ASSUME NEW d \in 0..15
    PROVE  /\ HexChar(d) \in Nat /\ HexDigit(HexChar(d)) = d
           /\ Upper(HexChar(d)) \in Nat /\ HexDigit(Upper(HexChar(d))) = d
           /\ Upper(HexChar(d)) # 120
  <1>1. CASE d < 10
    <2>1. HexChar(d) = 48 + d /\ 48 + d \in 48..57 /\ (48 + d) - 48 = d /\ 48 + d \notin 97..102
      BY <1>1 DEF HexChar
    <2>2. Upper(48 + d) = 48 + d
      BY <2>1 DEF Upper
    <2>3. HexDigit(48 + d) = d
      BY <2>1 DEF HexDigit
    <2> QED BY <2>1, <2>2, <2>3
  <1>2. CASE ~(d < 10)
    <2>1. /\ HexChar(d) = 87 + d /\ 87 + d \in 97..102 /\ (87 + d) - 87 = d /\ (87 + d) - 32 = 55 + d
          /\ 87 + d \notin 48..57 /\ 87 + d \notin 65..70
          /\ 55 + d \in 65..70 /\ 55 + d \notin 48..57 /\ (55 + d) - 55 = d
      BY <1>2 DEF HexChar
    <2>2. Upper(87 + d) = 55 + d
      BY <2>1 DEF Upper
    <2>3. HexDigit(87 + d) = d
      BY <2>1 DEF HexDigit
    <2>4. HexDigit(55 + d) = d
      BY <2>1 DEF HexDigit
    <2> QED BY <2>1, <2>2, <2>3, <2>4
  <1> QED BY <1>1, <1>2

(* A text whose digits, in pairs, are those of the data.                   *)
Spells(text, data) ==
    /\ text \in Seq(Nat) /\ Len(text) = 2 * Len(data)
    /\ \A k \in 1..Len(data) : /\ HexDigit(text[2 * k - 1]) = data[k] \div 16
                               /\ HexDigit(text[2 * k]) = data[k] % 16

LEMMA SpelledDecodes ==
    ASSUME NEW data \in Seq(Byte), NEW text, Spells(text, data)
    PROVE  HexDecode(text) = Done(data, 0)
  <1> DEFINE len == Len(data)
             bytes == [i \in 1..(Len(text) \div 2) |->
                         16 * HexDigit(text[2 * i - 1]) + HexDigit(text[2 * i])]
  <1>1. /\ len \in Nat /\ Len(text) = 2 * len /\ DOMAIN text = 1..2 * len
        /\ \A k \in 1..len : data[k] \in Nat /\ data[k] < 256
    BY BytesAreNumbers, LenProperties DEF Spells
  <1> HIDE DEF len
  <1>2. \A k \in 1..len : /\ HexDigit(text[2 * k - 1]) = data[k] \div 16
                          /\ HexDigit(text[2 * k]) = data[k] % 16
    BY DEF Spells, len
  <1>3. \A b \in Nat : b \div 16 # -1 /\ b % 16 # -1 /\ 16 * (b \div 16) + (b % 16) = b
    OBVIOUS
  <1>4. ASSUME NEW i \in 1..2 * len PROVE HexDigit(text[i]) # -1
    <2>1. PICK k \in 1..len : i = 2 * k - 1 \/ i = 2 * k
      <3> DEFINE h == (i + 1) \div 2
      <3>1. i \in Nat /\ i >= 1 /\ i <= 2 * len
        BY <1>1
      <3>2. h \in 1..len /\ (i = 2 * h - 1 \/ i = 2 * h)
        BY <1>1, <3>1
      <3> HIDE DEF h
      <3> QED BY <3>2
    <2>2. data[k] \in Nat
      BY <1>1
    <2> QED BY <1>2, <1>3, <2>1, <2>2, Zenon
  <1>5. Len(text) % 2 = 0 /\ Len(text) \div 2 = len
    BY <1>1
  <1>6. bytes = [i \in 1..len |-> data[i]]
    <2>1. ASSUME NEW i \in 1..len
          PROVE  16 * HexDigit(text[2 * i - 1]) + HexDigit(text[2 * i]) = data[i]
      <3>1. data[i] \in Nat
        BY <1>1
      <3>2. 16 * (data[i] \div 16) + (data[i] % 16) = data[i]
        BY <1>3, <3>1, Zenon
      <3>3. HexDigit(text[2 * i - 1]) = data[i] \div 16 /\ HexDigit(text[2 * i]) = data[i] % 16
        BY <1>2
      <3> QED BY <3>2, <3>3, Zenon
    <2> QED BY <1>5, <2>1
  <1>7. data = [i \in 1..len |-> data[i]]
    BY LenProperties DEF len
  <1>8. HexDecode(text) = Done(bytes, 0)
    <2> HIDE DEF bytes
    <2>1. ~(Len(text) % 2 = 1 \/ \E i \in DOMAIN text : HexDigit(text[i]) = -1)
      BY <1>1, <1>4, <1>5
    <2> QED BY <2>1 DEF HexDecode, bytes
  <1> QED BY <1>6, <1>7, <1>8

(* Both ways of writing digits, of as many of the bytes as one likes.      *)
LEMMA HexSpells ==
    ASSUME NEW data \in Seq(Byte), NEW k \in 0..Len(data)
    PROVE  /\ HexOf(data) \in Seq(Nat) /\ Len(HexOf(data)) = 2 * Len(data)
           /\ Spells(Prefix(HexOf(data), 2 * k), Prefix(data, k))
           /\ Spells(HexIn(HexOf(data)), data)
           /\ \A i \in 1..2 * Len(data) : HexIn(HexOf(data))[i] # 120
  <1> DEFINE len == Len(data)
             hex == HexOf(data)
             caps == HexIn(hex)
  <1>1. len \in Nat /\ \A j \in 1..len : data[j] \in Nat /\ data[j] < 256
    BY BytesAreNumbers
  <1>2. hex = [i \in 1..2 * len |->
                 IF i % 2 = 1 THEN HexChar(data[(i + 1) \div 2] \div 16) ELSE HexChar(data[i \div 2] % 16)]
    BY DEF HexOf, HexChar
  <1>3. \A d \in 0..15 : /\ HexChar(d) \in Nat /\ HexDigit(HexChar(d)) = d
                         /\ Upper(HexChar(d)) \in Nat /\ HexDigit(Upper(HexChar(d))) = d
                         /\ Upper(HexChar(d)) # 120
    BY HexChars
  <1>4. \A b \in Nat : b < 256 => b \div 16 \in 0..15 /\ b % 16 \in 0..15
    OBVIOUS
  <1> HIDE DEF len, hex
  <1>5. ASSUME NEW j \in 1..len
        PROVE  /\ 2 * j - 1 \in 1..2 * len /\ 2 * j \in 1..2 * len
               /\ data[j] \div 16 \in 0..15 /\ data[j] % 16 \in 0..15
               /\ hex[2 * j - 1] = HexChar(data[j] \div 16) /\ hex[2 * j] = HexChar(data[j] % 16)
    <2> DEFINE a == 2 * j - 1
               b == 2 * j
    <2>1. /\ a \in 1..2 * len /\ b \in 1..2 * len
          /\ a % 2 = 1 /\ b % 2 = 0 /\ (a + 1) \div 2 = j /\ b \div 2 = j
      BY <1>1
    <2> HIDE DEF a, b
    <2>2. hex[a] = HexChar(data[j] \div 16) /\ hex[b] = HexChar(data[j] % 16)
      BY <1>2, <2>1
    <2>3. data[j] \div 16 \in 0..15 /\ data[j] % 16 \in 0..15
      BY <1>1, <1>4, Zenon
    <2> QED BY <2>1, <2>2, <2>3 DEF a, b
  <1>6. ASSUME NEW i \in 1..2 * len PROVE \E d \in 0..15 : hex[i] = HexChar(d)
    <2> DEFINE h == (i + 1) \div 2
    <2>1. h \in 1..len /\ (i = 2 * h - 1 \/ i = 2 * h)
      BY <1>1
    <2> HIDE DEF h
    <2>2. CASE i = 2 * h - 1
      <3>1. data[h] \div 16 \in 0..15 /\ hex[i] = HexChar(data[h] \div 16)
        BY <1>5, <2>1, <2>2
      <3> QED BY <3>1, Zenon
    <2>3. CASE i = 2 * h
      <3>1. data[h] % 16 \in 0..15 /\ hex[i] = HexChar(data[h] % 16)
        BY <1>5, <2>1, <2>3
      <3> QED BY <3>1, Zenon
    <2> QED BY <2>1, <2>2, <2>3
  <1>7. hex \in Seq(Nat) /\ Len(hex) = 2 * len
    <2>1. ASSUME NEW i \in 1..2 * len PROVE hex[i] \in Nat
      <3>1. PICK d \in 0..15 : hex[i] = HexChar(d)
        BY <1>6
      <3> QED BY <1>3, <3>1, Zenon
    <2> DEFINE m == 2 * len
    <2>2. hex = [i \in 1..m |-> hex[i]] /\ \A i \in 1..m : hex[i] \in Nat
      BY <1>2, <2>1
    <2>3. m \in Nat
      BY <1>1
    <2> HIDE DEF m
    <2>4. hex \in Seq(Nat) /\ Len(hex) = m
      BY <2>2, <2>3, SMTT(40)
    <2> QED BY <2>4 DEF m
  <1>8. /\ caps \in Seq(Nat) /\ Len(caps) = 2 * len
        /\ \A i \in 1..2 * len : caps[i] = Upper(hex[i]) /\ caps[i] # 120
    <2>1. caps = [i \in 1..2 * len |-> Upper(hex[i])]
      BY <1>7 DEF HexIn, Upper
    <2> HIDE DEF caps
    <2>2. ASSUME NEW i \in 1..2 * len PROVE Upper(hex[i]) \in Nat /\ Upper(hex[i]) # 120
      <3>1. PICK d \in 0..15 : hex[i] = HexChar(d)
        BY <1>6
      <3> QED BY <1>3, <3>1, ZenonT(40)
    <2> QED BY <1>1, <2>1, <2>2
  <1> HIDE DEF caps
  <1>9. Spells(caps, data)
    <2>1. ASSUME NEW j \in 1..len
          PROVE  /\ HexDigit(caps[2 * j - 1]) = data[j] \div 16
                 /\ HexDigit(caps[2 * j]) = data[j] % 16
      <3> DEFINE a == 2 * j - 1
                 b == 2 * j
      <3>1. /\ a \in 1..2 * len /\ b \in 1..2 * len
            /\ data[j] \div 16 \in 0..15 /\ data[j] % 16 \in 0..15
            /\ hex[a] = HexChar(data[j] \div 16) /\ hex[b] = HexChar(data[j] % 16)
        BY <1>5
      <3> HIDE DEF a, b
      <3>2. caps[a] = Upper(hex[a]) /\ caps[b] = Upper(hex[b])
        BY <1>8, <3>1, Zenon
      <3>3. HexDigit(caps[a]) = data[j] \div 16 /\ HexDigit(caps[b]) = data[j] % 16
        BY <1>3, <3>1, <3>2, Zenon
      <3> QED BY <3>3 DEF a, b
    <2> QED BY <1>8, <2>1 DEF Spells, len
  <1>10. Spells(Prefix(hex, 2 * k), Prefix(data, k))
    <2> DEFINE some == Prefix(data, k)
               text == Prefix(hex, 2 * k)
    <2>1. k \in Nat /\ k <= len /\ 2 * k \in Nat
      BY <1>1 DEF len
    <2>2. \A j \in 1..k : data[j] \in Byte
      <3>1. \A j \in 1..k : j \in 1..Len(data)
        BY <2>1 DEF len
      <3> QED BY <3>1, ElementOfSeq
    <2>3. some \in Seq(Byte) /\ Len(some) = k /\ \A j \in 1..k : some[j] = data[j]
      BY <2>1, <2>2 DEF Prefix
    <2>4. \A i \in 1..2 * k : hex[i] \in Nat
      <3>1. \A i \in 1..2 * k : i \in 1..Len(hex)
        BY <1>1, <1>7, <2>1
      <3> QED BY <1>7, <3>1, ElementOfSeq
    <2>5. text \in Seq(Nat) /\ Len(text) = 2 * k /\ \A i \in 1..2 * k : text[i] = hex[i]
      BY <2>1, <2>4 DEF Prefix
    <2> HIDE DEF some, text
    <2>6. ASSUME NEW j \in 1..k
          PROVE  HexDigit(text[2 * j - 1]) = some[j] \div 16 /\ HexDigit(text[2 * j]) = some[j] % 16
      <3> DEFINE a == 2 * j - 1
                 b == 2 * j
      <3>1. j \in 1..len /\ a \in 1..2 * k /\ b \in 1..2 * k
        BY <1>1, <2>1
      <3>2. /\ data[j] \div 16 \in 0..15 /\ data[j] % 16 \in 0..15
            /\ hex[a] = HexChar(data[j] \div 16) /\ hex[b] = HexChar(data[j] % 16)
        BY <1>5, <3>1
      <3> HIDE DEF a, b
      <3>3. text[a] = HexChar(data[j] \div 16) /\ text[b] = HexChar(data[j] % 16)
        BY <2>5, <3>1, <3>2
      <3>4. HexDigit(text[a]) = data[j] \div 16 /\ HexDigit(text[b]) = data[j] % 16
        BY <1>3, <3>2, <3>3, Zenon
      <3> QED BY <2>3, <3>4 DEF a, b
    <2> QED BY <2>3, <2>5, <2>6 DEF Spells, some, text
  <1> QED BY <1>7, <1>8, <1>9, <1>10 DEF hex, caps, len

LEMMA WrittenIs ==
    ASSUME NEW data \in Seq(Byte)
    PROVE  /\ Written(data) \in Seq(Nat) /\ Len(Written(data)) = 2 + 2 * Len(data)
           /\ Written(data)[1] = 48 /\ Written(data)[2] = 120
           /\ \A i \in 1..2 * Len(data) : Written(data)[i + 2] = HexOf(data)[i]
  <1> DEFINE mark == <<48, 120>>
             hex == HexOf(data)
             w == mark \o hex
             m == 2 * Len(data)
  <1>1. Written(data) = w
    BY DEF Written, HexOf
  <1>2. mark \in Seq(Nat) /\ Len(mark) = 2 /\ mark[1] = 48 /\ mark[2] = 120
    OBVIOUS
  <1>3. hex \in Seq(Nat) /\ Len(hex) = m /\ m \in Nat
    <2>1. Len(data) \in Nat
      BY LenProperties
    <2>2. 0 \in 0..Len(data)
      BY <2>1
    <2> QED BY <2>1, <2>2, HexSpells
  <1> HIDE DEF mark, hex, m
  <1>4. /\ w \in Seq(Nat) /\ Len(w) = Len(mark) + Len(hex)
        /\ \A i \in 1..Len(mark) + Len(hex) :
              w[i] = IF i <= Len(mark) THEN mark[i] ELSE hex[i - Len(mark)]
    <2>1. mark \in Seq(Nat) /\ hex \in Seq(Nat)
      BY <1>2, <1>3
    <2> QED BY <2>1, ConcatProperties
  <1> HIDE DEF w
  <1>5. Len(w) = 2 + m /\ \A i \in 1..2 + m : w[i] = IF i <= 2 THEN mark[i] ELSE hex[i - 2]
    BY <1>2, <1>3, <1>4
  <1>6. w[1] = 48 /\ w[2] = 120
    BY <1>2, <1>3, <1>5
  <1>7. ASSUME NEW i \in 1..m PROVE w[i + 2] = hex[i]
    <2> DEFINE j == i + 2
    <2>1. j \in 1..2 + m /\ ~(j <= 2) /\ j - 2 = i
      BY <1>3
    <2> HIDE DEF j
    <2>2. w[j] = hex[i]
      BY <1>5, <2>1
    <2> QED BY <2>2 DEF j
  <1> QED BY <1>1, <1>4, <1>5, <1>6, <1>7 DEF hex, m

(* What a text decodes to whose digits behind "0x", if that stands there,  *)
(* are those of some bytes.                                                *)
LEMMA SpelledDecoded ==
    ASSUME NEW text, NEW hex, NEW data \in Seq(Byte), Spells(hex, data),
           hex = IF Len(text) >= 2 /\ text[1] = 48 /\ text[2] = 120
                 THEN [i \in 1..Len(text) - 2 |-> text[i + 2]] ELSE text
    PROVE  DecodeClarityValue(text) = DecodeValue(data, 0)
  <1> DEFINE r == HexDecode(hex)
  <1>1. r = Done(data, 0)
    BY SpelledDecodes
  <1>2. r.ok /\ r.value = data /\ r.at = 0
    BY <1>1 DEF Done
  <1>3. DecodeClarityValue(text) = IF r.ok THEN DecodeValue(r.value, r.at) ELSE r
    BY DEF DecodeClarityValue, Try
  <1> HIDE DEF r
  <1> QED BY <1>2, <1>3

(* The part of a text that is written, of any length.                      *)
LEMMA WrittenDecodes ==
    ASSUME NEW data \in Seq(Byte), NEW n \in 0..2 + 2 * Len(data)
    PROVE  /\ n % 2 = 1 => DecodeClarityValue(Prefix(Written(data), n)) = InvalidHex
           /\ \A k \in 0..Len(data) : n = 2 + 2 * k \/ (n = 0 /\ k = 0) =>
                 DecodeClarityValue(Prefix(Written(data), n)) = DecodeValue(Prefix(data, k), 0)
  <1> DEFINE w == Written(data)
             text == Prefix(w, n)
             len == Len(data)
             hex == IF Len(text) >= 2 /\ text[1] = 48 /\ text[2] = 120
                    THEN [i \in 1..Len(text) - 2 |-> text[i + 2]] ELSE text
  <1>1. len \in Nat /\ n \in Nat /\ n <= 2 + 2 * len
    BY LenProperties
  <1>2. /\ w \in Seq(Nat) /\ Len(w) = 2 + 2 * len /\ w[1] = 48 /\ w[2] = 120
        /\ \A i \in 1..2 * len : w[i + 2] = HexOf(data)[i]
    BY WrittenIs
  <1> HIDE DEF w, len
  <1>3. text = [i \in 1..n |-> w[i]] /\ text \in Seq(Nat) /\ Len(text) = n
    <2>1. \A i \in 1..n : w[i] \in Nat
      <3>1. \A i \in 1..n : i \in 1..Len(w)
        BY <1>1, <1>2
      <3> QED BY <1>2, <3>1, ElementOfSeq
    <2>2. text = [i \in 1..n |-> w[i]]
      BY DEF Prefix
    <2> HIDE DEF text
    <2> QED BY <1>1, <2>1, <2>2
  <1> HIDE DEF text
  <1>4. ASSUME n >= 2
        PROVE  hex = [i \in 1..n - 2 |-> HexOf(data)[i]]
    <2>1. text[1] = 48 /\ text[2] = 120
      BY <1>1, <1>2, <1>3, <1>4
    <2>2. hex = [i \in 1..n - 2 |-> text[i + 2]]
      BY <1>3, <1>4, <2>1
    <2>3. ASSUME NEW i \in 1..n - 2 PROVE text[i + 2] = HexOf(data)[i]
      <3> DEFINE j == i + 2
      <3>1. j \in 1..n /\ i \in 1..2 * len
        BY <1>1, <1>4
      <3>2. text[j] = w[j]
        <4> HIDE DEF j
        <4> QED BY <1>3, <3>1
      <3> QED BY <1>2, <3>1, <3>2
    <2> QED BY <2>2, <2>3
  <1>5. ASSUME ~(n >= 2) PROVE hex = text
    BY <1>1, <1>3, <1>5
  <1>6. ASSUME n % 2 = 1 PROVE DecodeClarityValue(text) = InvalidHex
    <2>1. Len(hex) % 2 = 1
      <3>1. CASE n >= 2
        <4> DEFINE m == n - 2
        <4>1. m \in Nat /\ m % 2 = 1
          BY <1>1, <1>6, <3>1
        <4>2. hex = [i \in 1..m |-> HexOf(data)[i]]
          BY <1>4, <3>1
        <4> HIDE DEF m, hex
        <4>3. Len(hex) = m
          BY <4>1, <4>2
        <4> QED BY <4>1, <4>3
      <3>2. CASE ~(n >= 2)
        <4>1. hex = text
          BY <1>5, <3>2
        <4> HIDE DEF hex
        <4> QED BY <1>3, <1>6, <4>1
      <3> QED BY <3>1, <3>2
    <2>2. HexDecode(hex) = InvalidHex
      <3> HIDE DEF hex
      <3> QED BY <2>1 DEF HexDecode
    <2> DEFINE r == HexDecode(hex)
    <2>3. ~r.ok
      BY <2>2 DEF InvalidHex
    <2>4. DecodeClarityValue(text) = IF r.ok THEN DecodeValue(r.value, r.at) ELSE r
      BY DEF DecodeClarityValue, Try
    <2> HIDE DEF r
    <2> QED BY <2>2, <2>3, <2>4 DEF r
  <1>7. ASSUME NEW k \in 0..len, n = 2 + 2 * k \/ (n = 0 /\ k = 0)
        PROVE  DecodeClarityValue(text) = DecodeValue(Prefix(data, k), 0)
    <2>1. hex = Prefix(HexOf(data), 2 * k)
      <3>1. CASE n = 2 + 2 * k
        <4>1. n >= 2 /\ n - 2 = 2 * k
          BY <1>1, <3>1
        <4>2. hex = [i \in 1..n - 2 |-> HexOf(data)[i]]
          BY <1>4, <4>1
        <4> HIDE DEF hex
        <4> QED BY <4>1, <4>2 DEF Prefix
      <3>2. CASE n = 0 /\ k = 0
        <4>1. hex = [i \in 1..0 |-> w[i]]
          BY <1>3, <1>5, <3>2
        <4>2. Prefix(HexOf(data), 2 * k) = [i \in 1..0 |-> HexOf(data)[i]]
          BY <3>2 DEF Prefix
        <4>3. 1..0 = {}
          OBVIOUS
        <4> HIDE DEF hex
        <4> QED BY <4>1, <4>2, <4>3
      <3> QED BY <1>7, <3>1, <3>2
    <2>2. Spells(Prefix(HexOf(data), 2 * k), Prefix(data, k))
      BY <1>7, HexSpells DEF len
    <2>3. Prefix(data, k) \in Seq(Byte)
      <3>1. k \in Nat /\ k <= Len(data)
        BY <1>1, <1>7 DEF len
      <3>2. \A i \in 1..k : data[i] \in Byte
        <4>1. \A i \in 1..k : i \in 1..Len(data)
          BY <1>1, <3>1 DEF len
        <4> QED BY <4>1, ElementOfSeq
      <3> QED BY <3>1, <3>2 DEF Prefix
    <2>4. Spells(hex, Prefix(data, k))
      BY <2>1, <2>2
    <2> QED BY <2>3, <2>4, SpelledDecoded
  <1> QED BY <1>6, <1>7 DEF text, w, len

LEMMA WholePrefix ==
    ASSUME NEW S, NEW s \in Seq(S)
    PROVE  Prefix(s, Len(s)) = s
  BY LenProperties DEF Prefix

LEMMA CapitalsDecode ==
    ASSUME NEW data \in Seq(Byte)
    PROVE  DecodeClarityValue(Capital(Written(data))) = DecodeValue(data, 0)
  <1> DEFINE w == Written(data)
             m == 2 * Len(data)
             text == Capital(w)
             caps == HexIn(HexOf(data))
  <1>1. m \in Nat /\ 0 \in 0..Len(data)
    BY LenProperties
  <1>2. /\ HexOf(data) \in Seq(Nat) /\ Len(HexOf(data)) = m
        /\ Spells(caps, data) /\ \A i \in 1..m : caps[i] # 120
    BY <1>1, HexSpells
  <1>3. Len(w) = 2 + m /\ \A i \in 1..m : w[i + 2] = HexOf(data)[i]
    BY WrittenIs
  <1>4. text = caps
    <2>1. text = [i \in 1..m |-> IF w[i + 2] \in 97..102 THEN w[i + 2] - 32 ELSE w[i + 2]]
      <3>1. Len(w) - 2 = m
        BY <1>1, <1>3
      <3> HIDE DEF w, m
      <3> QED BY <3>1 DEF Capital
    <2>2. caps = [i \in 1..m |-> IF HexOf(data)[i] \in 97..102 THEN HexOf(data)[i] - 32 ELSE HexOf(data)[i]]
      BY <1>2 DEF HexIn
    <2> HIDE DEF w, m, text, caps
    <2> QED BY <1>3, <2>1, <2>2
  <1>5. Len(caps) = m
    BY <1>2 DEF Spells
  <1> HIDE DEF m, text, caps
  <1>6. ~(Len(text) >= 2 /\ text[1] = 48 /\ text[2] = 120)
    BY <1>1, <1>2, <1>4, <1>5
  <1>7. DecodeClarityValue(text) = DecodeValue(data, 0)
    BY <1>2, <1>4, <1>6, SpelledDecoded
  <1> QED BY <1>7 DEF text

-----------------------------------------------------------------------------
(* What the decoder makes of the values that are built.                    *)

LEMMA TopIsGood ==
    ASSUME IInv, Finished
    PROVE  Good(Top) /\ Fits(Top.size, LenWidth)
  <1>1. Len(values) \in 1..Len(values)
    BY DEF Finished
  <1> QED BY <1>1, SizesFit DEF Top

(* A value is read at the front of any text that begins with it.           *)
LEMMA FrontDecodes ==
    ASSUME NEW v, Good(v), Fits(v.size, LenWidth), NEW junk \in Seq(Byte)
    PROVE  /\ Encode(v) \o junk \in Seq(Byte)
           /\ DecodeValue(Encode(v) \o junk, 0) = Done(v.shown, Len(Encode(v)))
  <1> DEFINE part == Encode(v)
             data == part \o junk
             shown == v.shown
             d == 2 * Len(data) + 1
             len == Len(part)
             start == 0
             one == 1
  <1>1. part \in Seq(Byte) /\ len \in Nat /\ ValueAt(part, 0, Done(shown, len))
    BY Readable
  <1>2. start + len = len /\ one \in Nat
    BY <1>1
  <1> HIDE DEF part, shown, one
  <1>3. data \in Seq(Byte) /\ Stands(part, data, start)
    BY <1>1, Concat
  <1>4. Len(data) \in Nat
    BY <1>3, LenProperties
  <1>5. DecodeValue(data, start) = Calls(data, d).value[start]
    BY DEF DecodeValue
  <1> HIDE DEF data
  <1>6. d \in Nat /\ 2 * (Len(data) - start) + 1 <= d
    BY <1>4
  <1> HIDE DEF start, d
  <1>7. ValueAt(data, start, Done(shown, start + len))
    BY <1>1, <1>2, <1>3, Moved
  <1>8. DecodeValue(data, start) = Done(shown, len)
    BY <1>2, <1>5, <1>6, <1>7 DEF ValueAt
  <1> QED BY <1>3, <1>8 DEF data, part, shown, start

(* The bytes of a value, and nothing else.                                 *)
LEMMA ValueDecodes ==
    ASSUME NEW v, Good(v), Fits(v.size, LenWidth)
    PROVE  /\ Encode(v) \in Seq(Byte)
           /\ DecodeValue(Encode(v), 0) = Done(v.shown, Len(Encode(v)))
  <1>1. Encode(v) \in Seq(Byte)
    BY Readable
  <1>2. <<>> \in Seq(Byte)
    OBVIOUS
  <1>3. Encode(v) \o <<>> = Encode(v)
    BY <1>1, ConcatEmptySeq
  <1>4. DecodeValue(Encode(v) \o <<>>, 0) = Done(v.shown, Len(Encode(v)))
    BY <1>2, FrontDecodes
  <1> QED BY <1>1, <1>3, <1>4

(* In digits, in either case.                                              *)
LEMMA WholeDecodes ==
    ASSUME NEW data \in Seq(Byte)
    PROVE  /\ DecodeClarityValue(Written(data)) = DecodeValue(data, 0)
           /\ DecodeClarityValue(Capital(Written(data))) = DecodeValue(data, 0)
  <1> DEFINE k == Len(data)
             n == 2 + 2 * k
             w == Written(data)
  <1>1. k \in 0..Len(data) /\ n \in 0..2 + 2 * Len(data)
    BY LenProperties
  <1>2. w \in Seq(Nat) /\ Len(w) = n
    BY WrittenIs
  <1>3. Prefix(w, n) = w
    <2> HIDE DEF w, n
    <2> QED BY <1>2, WholePrefix
  <1>4. Prefix(data, k) = data
    BY WholePrefix
  <1>5. n = 2 + 2 * k
    OBVIOUS
  <1> HIDE DEF k, n
  <1>6. DecodeClarityValue(Prefix(w, n)) = DecodeValue(Prefix(data, k), 0)
    BY <1>1, <1>5, WrittenDecodes
  <1> QED BY <1>3, <1>4, <1>6, CapitalsDecode

LEMMA RoundTripFollows ==
    ASSUME IInv
    PROVE  RoundTrip
  <1> SUFFICES ASSUME Finished, NEW junk \in Junk
               PROVE  LET text == Written(Encode(Top) \o junk)
                          result == Done(Top.shown, Len(Encode(Top)))
                      IN  /\ DecodeClarityValue(text) = result
                          /\ DecodeClarityValue(Capital(text)) = result
    BY DEF RoundTrip
  <1> DEFINE data == Encode(Top) \o junk
  <1>1. junk \in Seq(Byte)
    BY ValuesAssumption DEF ValuesAssumption
  <1>2. data \in Seq(Byte) /\ DecodeValue(data, 0) = Done(Top.shown, Len(Encode(Top)))
    BY <1>1, TopIsGood, FrontDecodes
  <1> HIDE DEF data
  <1>3. /\ DecodeClarityValue(Written(data)) = DecodeValue(data, 0)
        /\ DecodeClarityValue(Capital(Written(data))) = DecodeValue(data, 0)
    BY <1>2, WholeDecodes
  <1> QED BY <1>2, <1>3 DEF data

LEMMA CutShortFollows ==
    ASSUME IInv
    PROVE  CutShortIsNoticed
  <1> SUFFICES ASSUME Finished, NEW n \in 0..Len(Written(Encode(Top))) - 1
               PROVE  LET result == DecodeClarityValue(Prefix(Written(Encode(Top)), n))
                      IN  /\ ~result.ok
                          /\ result.error = IF n % 2 = 1 THEN "InvalidHex" ELSE "UnexpectedEof"
                          /\ 2 * result.at <= n
    BY DEF CutShortIsNoticed
  <1> DEFINE data == Encode(Top)
             result == DecodeClarityValue(Prefix(Written(data), n))
             len == Len(data)
             k == IF n < 2 THEN 0 ELSE (n - 2) \div 2
  <1>1. data \in Seq(Byte) /\ DecodeValue(data, 0) = Done(Top.shown, len)
    BY TopIsGood, ValueDecodes
  <1>2. len \in Nat \ {0}
    BY TopIsGood, Readable
  <1>3. n \in 0..2 + 2 * len - 1
    <2>1. Len(Written(data)) = 2 + 2 * len
      <3> HIDE DEF data
      <3> QED BY <1>1, WrittenIs DEF len
    <2> QED BY <2>1
  <1> HIDE DEF data
  <1>4. n \in Nat /\ n \in 0..2 + 2 * len
    BY <1>2, <1>3
  <1>5. CASE n % 2 = 1
    <2>1. result = InvalidHex
      BY <1>1, <1>4, <1>5, WrittenDecodes DEF len
    <2> HIDE DEF result
    <2>2. ~result.ok /\ result.error = "InvalidHex" /\ result.at = 0
      BY <2>1 DEF InvalidHex
    <2> QED BY <1>4, <1>5, <2>2 DEF result, data
  <1>6. CASE n % 2 # 1
    <2>1. k \in 0..len /\ k < len /\ 2 * k <= n /\ (n = 2 + 2 * k \/ (n = 0 /\ k = 0))
      BY <1>2, <1>3, <1>6
    <2> HIDE DEF k
    <2>2. result = DecodeValue(Prefix(data, k), 0)
      BY <1>1, <1>4, <2>1, WrittenDecodes DEF len
    <2>3. len > k
      BY <1>2, <2>1
    <2>4. /\ DecodeValue(Prefix(data, k), 0).ok = FALSE
          /\ DecodeValue(Prefix(data, k), 0).error = "UnexpectedEof"
          /\ DecodeValue(Prefix(data, k), 0).at \in 0..k
      <3>1. k \in 0..Len(data)
        BY <2>1 DEF len
      <3> HIDE DEF len
      <3> QED BY <1>1, <2>3, <3>1, DecodePrefix
    <2> HIDE DEF result
    <2>5. ~result.ok /\ result.error = "UnexpectedEof" /\ result.at \in 0..k
      BY <2>2, <2>4
    <2>6. 2 * result.at <= n
      BY <1>2, <1>4, <2>1, <2>5
    <2> QED BY <1>6, <2>5, <2>6 DEF result, data
  <1> QED BY <1>5, <1>6

(* Whatever bytes the decoder is called on, it decides by those up to      *)
(* where it stopped: alone they are the same value, and of fewer there is  *)
(* none (read_bytes never reaches beyond the cursor).  Its errors are of   *)
(* the code, at an offset within the bytes, and it calls a tag unknown     *)
(* only if it is.                                                          *)
THEOREM DecidesByPrefix ==
    ASSUME NEW data \in Seq(Byte)
    PROVE  LET result == DecodeValue(data, 0)
           IN  /\ result.ok =>
                      /\ result.at <= Len(data)
                      /\ DecodeValue(Prefix(data, result.at), 0) = result
                      /\ ~DecodeValue(Prefix(data, result.at - 1), 0).ok
               /\ ~result.ok /\ result.error = "UnknownTypePrefix" =>
                      result.at < Len(data) /\ data[result.at + 1] \notin 0..14
               /\ ~result.ok /\ result.error # "UnknownTypePrefix" =>
                      /\ result.error \in {"UnexpectedEof", "InvalidUtf8"}
                      /\ result.at <= Len(data)
  <1> DEFINE result == DecodeValue(data, 0)
             len == Len(data)
  <1>1. len \in Nat
    BY LenProperties
  <1>2. Sound(data, 0, result)
    <2>1. 0 \in 0..Len(data)
      BY <1>1
    <2> QED BY <2>1, DecoderEnds
  <1>3. ASSUME result.ok
        PROVE  /\ result.at <= len
               /\ DecodeValue(Prefix(data, result.at), 0) = result
               /\ ~DecodeValue(Prefix(data, result.at - 1), 0).ok
    <2> DEFINE at == result.at
               v == result.value
               less == at - 1
               end == at
    <2>1. result = Done(v, at)
      BY <1>3, DecodeDone
    <2>2. at \in 1..len
      <3>1. 0 \in 0..Len(data)
        BY <1>1
      <3> HIDE DEF at, v
      <3> QED BY <2>1, <3>1, DecodePrefix
    <2>3. end \in 0..len /\ at <= end /\ at <= len /\ less \in 0..len /\ at > less
      BY <1>1, <2>2
    <2>4. DecodeValue(data, 0) = Done(v, at)
      BY <2>1
    <2> HIDE DEF at, v, less, end, result
    <2>5. DecodeValue(Prefix(data, end), 0) = Done(v, at)
      <3>1. end \in 0..Len(data)
        BY <2>3
      <3>2. at <= end
        BY <2>3
      <3> QED BY <2>4, <3>1, <3>2, DecodeAgain
    <2>6. ~DecodeValue(Prefix(data, less), 0).ok
      BY <2>3, <2>4, DecodePrefix
    <2> QED BY <2>1, <2>3, <2>5, <2>6 DEF at, less, end
  <1> HIDE DEF result
  <1>4. ASSUME ~result.ok, result.error = "UnknownTypePrefix"
        PROVE  result.at < len /\ data[result.at + 1] \notin 0..14
    BY <1>1, <1>2, <1>4 DEF Sound
  <1>5. ASSUME ~result.ok, result.error # "UnknownTypePrefix"
        PROVE  result.error \in {"UnexpectedEof", "InvalidUtf8"} /\ result.at <= len
    BY <1>1, <1>2, <1>5, SMTT(40) DEF Sound
  <1> QED BY <1>3, <1>4, <1>5 DEF result

LEMMA DamageFollows ==
    ASSUME IInv
    PROVE  DamageIsContained
  <1> SUFFICES ASSUME Finished, NEW data \in Damaged(Encode(Top))
               PROVE  data \in Seq(Byte)
    BY DecidesByPrefix DEF DamageIsContained
  <1> DEFINE whole == Encode(Top)
  <1>1. whole \in Seq(Byte)
    BY TopIsGood, Readable
  <1>2. PICK i \in DOMAIN whole, b \in Damage : data = [whole EXCEPT ![i] = b]
    BY DEF Damaged
  <1>3. b \in Byte
    BY ValuesAssumption DEF ValuesAssumption
  <1> HIDE DEF whole
  <1> QED BY <1>1, <1>2, <1>3

-----------------------------------------------------------------------------
(* The theorems about what is built.                                       *)

(* Every value in the making stands in its bytes as the decoder reads it.  *)
THEOREM AlwaysGood == Spec => []IInv
  BY InvInit, InvNext, PTL DEF Spec

(* Whatever a contract emits, of any size and depth, decodes to the JSON   *)
(* that the table of clarity/mod.rs says, in either case of the digits and *)
(* with anything behind it, and the decoder stops where it ends: decode    *)
(* does what clarity/mod.rs promises (decoder.rs, decode_clarity_value).   *)
THEOREM AlwaysRoundTrip == Spec => []RoundTrip
  <1>1. IInv => RoundTrip
    BY RoundTripFollows
  <1> QED BY <1>1, AlwaysGood, PTL

(* A value cut short is never taken for another one: read_bytes finds that *)
(* bytes are missing, or hex::decode that half of one is.                  *)
THEOREM AlwaysNoticed == Spec => []CutShortIsNoticed
  <1>1. IInv => CutShortIsNoticed
    BY CutShortFollows
  <1> QED BY <1>1, AlwaysGood, PTL

(* Of damaged bytes the decoder reads no further than the value that it    *)
(* says, or names an offset within them: decode_value has no panic, no end *)
(* that it does not reach, and no error of another kind.                   *)
THEOREM AlwaysContained == Spec => []DamageIsContained
  <1>1. IInv => DamageIsContained
    BY DamageFollows
  <1> QED BY <1>1, AlwaysGood, PTL
=============================================================================
