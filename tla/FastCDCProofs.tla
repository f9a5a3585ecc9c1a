---------------------------- MODULE FastCDCProofs ----------------------------
(***************************************************************************)
(* Proofs about FastCDC for every input, every way of feeding it, every       *)
(* table and all sizes: type correctness, the bound of the buffer between two *)
(* feeds, and the lengths of the chunks.                                    *)
(***************************************************************************)
EXTENDS FastCDC, FiniteSetTheorems, SequenceTheorems, WellFoundedInduction, TLAPS

Modulus == 2^Width

Fingerprint == 0 .. Modulus - 1

-----------------------------------------------------------------------------
(* The least number of a set, in place of induction.                       *)

\* Every set of natural numbers that is not empty has a least element: its members up to
\* any one of them are ordered by inclusion of the intervals that end there.
LEMMA Least ==
    ASSUME NEW S \in SUBSET Nat, S # {}
    PROVE  \E x \in S : \A y \in S : x <= y
<1>1. PICK k \in S : TRUE
  OBVIOUS
<1> DEFINE W == {1 .. x : x \in {z \in S : z <= k}}
<1>2. W \subseteq FiniteSubsetsOf(1 .. k) /\ W # {}
  <2>1. ASSUME NEW x \in S, x <= k PROVE 1 .. x \in FiniteSubsetsOf(1 .. k)
    <3>1. IsFiniteSet(1 .. x) /\ 1 .. x \subseteq 1 .. k
      BY <2>1, FS_Interval
    <3> QED
      BY <3>1 DEF FiniteSubsetsOf
  <2> QED
    BY <1>1, <2>1
<1>3. PICK m \in W : \A y \in W : <<y, m>> \notin StrictSubsetOrdering(1 .. k)
  <2> HIDE DEF W
  <2>1. IsWellFoundedOn(StrictSubsetOrdering(1 .. k), FiniteSubsetsOf(1 .. k))
    BY FS_StrictSubsetOrderingWellFounded
  <2> QED
    BY <1>2, <2>1, WFMin
<1>4. PICK x \in S : x <= k /\ m = 1 .. x
  OBVIOUS
<1>5. ASSUME NEW y \in S, y < x PROVE FALSE
  <2>1. 1 .. y \in W
    BY <1>1, <1>4, <1>5
  <2>2. 1 .. y \subseteq 1 .. x /\ 1 .. y # 1 .. x /\ 1 .. x \subseteq 1 .. k
    <3>1. x \in 1 .. x /\ x \notin 1 .. y
      BY <1>5
    <3> QED
      BY <1>4, <1>5, <3>1
  <2>3. <<1 .. y, 1 .. x>> \in StrictSubsetOrdering(1 .. k)
    BY <2>2 DEF StrictSubsetOrdering
  <2> QED
    BY <2>1, <2>3, <1>3, <1>4
<1> QED
  BY <1>4, <1>5

\* Min is that element.
LEMMA MinLeast ==
    ASSUME NEW S \in SUBSET Nat, S # {}
    PROVE  Min(S) \in S /\ \A y \in S : Min(S) <= y
BY Least DEF Min

\* Min and Max of two numbers.
LEMMA MinMaxOfTwo ==
    ASSUME NEW a \in Nat, NEW b \in Nat
    PROVE  /\ Min({a, b}) = IF a <= b THEN a ELSE b
           /\ Max({a, b}) = IF a <= b THEN b ELSE a
BY DEF Min, Max

\* Induction up to a number, over a set that stands for what is to be shown.
LEMMA UpTo ==
    ASSUME NEW Good, NEW n \in Nat, 0 \in Good,
           \A m \in 0 .. n - 1 : m \in Good => m + 1 \in Good
    PROVE  0 .. n \subseteq Good
<1> DEFINE Bad == {m \in 0 .. n : m \notin Good}
<1> SUFFICES ASSUME Bad # {} PROVE FALSE
  OBVIOUS
<1>1. Bad \in SUBSET Nat
  OBVIOUS
<1>2. PICK m \in Bad : \A y \in Bad : m <= y
  <2> HIDE DEF Bad
  <2> QED
    BY <1>1, Least
<1>3. m \in 0 .. n /\ m \notin Good /\ m - 1 \in 0 .. n - 1
  OBVIOUS
<1>4. m - 1 \notin Bad
  <2> HIDE DEF Bad
  <2> QED
    BY <1>2, <1>3
<1> QED
  BY <1>3, <1>4

\* g begins with base before start, and goes on by steps from one value to the next.
Stepwise(g, base, start, last, step) ==
    \A i \in start - 1 .. last : g[i] = IF i < start THEN base ELSE step[<<g[i - 1], i>>]

\* A function can be given in this way.
LEMMA StepByStep ==
    ASSUME NEW D, NEW base \in D, NEW start \in Int, NEW last \in Int, start - 1 <= last,
           NEW step \in [D \X (start .. last) -> D]
    PROVE  \E g \in [start - 1 .. last -> D] : Stepwise(g, base, start, last, step)
<1> DEFINE a == start - 1
           n == last - a
           Made(g, m) == \A i \in a .. a + m :
                            g[i] = IF i < start THEN base ELSE step[<<g[i - 1], i>>]
           Good == {m \in Nat : m <= n => \E g \in [a .. a + m -> D] : Made(g, m)}
<1>1. a \in Int /\ n \in Nat /\ a + n = last /\ start = a + 1
  OBVIOUS
<1>2. 0 \in Good
  <2> DEFINE g == [i \in a .. a + 0 |-> base]
  <2>1. g \in [a .. a + 0 -> D] /\ Made(g, 0)
    BY <1>1
  <2> QED
    BY <2>1
<1>3. ASSUME NEW m \in 0 .. n - 1, m \in Good PROVE m + 1 \in Good
  <2>1. PICK g \in [a .. a + m -> D] : Made(g, m)
    BY <1>1, <1>3
  <2> DEFINE next == step[<<g[a + m], a + m + 1>>]
             h == [i \in a .. a + (m + 1) |-> IF i <= a + m THEN g[i] ELSE next]
  <2>2. next \in D
    <3>1. g[a + m] \in D /\ a + m + 1 \in start .. last
      BY <1>1, <1>3
    <3> QED
      BY <3>1
  <2>3. h \in [a .. a + (m + 1) -> D]
    <3> HIDE DEF next
    <3> QED
      BY <1>1, <1>3, <2>2
  <2>4. \A i \in a .. a + m : h[i] = g[i]
    BY <1>1, <1>3
  <2>5. h[a + m + 1] = next
    <3> HIDE DEF next
    <3> QED
      BY <1>1, <1>3
  <2>6. Made(h, m + 1)
    <3> SUFFICES ASSUME NEW i \in a .. a + (m + 1)
                 PROVE  h[i] = IF i < start THEN base ELSE step[<<h[i - 1], i>>]
      OBVIOUS
    <3> HIDE DEF h
    <3>1. CASE i <= a + m
      <4>1. i \in a .. a + m /\ (i >= start => i - 1 \in a .. a + m)
        BY <1>1, <1>3, <3>1
      <4>2. h[i] = g[i] /\ (i >= start => h[i - 1] = g[i - 1])
        BY <2>4, <4>1
      <4>3. g[i] = IF i < start THEN base ELSE step[<<g[i - 1], i>>]
        BY <2>1, <4>1
      <4>4. CASE i < start
        BY <4>2, <4>3, <4>4
      <4>5. CASE i >= start
        BY <1>1, <4>2, <4>3, <4>5
      <4> QED
        BY <1>1, <3>1, <4>4, <4>5
    <3>2. CASE i = a + m + 1
      <4>1. a + m \in a .. a + m /\ i - 1 = a + m /\ ~(i < start)
        BY <1>1, <1>3, <3>2
      <4> QED
        BY <2>4, <2>5, <3>2, <4>1
    <3> QED
      BY <1>1, <1>3, <3>1, <3>2
  <2> HIDE DEF h, Made
  <2> QED
    BY <1>1, <1>3, <2>3, <2>6
<1>4. n \in Good
  <2> HIDE DEF Good
  <2>1. 0 .. n \subseteq Good
    BY <1>1, <1>2, <1>3, UpTo
  <2> QED
    BY <1>1, <2>1
<1>5. PICK g \in [a .. last -> D] : Made(g, n)
  BY <1>1, <1>4
<1> QED
  BY <1>1, <1>5 DEF Stepwise

-----------------------------------------------------------------------------
(* Powers of two and the constants.                                        *)

\* Powers of two are positive numbers.
LEMMA Powers == \A n \in 0 .. MAX_CHUNK_SIZE + Width : 2^n \in Nat \ {0}
<1> DEFINE top  == MAX_CHUNK_SIZE + Width
           Good == {n \in Nat : 2^n \in Nat \ {0}}
<1>1. top \in Nat
  BY CutterAssumption
<1>2. 0 \in Good
  BY PowersOfTwo
<1>3. ASSUME NEW m \in 0 .. top - 1, m \in Good PROVE m + 1 \in Good
  <2>1. m \in 0 .. top /\ 2^m \in Nat \ {0}
    BY <1>1, <1>3
  <2>2. 2^(m + 1) = 2 * 2^m
    BY <2>1, PowersOfTwo
  <2> QED
    BY <1>1, <2>1, <2>2
<1>4. 0 .. top \subseteq Good
  <2> HIDE DEF Good, top
  <2> QED
    BY <1>1, <1>2, <1>3, UpTo
<1> QED
  BY <1>4

Constants ==
    /\ MIN_CHUNK_SIZE \in Nat /\ MAX_CHUNK_SIZE \in Nat
    /\ 0 < MIN_CHUNK_SIZE /\ MIN_CHUNK_SIZE < MAX_CHUNK_SIZE
    /\ Modulus \in Nat /\ Modulus > 0
    /\ GEAR_TABLE \in [Byte -> Fingerprint]
    /\ MaxInput \in Nat

\* The constants are what they are assumed to be.
LEMMA ConstantsTyped == Constants
<1>1. 2^Width \in Nat \ {0}
  BY CutterAssumption, Powers
<1> QED
  BY <1>1, CutterAssumption DEF Constants, Modulus, Fingerprint

\* A multiple of the divisor does not count for the remainder.
LEMMA CutMultiple ==
    ASSUME NEW d \in Nat, d > 0, NEW y \in Int, NEW z \in Int
    PROVE  (d * y + z) % d = z % d
<1> DEFINE u == (d * y + z) \div d
           r == (d * y + z) % d
           v == z \div d
           t == z % d
<1>1. u \in Int /\ r \in Int /\ 0 <= r /\ r < d /\ d * y + z = d * u + r
  <2>1. d * y + z \in Int
    OBVIOUS
  <2> QED
    BY <2>1
<1>2. v \in Int /\ t \in Int /\ 0 <= t /\ t < d /\ z = d * v + t
  OBVIOUS
<1> HIDE DEF u, r, v, t
<1>3. d * (y + v - u) = r - t
  <2>1. d * (y + v - u) = d * y + d * v - d * u
    BY <1>1, <1>2
  <2> QED
    BY <1>1, <1>2, <2>1
<1>4. y + v - u = 0
  <2>1. PICK w \in Int : w = y + v - u
    BY <1>1, <1>2
  <2>2. d * w = r - t
    BY <1>3, <2>1
  <2>3. CASE w >= 1
    <3>1. d * w >= d
      BY <2>3
    <3> QED
      BY <1>1, <1>2, <2>2, <3>1
  <2>4. CASE w <= -1
    <3>1. d * w <= -d
      BY <2>4
    <3> QED
      BY <1>1, <1>2, <2>2, <3>1
  <2> QED
    BY <2>1, <2>3, <2>4
<1>5. r - t = 0
  BY <1>3, <1>4
<1>6. r = t
  BY <1>1, <1>2, <1>5
<1> QED
  BY <1>6 DEF r, t

\* The low bits of a number do not change when the bits above the width are cut off.
LEMMA LowBits ==
    ASSUME NEW b \in 0 .. Width, NEW x \in Int
    PROVE  (x % Modulus) % 2^b = x % 2^b
<1> DEFINE d == 2^b
           Good == {m \in Nat : \E q \in Nat : 2^(b + m) = d * q}
<1>1. Width \in Nat /\ MAX_CHUNK_SIZE + Width \in Nat /\ Width <= MAX_CHUNK_SIZE + Width /\ d \in Nat \ {0}
  BY CutterAssumption, Powers
<1>2. 0 \in Good
  BY <1>1
<1>3. ASSUME NEW m \in 0 .. Width - b - 1, m \in Good PROVE m + 1 \in Good
  <2>1. PICK q \in Nat : 2^(b + m) = d * q
    BY <1>3
  <2>2. b + m \in 0 .. MAX_CHUNK_SIZE + Width /\ b + (m + 1) = (b + m) + 1
    BY <1>1
  <2>3. 2^(b + (m + 1)) = 2 * 2^(b + m)
    BY <2>2, PowersOfTwo
  <2>4. 2^(b + (m + 1)) = d * (2 * q)
    <3> HIDE DEF d
    <3>1. 2 * (d * q) = d * (2 * q)
      BY <1>1
    <3> QED
      BY <2>1, <2>3, <3>1
  <2>5. PICK p \in Nat : p = 2 * q
    OBVIOUS
  <2>6. 2^(b + (m + 1)) = d * p
    BY <2>4, <2>5
  <2> HIDE DEF d
  <2> QED
    BY <2>6
<1>4. PICK q \in Nat : Modulus = d * q
  <2>1. Width - b \in Nat /\ b + (Width - b) = Width
    BY <1>1
  <2>2. Width - b \in Good
    <3> HIDE DEF Good
    <3>1. 0 .. Width - b \subseteq Good
      BY <2>1, <1>2, <1>3, UpTo
    <3> QED
      BY <2>1, <3>1
  <2> QED
    BY <2>1, <2>2 DEF Modulus
<1>5. Modulus \in Nat /\ Modulus > 0
  BY ConstantsTyped DEF Constants
<1> HIDE DEF d, Modulus
<1> DEFINE r == x % Modulus
           k == x \div Modulus
<1>6. x = Modulus * k + r /\ k \in Int /\ r \in Int
  BY <1>5
<1> HIDE DEF r, k
<1>7. PICK y \in Int : y = q * k
  BY <1>6
<1>8. (d * y + r) % d = r % d
  <2>1. d \in Nat /\ d > 0 /\ r \in Int
    BY <1>1, <1>6
  <2> QED
    BY <2>1, CutMultiple, Zenon
<1>9. x = d * y + r
  BY <1>1, <1>4, <1>6, <1>7
<1> QED
  BY <1>8, <1>9 DEF d, r

-----------------------------------------------------------------------------
(* The rolling fingerprint.                                                *)

\* The fingerprint before the scan, and after each byte from the one before, each
\* of its width.
LEMMA RolledScan ==
    ASSUME NEW buf \in Seq(Byte), NEW start \in Nat, start <= Len(buf), NEW fp \in Fingerprint
    PROVE  /\ Rolled(buf, start, fp) \in [start - 1 .. Len(buf) - 1 -> Fingerprint]
           /\ \A i \in start - 1 .. Len(buf) - 1 :
                 Rolled(buf, start, fp)[i] =
                    IF i < start THEN fp
                    ELSE (2 * Rolled(buf, start, fp)[i - 1] + GEAR_TABLE[buf[i + 1]]) % Modulus
<1> DEFINE last == Len(buf) - 1
           step == [p \in Fingerprint \X (start .. last) |->
                      (2 * p[1] + GEAR_TABLE[buf[p[2] + 1]]) % Modulus]
           F    == Rolled(buf, start, fp)
           Rec(g) == [i \in start - 1 .. last |->
                        IF i < start THEN fp ELSE (2 * g[i - 1] + GEAR_TABLE[buf[i + 1]]) % Modulus]
<1>1. step \in [Fingerprint \X (start .. last) -> Fingerprint]
  <2>1. \A x, y \in Fingerprint : (2 * x + y) % Modulus \in Fingerprint
    <3>1. Modulus \in Nat /\ Modulus > 0
      BY ConstantsTyped DEF Constants
    <3> HIDE DEF Modulus
    <3> QED
      BY <3>1 DEF Fingerprint
  <2>2. ASSUME NEW p \in Fingerprint \X (start .. last)
        PROVE  p[1] \in Fingerprint /\ GEAR_TABLE[buf[p[2] + 1]] \in Fingerprint
    <3>1. p[1] \in Fingerprint /\ p[2] + 1 \in 1 .. Len(buf)
      BY <2>2
    <3>2. buf[p[2] + 1] \in Byte
      BY <3>1, ElementOfSeq
    <3> QED
      BY <3>1, <3>2, ConstantsTyped DEF Constants
  <2> QED
    BY <2>1, <2>2
<1>2. PICK g \in [start - 1 .. last -> Fingerprint] : Stepwise(g, fp, start, last, step)
  <2>1. start \in Int /\ last \in Int /\ start - 1 <= last
    OBVIOUS
  <2> HIDE DEF step, last
  <2> QED
    BY <1>1, <2>1, StepByStep
<1>3. g = Rec(g)
  <2> SUFFICES ASSUME NEW i \in start - 1 .. last PROVE g[i] = Rec(g)[i]
    OBVIOUS
  <2>1. CASE i < start
    BY <1>2, <2>1 DEF Stepwise
  <2>2. CASE ~(i < start)
    <3>1. g[i - 1] \in Fingerprint /\ i \in start .. last
      BY <2>2
    <3> QED
      BY <1>2, <2>2, <3>1 DEF Stepwise
  <2> QED
    BY <2>1, <2>2
<1>4. F = Rec(F)
  BY <1>3 DEF Rolled, Modulus
<1>5. ASSUME NEW h, h = Rec(h) PROVE h \in [start - 1 .. last -> Fingerprint]
  <2> DEFINE Good == {m \in Nat : start - 1 + m <= last => h[start - 1 + m] \in Fingerprint}
  <2>1. 0 \in Good
    BY <1>5
  <2>2. ASSUME NEW m \in 0 .. last - start, m \in Good PROVE m + 1 \in Good
    <3>1. start - 1 + m \in start - 1 .. last /\ start + m \in start .. last
      OBVIOUS
    <3>2. h[start - 1 + m] \in Fingerprint
      BY <2>2, <3>1
    <3>3. step[<<h[start - 1 + m], start + m>>] \in Fingerprint
      <4> HIDE DEF step
      <4> QED
        BY <1>1, <3>1, <3>2
    <3>4. h[start + m] = step[<<h[start - 1 + m], start + m>>]
      <4>1. (start + m) - 1 = start - 1 + m
        OBVIOUS
      <4> QED
        BY <1>5, <3>1, <3>2, <4>1
    <3> QED
      BY <3>3, <3>4
  <2>3. ASSUME NEW i \in start - 1 .. last PROVE h[i] \in Fingerprint
    <3>1. 0 .. last - start + 1 \subseteq Good
      <4> HIDE DEF Good
      <4>1. last - start + 1 \in Nat /\ (last - start + 1) - 1 = last - start
        OBVIOUS
      <4> QED
        BY <2>1, <2>2, <4>1, UpTo
    <3>2. i - start + 1 \in 0 .. last - start + 1 /\ start - 1 + (i - start + 1) = i
      OBVIOUS
    <3>3. start - 1 + (i - start + 1) <= last =>
             h[start - 1 + (i - start + 1)] \in Fingerprint
      BY <3>1, <3>2
    <3> QED
      BY <3>2, <3>3
  <2> QED
    BY <1>5, <2>3
<1>6. F \in [start - 1 .. last -> Fingerprint]
  <2> HIDE DEF F, Rec
  <2> QED
    BY <1>4, <1>5
<1> HIDE DEF F
<1> QED
  BY <1>4, <1>6 DEF F

\* A scan that goes on where another has stopped, with its fingerprint, goes on as if it
\* had begun where the other did.
LEMMA RolledResumes ==
    ASSUME NEW buf \in Seq(Byte), NEW begin \in Nat, NEW start \in Nat, NEW fp \in Fingerprint,
           begin <= start, start <= Len(buf),
           NEW i \in start - 1 .. Len(buf) - 1
    PROVE  Rolled(buf, start, Rolled(buf, begin, fp)[start - 1])[i] = Rolled(buf, begin, fp)[i]
<1> DEFINE last == Len(buf) - 1
           G == Rolled(buf, begin, fp)
           F == Rolled(buf, start, G[start - 1])
           Good == {m \in Nat : start - 1 + m <= last => F[start - 1 + m] = G[start - 1 + m]}
<1>1. /\ G \in [begin - 1 .. last -> Fingerprint]
      /\ \A j \in begin - 1 .. last :
            G[j] = IF j < begin THEN fp ELSE (2 * G[j - 1] + GEAR_TABLE[buf[j + 1]]) % Modulus
  <2>1. begin <= Len(buf)
    OBVIOUS
  <2> QED
    BY <2>1, RolledScan
<1>2. G[start - 1] \in Fingerprint
  <2> HIDE DEF G
  <2> QED
    BY <1>1
<1>3. \A j \in start - 1 .. last :
         F[j] = IF j < start THEN G[start - 1] ELSE (2 * F[j - 1] + GEAR_TABLE[buf[j + 1]]) % Modulus
  BY <1>2, RolledScan
<1> HIDE DEF F, G
<1>4. 0 \in Good
  BY <1>3
<1>5. ASSUME NEW m \in 0 .. last - start, m \in Good PROVE m + 1 \in Good
  <2> DEFINE j == start + m
  <2>1. /\ j \in start - 1 .. last /\ j \in begin - 1 .. last
        /\ ~(j < start) /\ ~(j < begin) /\ j - 1 = start - 1 + m /\ start - 1 + (m + 1) = j
    OBVIOUS
  <2>2. F[j - 1] = G[j - 1]
    BY <1>5, <2>1
  <2>3. F[j] = (2 * F[j - 1] + GEAR_TABLE[buf[j + 1]]) % Modulus
    BY <1>3, <2>1
  <2>4. G[j] = (2 * G[j - 1] + GEAR_TABLE[buf[j + 1]]) % Modulus
    BY <1>1, <2>1
  <2>5. F[j] = G[j]
    BY <2>2, <2>3, <2>4
  <2> HIDE DEF j
  <2> QED
    BY <2>1, <2>5
<1>6. last - start + 1 \in Nat /\ (last - start + 1) - 1 = last - start
  OBVIOUS
<1>7. 0 .. last - start + 1 \subseteq Good
  <2> HIDE DEF Good
  <2> QED
    BY <1>4, <1>5, <1>6, UpTo
<1>8. PICK m \in 0 .. last - start + 1 : start - 1 + m = i
  <2>1. i - (start - 1) \in 0 .. last - start + 1 /\ start - 1 + (i - (start - 1)) = i
    OBVIOUS
  <2> QED
    BY <2>1
<1>9. F[i] = G[i]
  BY <1>7, <1>8
<1> QED
  BY <1>9 DEF F, G

\* The fingerprint after a byte depends on the bytes up to it alone.
LEMMA RolledPrefix ==
    ASSUME NEW s \in Seq(Byte), NEW t \in Seq(Byte), NEW start \in Nat, NEW fp \in Fingerprint,
           start <= Len(s), Len(s) <= Len(t), \A k \in 1 .. Len(s) : s[k] = t[k],
           NEW i \in start - 1 .. Len(s) - 1
    PROVE  Rolled(s, start, fp)[i] = Rolled(t, start, fp)[i]
<1> DEFINE last == Len(s) - 1
           F == Rolled(s, start, fp)
           G == Rolled(t, start, fp)
           Good == {m \in Nat : start - 1 + m <= last => F[start - 1 + m] = G[start - 1 + m]}
<1>1. \A j \in start - 1 .. last :
         F[j] = IF j < start THEN fp ELSE (2 * F[j - 1] + GEAR_TABLE[s[j + 1]]) % Modulus
  BY RolledScan
<1>2. \A j \in start - 1 .. last :
         G[j] = IF j < start THEN fp ELSE (2 * G[j - 1] + GEAR_TABLE[t[j + 1]]) % Modulus
  <2>1. start <= Len(t)
    OBVIOUS
  <2>2. \A j \in start - 1 .. Len(t) - 1 :
           G[j] = IF j < start THEN fp ELSE (2 * G[j - 1] + GEAR_TABLE[t[j + 1]]) % Modulus
    BY <2>1, RolledScan
  <2> HIDE DEF G
  <2> QED
    BY <2>2
<1> HIDE DEF F, G
<1>3. 0 \in Good
  BY <1>1, <1>2
<1>4. ASSUME NEW m \in 0 .. last - start, m \in Good PROVE m + 1 \in Good
  <2> DEFINE j == start + m
  <2>1. /\ j \in start - 1 .. last /\ ~(j < start) /\ j + 1 \in 1 .. Len(s)
        /\ j - 1 = start - 1 + m /\ start - 1 + (m + 1) = j
    OBVIOUS
  <2>2. F[j - 1] = G[j - 1] /\ s[j + 1] = t[j + 1]
    BY <1>4, <2>1
  <2>3. F[j] = (2 * F[j - 1] + GEAR_TABLE[s[j + 1]]) % Modulus
    BY <1>1, <2>1
  <2>4. G[j] = (2 * G[j - 1] + GEAR_TABLE[t[j + 1]]) % Modulus
    BY <1>2, <2>1
  <2>5. F[j] = G[j]
    BY <2>2, <2>3, <2>4
  <2> HIDE DEF j
  <2> QED
    BY <2>1, <2>5
<1>5. last - start + 1 \in Nat /\ (last - start + 1) - 1 = last - start
  OBVIOUS
<1>6. 0 .. last - start + 1 \subseteq Good
  <2> HIDE DEF Good
  <2> QED
    BY <1>3, <1>4, <1>5, UpTo
<1>7. PICK m \in 0 .. last - start + 1 : start - 1 + m = i
  <2>1. i - (start - 1) \in 0 .. last - start + 1 /\ start - 1 + (i - (start - 1)) = i
    OBVIOUS
  <2> QED
    BY <2>1
<1>8. F[i] = G[i]
  <2>1. m \in Good /\ start - 1 + m <= last
    <3> HIDE DEF Good
    <3> QED
      BY <1>6, <1>7
  <2> QED
    BY <1>7, <2>1
<1> QED
  BY <1>8 DEF F, G

-----------------------------------------------------------------------------
(* The fingerprint as a sum over the bytes.                                *)

\* The summands of Gear(s, i) up to the byte at j, added up.
GearSum(s, i) ==
    LET Sum[j \in MIN_CHUNK_SIZE - 1 .. i] ==
          IF j < MIN_CHUNK_SIZE THEN 0 ELSE Sum[j - 1] + GEAR_TABLE[s[j + 1]] * 2^(i - j)
    IN  Sum

\* The sum, one byte after the other.
LEMMA GearSums ==
    ASSUME NEW s \in Seq(Byte), NEW i \in MIN_CHUNK_SIZE - 1 .. Len(s) - 1, i <= MAX_CHUNK_SIZE
    PROVE  /\ GearSum(s, i) \in [MIN_CHUNK_SIZE - 1 .. i -> Int]
           /\ \A j \in MIN_CHUNK_SIZE - 1 .. i :
                 GearSum(s, i)[j] =
                    IF j < MIN_CHUNK_SIZE THEN 0
                    ELSE GearSum(s, i)[j - 1] + GEAR_TABLE[s[j + 1]] * 2^(i - j)
<1> DEFINE min  == MIN_CHUNK_SIZE
           w(j) == GEAR_TABLE[s[j + 1]] * 2^(i - j)
           step == [p \in Int \X (min .. i) |-> p[1] + w(p[2])]
           Rec(g) == [j \in min - 1 .. i |-> IF j < min THEN 0 ELSE g[j - 1] + w(j)]
           F    == GearSum(s, i)
<1>1. min \in Nat /\ min > 0 /\ i \in Int /\ min - 1 <= i
  BY ConstantsTyped DEF Constants
<1>2. ASSUME NEW j \in min .. i PROVE w(j) \in Int
  <2>1. s[j + 1] \in Byte
    <3>1. j + 1 \in 1 .. Len(s)
      BY <1>1
    <3> QED
      BY <3>1, ElementOfSeq
  <2>2. GEAR_TABLE[s[j + 1]] \in Int
    <3>1. GEAR_TABLE[s[j + 1]] \in Fingerprint
      BY <2>1, ConstantsTyped DEF Constants
    <3> QED
      BY <3>1, ConstantsTyped DEF Constants, Fingerprint
  <2>3. 2^(i - j) \in Int
    <3>1. i - j \in 0 .. MAX_CHUNK_SIZE + Width
      BY <1>1, CutterAssumption
    <3> QED
      BY <3>1, Powers
  <2> QED
    BY <2>2, <2>3
<1> HIDE DEF w
<1>3. step \in [Int \X (min .. i) -> Int]
  BY <1>2
<1>4. PICK g \in [min - 1 .. i -> Int] : Stepwise(g, 0, min, i, step)
  <2>1. 0 \in Int /\ min \in Int
    BY <1>1
  <2> HIDE DEF step, min
  <2> QED
    BY <1>1, <1>3, <2>1, StepByStep
<1>5. g = Rec(g)
  <2> SUFFICES ASSUME NEW j \in min - 1 .. i PROVE g[j] = Rec(g)[j]
    OBVIOUS
  <2>1. CASE j < min
    BY <1>4, <2>1 DEF Stepwise
  <2>2. CASE ~(j < min)
    <3>1. g[j - 1] \in Int /\ j \in min .. i
      BY <1>1, <2>2
    <3> QED
      BY <1>4, <2>2, <3>1 DEF Stepwise
  <2> QED
    BY <2>1, <2>2
<1>6. F = Rec(F)
  BY <1>5 DEF GearSum, w
<1>7. ASSUME NEW h, h = Rec(h) PROVE h \in [min - 1 .. i -> Int]
  <2> DEFINE Good == {m \in Nat : min - 1 + m <= i => h[min - 1 + m] \in Int}
  <2>1. 0 \in Good
    BY <1>1, <1>7
  <2>2. ASSUME NEW m \in 0 .. i - min, m \in Good PROVE m + 1 \in Good
    <3>1. /\ min - 1 + m \in min - 1 .. i /\ min + m \in min .. i
          /\ min + m - 1 = min - 1 + m /\ min - 1 + (m + 1) = min + m
      BY <1>1
    <3>2. h[min - 1 + m] \in Int
      BY <2>2, <3>1
    <3>3. h[min + m] = h[min - 1 + m] + w(min + m)
      BY <1>1, <1>7, <3>1
    <3>4. h[min + m] \in Int
      BY <1>2, <3>1, <3>2, <3>3
    <3> QED
      BY <3>1, <3>4
  <2>3. ASSUME NEW j \in min - 1 .. i PROVE h[j] \in Int
    <3>1. i - min + 1 \in Nat /\ (i - min + 1) - 1 = i - min
      BY <1>1
    <3>2. 0 .. i - min + 1 \subseteq Good
      <4> HIDE DEF Good
      <4> QED
        BY <2>1, <2>2, <3>1, UpTo
    <3>3. PICK m \in 0 .. i - min + 1 : min - 1 + m = j
      <4>1. j - (min - 1) \in 0 .. i - min + 1 /\ min - 1 + (j - (min - 1)) = j
        BY <1>1
      <4> QED
        BY <4>1
    <3>4. m \in Good /\ min - 1 + m <= i
      BY <3>2, <3>3
    <3> QED
      BY <3>3, <3>4
  <2> QED
    BY <1>7, <2>3
<1>8. F \in [min - 1 .. i -> Int]
  <2> HIDE DEF F, Rec
  <2> QED
    BY <1>6, <1>7
<1> HIDE DEF F
<1>9. \A j \in min - 1 .. i : F[j] = IF j < min THEN 0 ELSE F[j - 1] + w(j)
  BY <1>6
<1> QED
  BY <1>8, <1>9 DEF F, w

\* Horner's rule: the fingerprint after a byte is twice that before it and the number of the
\* byte.
LEMMA GearSteps ==
    ASSUME NEW s \in Seq(Byte), NEW i \in MIN_CHUNK_SIZE - 1 .. Len(s) - 1, i <= MAX_CHUNK_SIZE
    PROVE  /\ Gear(s, i) \in Int
           /\ i = MIN_CHUNK_SIZE - 1 => Gear(s, i) = 0
           /\ i > MIN_CHUNK_SIZE - 1 => Gear(s, i) = 2 * Gear(s, i - 1) + GEAR_TABLE[s[i + 1]]
<1> DEFINE min == MIN_CHUNK_SIZE
           F   == GearSum(s, i)
<1>1. min \in Nat /\ min > 0 /\ i \in Int /\ min - 1 <= i /\ i < Len(s)
  BY ConstantsTyped DEF Constants
<1>2. Gear(s, i) = F[i] /\ Gear(s, i - 1) = GearSum(s, i - 1)[i - 1]
  BY DEF Gear, GearSum
<1>3. /\ F \in [min - 1 .. i -> Int]
      /\ \A j \in min - 1 .. i :
            F[j] = IF j < min THEN 0 ELSE F[j - 1] + GEAR_TABLE[s[j + 1]] * 2^(i - j)
  BY GearSums
<1> HIDE DEF F
<1>4. ASSUME i > min - 1 PROVE Gear(s, i) = 2 * Gear(s, i - 1) + GEAR_TABLE[s[i + 1]]
  <2> DEFINE E == GearSum(s, i - 1)
             Good == {m \in Nat : min - 1 + m <= i - 1 => F[min - 1 + m] = 2 * E[min - 1 + m]}
  <2>1. i - 1 \in min - 1 .. Len(s) - 1 /\ i - 1 <= MAX_CHUNK_SIZE
    BY <1>1, <1>4, ConstantsTyped DEF Constants
  <2>2. /\ E \in [min - 1 .. i - 1 -> Int]
        /\ \A j \in min - 1 .. i - 1 :
              E[j] = IF j < min THEN 0 ELSE E[j - 1] + GEAR_TABLE[s[j + 1]] * 2^((i - 1) - j)
    BY <2>1, GearSums
  <2>3. ASSUME NEW j \in min .. i PROVE GEAR_TABLE[s[j + 1]] \in Int
    <3>1. j + 1 \in 1 .. Len(s)
      BY <1>1
    <3>2. s[j + 1] \in Byte
      BY <3>1, ElementOfSeq
    <3>3. GEAR_TABLE[s[j + 1]] \in Fingerprint
      BY <3>2, ConstantsTyped DEF Constants
    <3> QED
      BY <3>3, ConstantsTyped DEF Constants, Fingerprint
  <2> HIDE DEF E
  <2>4. 0 \in Good
    BY <1>1, <1>3, <1>4, <2>2
  <2>5. ASSUME NEW m \in 0 .. i - 1 - min, m \in Good PROVE m + 1 \in Good
    <3> DEFINE j == min + m
    <3>1. /\ j \in min - 1 .. i /\ j \in min - 1 .. i - 1 /\ j \in min .. i /\ ~(j < min)
          /\ j - 1 = min - 1 + m /\ min - 1 + (m + 1) = j
          /\ j - 1 \in min - 1 .. i - 1 /\ (i - 1) - j \in 0 .. MAX_CHUNK_SIZE + Width
          /\ i - j = ((i - 1) - j) + 1
      BY <1>1, <1>4, CutterAssumption
    <3>2. F[j - 1] = 2 * E[j - 1] /\ E[j - 1] \in Int
      BY <2>2, <2>5, <3>1
    <3> DEFINE p == 2^((i - 1) - j)
               g == GEAR_TABLE[s[j + 1]]
    <3>3. p \in Nat /\ 2^(i - j) = 2 * p
      BY <3>1, Powers, PowersOfTwo
    <3>4. g \in Int
      BY <2>3, <3>1
    <3>5. F[j] = F[j - 1] + g * 2^(i - j)
      BY <1>3, <3>1
    <3>6. E[j] = E[j - 1] + g * p
      BY <2>2, <3>1
    <3> HIDE DEF p, g
    <3>7. g * (2 * p) = 2 * (g * p) /\ g * p \in Int
      BY <3>3, <3>4
    <3>8. F[j] = 2 * E[j]
      BY <3>2, <3>3, <3>5, <3>6, <3>7
    <3> HIDE DEF j
    <3> QED
      BY <3>1, <3>8
  <2>6. i - min \in Nat /\ (i - min) - 1 = i - 1 - min
    BY <1>1, <1>4
  <2>7. 0 .. i - min \subseteq Good
    <3> HIDE DEF Good
    <3> QED
      BY <2>4, <2>5, <2>6, UpTo
  <2>8. F[i - 1] = 2 * E[i - 1]
    <3>1. PICK m \in 0 .. i - min : m = i - min
      BY <2>6
    <3>2. m \in Good /\ min - 1 + m = i - 1
      <4> HIDE DEF Good
      <4> QED
        BY <1>1, <2>7, <3>1
    <3> QED
      BY <3>2
  <2>9. F[i] = F[i - 1] + GEAR_TABLE[s[i + 1]]
    <3>1. i \in min - 1 .. i /\ ~(i < min) /\ i - i = 0 /\ i \in min .. i
      BY <1>1, <1>4
    <3>2. F[i] = F[i - 1] + GEAR_TABLE[s[i + 1]] * 2^0
      BY <1>3, <3>1
    <3>3. GEAR_TABLE[s[i + 1]] * 2^0 = GEAR_TABLE[s[i + 1]]
      BY <2>3, <3>1, PowersOfTwo
    <3> QED
      BY <3>2, <3>3
  <2> QED
    BY <1>2, <2>8, <2>9 DEF E
<1> QED
  BY <1>1, <1>2, <1>3, <1>4

\* The fingerprint of the code is that sum, of which it has all the bits a mask looks at.
LEMMA GearIsRolled ==
    ASSUME NEW s \in Seq(Byte), NEW b \in 0 .. Width, MIN_CHUNK_SIZE <= Len(s),
           NEW i \in MIN_CHUNK_SIZE .. Len(s) - 1, i <= MAX_CHUNK_SIZE
    PROVE  Gear(s, i) % 2^b = Rolled(s, MIN_CHUNK_SIZE, 0)[i] % 2^b
<1> DEFINE min == MIN_CHUNK_SIZE
           F   == Rolled(s, min, 0)
           Good == {m \in Nat : min - 1 + m <= i => F[min - 1 + m] = Gear(s, min - 1 + m) % Modulus}
<1>1. /\ min \in Nat /\ min > 0 /\ i \in Int /\ min <= i /\ i < Len(s)
      /\ Modulus \in Nat /\ Modulus > 0 /\ 0 \in Fingerprint /\ MAX_CHUNK_SIZE \in Nat
  BY ConstantsTyped DEF Constants, Fingerprint
<1>2. \A j \in min - 1 .. Len(s) - 1 :
         F[j] = IF j < min THEN 0 ELSE (2 * F[j - 1] + GEAR_TABLE[s[j + 1]]) % Modulus
  BY <1>1, RolledScan
<1> HIDE DEF F, Modulus
<1>3. 0 \in Good
  <2>1. F[min - 1] = 0 /\ Gear(s, min - 1) = 0
    <3>1. min - 1 \in min - 1 .. Len(s) - 1 /\ min - 1 <= MAX_CHUNK_SIZE
      BY <1>1
    <3> QED
      BY <1>1, <1>2, <3>1, GearSteps
  <2>2. 0 % Modulus = 0
    BY <1>1
  <2> QED
    BY <1>1, <2>1, <2>2
<1>4. ASSUME NEW m \in 0 .. i - min, m \in Good PROVE m + 1 \in Good
  <2> DEFINE j == min + m
             G == Gear(s, j - 1)
             g == GEAR_TABLE[s[j + 1]]
             q == G \div Modulus
             r == G % Modulus
  <2>1. /\ j \in min - 1 .. Len(s) - 1 /\ j - 1 \in min - 1 .. Len(s) - 1 /\ ~(j < min)
        /\ j > min - 1 /\ j <= MAX_CHUNK_SIZE /\ j - 1 <= MAX_CHUNK_SIZE
        /\ j - 1 = min - 1 + m /\ min - 1 + (m + 1) = j
    BY <1>1
  <2>2. F[j] = (2 * F[j - 1] + g) % Modulus
    BY <1>2, <2>1
  <2>3. Gear(s, j) = 2 * G + g /\ G \in Int
    BY <2>1, GearSteps
  <2>4. F[j - 1] = r
    <3>1. min - 1 + m <= i
      BY <1>1
    <3> QED
      BY <1>4, <2>1, <3>1
  <2>5. g \in Int
    <3>1. j + 1 \in 1 .. Len(s)
      BY <1>1, <2>1
    <3>2. s[j + 1] \in Byte
      BY <3>1, ElementOfSeq
    <3>3. g \in Fingerprint
      BY <3>2, ConstantsTyped DEF Constants
    <3> QED
      BY <1>1, <3>3 DEF Fingerprint
  <2> HIDE DEF j, G, g
  <2>6. G = Modulus * q + r /\ q \in Int /\ r \in Int
    BY <1>1, <2>3
  <2> HIDE DEF q, r
  <2>7. PICK y \in Int : y = 2 * q
    BY <2>6
  <2>8. PICK z \in Int : z = 2 * r + g
    BY <2>5, <2>6
  <2>9. 2 * G + g = Modulus * y + z
    <3>1. Modulus * y = 2 * (Modulus * q)
      BY <1>1, <2>6, <2>7
    <3> QED
      BY <1>1, <2>3, <2>5, <2>6, <2>8, <3>1
  <2>10. (Modulus * y + z) % Modulus = z % Modulus
    BY <1>1, CutMultiple, Zenon
  <2>11. F[j] = Gear(s, j) % Modulus
    BY <2>2, <2>3, <2>4, <2>8, <2>9, <2>10
  <2> QED
    BY <2>1, <2>11
<1>5. i - min + 1 \in Nat /\ (i - min + 1) - 1 = i - min
  BY <1>1
<1>6. 0 .. i - min + 1 \subseteq Good
  <2> HIDE DEF Good
  <2> QED
    BY <1>3, <1>4, <1>5, UpTo
<1>7. F[i] = Gear(s, i) % Modulus
  <2>1. PICK m \in 0 .. i - min + 1 : m = i - min + 1
    BY <1>5
  <2>2. m \in Good /\ min - 1 + m = i
    <3> HIDE DEF Good
    <3> QED
      BY <1>1, <1>6, <2>1
  <2> QED
    BY <1>1, <2>2
<1>8. Gear(s, i) \in Int
  <2>1. i \in min - 1 .. Len(s) - 1
    BY <1>1
  <2> QED
    BY <2>1, GearSteps
<1> QED
  BY <1>7, <1>8, LowBits DEF F

-----------------------------------------------------------------------------
(* The chunking of a whole source.                                         *)

\* The offsets of the first chunk of s at which the mask finds the fingerprint zero.
Hits(s) ==
    {i \in MIN_CHUNK_SIZE .. ScanLimit(s) - 1 : Rolled(s, MIN_CHUNK_SIZE, 0)[i] % 2^MaskBits(i) = 0}

\* How far a scan goes.
LEMMA ScanLimitIs ==
    ASSUME NEW s \in Seq(Byte)
    PROVE  /\ ScanLimit(s) = (IF Len(s) <= MAX_CHUNK_SIZE THEN Len(s) ELSE MAX_CHUNK_SIZE)
           /\ ScanLimit(s) \in Nat /\ ScanLimit(s) <= Len(s) /\ ScanLimit(s) <= MAX_CHUNK_SIZE
BY ConstantsTyped, MinMaxOfTwo DEF Constants, ScanLimit

\* Hits are offsets.
LEMMA HitsAreOffsets ==
    ASSUME NEW s \in Seq(Byte)
    PROVE  Hits(s) \in SUBSET Nat
BY ScanLimitIs, ConstantsTyped DEF Hits, Constants

\* The first chunk of a source, told with the fingerprint of the code.
LEMMA FirstLengthIs ==
    ASSUME NEW s \in Seq(Byte)
    PROVE  FirstLength(s) = IF Hits(s) = {} THEN ScanLimit(s) ELSE Min(Hits(s)) + 1
<1> DEFINE borders == {i \in MIN_CHUNK_SIZE .. ScanLimit(s) - 1 : Gear(s, i) % 2^MaskBits(i) = 0}
<1>1. FirstLength(s) = IF borders = {} THEN ScanLimit(s) ELSE Min(borders) + 1
  BY DEF FirstLength, ScanLimit
<1>2. ASSUME NEW i \in MIN_CHUNK_SIZE .. ScanLimit(s) - 1
      PROVE  Gear(s, i) % 2^MaskBits(i) = Rolled(s, MIN_CHUNK_SIZE, 0)[i] % 2^MaskBits(i)
  <2>1. MaskBits(i) \in 0 .. Width
    BY CutterAssumption DEF MaskBits
  <2>2. MIN_CHUNK_SIZE <= Len(s) /\ i \in MIN_CHUNK_SIZE .. Len(s) - 1 /\ i <= MAX_CHUNK_SIZE
    BY ScanLimitIs, ConstantsTyped DEF Constants
  <2> QED
    BY <2>1, <2>2, GearIsRolled
<1>3. borders = Hits(s)
  BY <1>2 DEF Hits
<1> HIDE DEF borders
<1> QED
  BY <1>1, <1>3

\* The first chunk is a part of the source.
LEMMA FirstLengthWithin ==
    ASSUME NEW s \in Seq(Byte), s # <<>>
    PROVE  FirstLength(s) \in 1 .. Len(s)
<1>1. Len(s) \in Nat /\ Len(s) > 0 /\ MAX_CHUNK_SIZE \in Nat /\ MAX_CHUNK_SIZE > 0
  BY EmptySeq, ConstantsTyped DEF Constants
<1>2. CASE Hits(s) = {}
  BY <1>1, <1>2, FirstLengthIs, ScanLimitIs
<1>3. CASE Hits(s) # {}
  <2>1. Min(Hits(s)) \in Hits(s)
    BY <1>3, HitsAreOffsets, MinLeast
  <2>2. Min(Hits(s)) \in Nat /\ Min(Hits(s)) < ScanLimit(s)
    BY <2>1, ScanLimitIs, ConstantsTyped DEF Hits, Constants
  <2> QED
    BY <1>1, <1>3, <2>2, FirstLengthIs, ScanLimitIs
<1> QED
  BY <1>2, <1>3

\* What follows the first k bytes of s.
After(s, k) == SubSeq(s, k + 1, Len(s))

\* It is a source too, and its first chunk lies within s.
LEMMA AfterIs ==
    ASSUME NEW s \in Seq(Byte), NEW k \in 0 .. Len(s)
    PROVE  /\ After(s, k) \in Seq(Byte)
           /\ Len(After(s, k)) = Len(s) - k
           /\ \A i \in 1 .. Len(s) - k : After(s, k)[i] = s[k + i]
           /\ k # Len(s) => FirstLength(After(s, k)) \in 1 .. Len(s) - k
<1>1. Len(s) \in Nat
  OBVIOUS
<1>2. \A i \in k + 1 .. Len(s) : s[i] \in Byte
  BY ElementOfSeq
<1>3. /\ After(s, k) \in Seq(Byte)
      /\ Len(After(s, k)) = Len(s) - k
      /\ \A i \in 1 .. Len(s) - k : After(s, k)[i] = s[k + i]
  BY <1>1, <1>2, SubSeqProperties DEF After
<1>4. ASSUME k # Len(s) PROVE FirstLength(After(s, k)) \in 1 .. Len(s) - k
  <2>1. After(s, k) # <<>>
    BY <1>1, <1>3, <1>4
  <2> QED
    BY <1>3, <2>1, FirstLengthWithin
<1> QED
  BY <1>3, <1>4

\* The chunking of what is left, chunk by chunk.
LEMMA ChunkingSteps ==
    ASSUME NEW s \in Seq(Byte)
    PROVE  /\ ChunkingFrom(s) \in [0 .. Len(s) -> Seq(Seq(Byte))]
           /\ \A k \in 0 .. Len(s) :
                 ChunkingFrom(s)[k] =
                    IF k = Len(s) THEN <<>>
                    ELSE <<SubSeq(s, k + 1, k + FirstLength(After(s, k)))>>
                           \o ChunkingFrom(s)[k + FirstLength(After(s, k))]
<1> DEFINE len == Len(s)
           T   == Seq(Seq(Byte))
           n(k) == FirstLength(After(s, k))
           c(k) == SubSeq(s, k + 1, k + n(k))
           Body(g, k) == IF k = len THEN <<>> ELSE <<c(k)>> \o g[k + n(k)]
           F == ChunkingFrom(s)
<1>1. len \in Nat
  OBVIOUS
<1>2. ASSUME NEW k \in 0 .. len - 1 PROVE n(k) \in 1 .. len - k /\ c(k) \in Seq(Byte)
  <2>1. n(k) \in 1 .. len - k
    <3>1. k \in 0 .. Len(s) /\ k # Len(s)
      BY <1>1
    <3> QED
      BY <3>1, AfterIs
  <2>2. \A i \in k + 1 .. k + n(k) : s[i] \in Byte
    <3> HIDE DEF n
    <3> QED
      BY <1>1, <2>1, ElementOfSeq
  <2>3. k + 1 \in Int /\ k + n(k) \in Int
    <3> HIDE DEF n
    <3> QED
      BY <1>1, <2>1
  <2>4. c(k) \in Seq(Byte)
    <3> HIDE DEF n
    <3> QED
      BY <2>2, <2>3, SubSeqProperties
  <2> QED
    BY <2>1, <2>4
<1> HIDE DEF n, c
<1>3. ASSUME NEW k \in 0 .. len - 1, NEW t \in T PROVE <<c(k)>> \o t \in T
  BY <1>2, ConcatProperties
<1> DEFINE Made(g, m) == \A k \in len - m .. len : g[k] = Body(g, k)
<1>4. \E g : g = [k \in 0 .. len |-> Body(g, k)]
  <2> DEFINE Good == {m \in Nat : m <= len => \E g : g = [k \in len - m .. len |-> Body(g, k)]}
  <2>1. 0 \in Good
    <3> DEFINE g == [k \in len - 0 .. len |-> <<>>]
    <3>1. g = [k \in len - 0 .. len |-> Body(g, k)]
      BY <1>1
    <3> HIDE DEF g
    <3> QED
      BY <3>1
  <2>2. ASSUME NEW m \in 0 .. len - 1, m \in Good PROVE m + 1 \in Good
    <3>1. PICK g : g = [k \in len - m .. len |-> Body(g, k)]
      BY <1>1, <2>2
    <3> DEFINE h == [k \in len - (m + 1) .. len |-> Body(g, k)]
    <3>2. \A k \in len - m .. len : h[k] = g[k]
      <4>1. len - m .. len \subseteq len - (m + 1) .. len
        BY <1>1
      <4> HIDE DEF Body
      <4> QED
        BY <3>1, <4>1
    <3>3. \A k \in len - (m + 1) .. len : Body(g, k) = Body(h, k)
      <4> SUFFICES ASSUME NEW k \in len - (m + 1) .. len, k # len PROVE g[k + n(k)] = h[k + n(k)]
        OBVIOUS
      <4>1. n(k) \in 1 .. len - k
        BY <1>1, <1>2
      <4>2. k + n(k) \in len - m .. len
        BY <1>1, <4>1
      <4> QED
        BY <3>2, <4>2
    <3>4. h = [k \in len - (m + 1) .. len |-> Body(h, k)]
      BY <3>3
    <3> HIDE DEF h
    <3>5. m + 1 \in Nat
      OBVIOUS
    <3> QED
      BY <3>4, <3>5
  <2>3. len \in Good
    <3>1. 0 .. len \subseteq Good
      <4> HIDE DEF Good
      <4> QED
        BY <1>1, <2>1, <2>2, UpTo
    <3> HIDE DEF Good
    <3> QED
      BY <1>1, <3>1
  <2>4. len - len = 0
    BY <1>1
  <2> QED
    BY <2>3, <2>4
<1>5. F = [k \in 0 .. len |-> Body(F, k)]
  BY <1>4 DEF ChunkingFrom, n, c, After
<1> HIDE DEF F
<1>6. F \in [0 .. len -> T]
  <2> DEFINE Good == {m \in Nat : m <= len => \A k \in len - m .. len : F[k] \in T}
  <2>1. 0 \in Good
    <3>1. F[len] = <<>> /\ <<>> \in T
      BY <1>1, <1>5
    <3>2. \A k \in len - 0 .. len : k = len
      BY <1>1
    <3>3. \A k \in len - 0 .. len : F[k] \in T
      BY <3>1, <3>2
    <3> QED
      BY <3>3
  <2>2. ASSUME NEW m \in 0 .. len - 1, m \in Good PROVE m + 1 \in Good
    <3>1. m <= len /\ m \in Nat /\ len - (m + 1) \in 0 .. len - 1
      BY <1>1
    <3>2. \A k \in len - m .. len : F[k] \in T
      BY <2>2, <3>1
    <3> DEFINE k == len - (m + 1)
    <3>3. n(k) \in 1 .. len - k
      BY <1>2, <3>1
    <3>4. F[k + n(k)] \in T
      <4>1. k + n(k) \in len - m .. len
        BY <1>1, <3>1, <3>3
      <4> QED
        BY <3>2, <4>1
    <3>5. F[k] = <<c(k)>> \o F[k + n(k)]
      <4>1. k \in 0 .. len /\ k # len
        BY <1>1, <3>1
      <4>2. F[k] = Body(F, k)
        <5> HIDE DEF Body
        <5> QED
          BY <1>5, <4>1
      <4> QED
        BY <4>1, <4>2
    <3>6. F[k] \in T
      BY <1>3, <3>1, <3>4, <3>5
    <3>7. \A j \in len - (m + 1) .. len : j = k \/ j \in len - m .. len
      BY <1>1, <3>1
    <3> HIDE DEF k
    <3>8. \A j \in len - (m + 1) .. len : F[j] \in T
      BY <3>2, <3>6, <3>7
    <3> QED
      BY <3>8
  <2>3. len \in Good
    <3>1. 0 .. len \subseteq Good
      <4> HIDE DEF Good
      <4> QED
        BY <1>1, <2>1, <2>2, UpTo
    <3>2. len \in 0 .. len
      BY <1>1
    <3> HIDE DEF Good
    <3> QED
      BY <3>1, <3>2
  <2>4. len - len = 0
    BY <1>1
  <2>5. \A k \in 0 .. len : F[k] \in T
    BY <1>1, <2>3, <2>4
  <2> QED
    BY <1>5, <2>5
<1>7. \A k \in 0 .. len : F[k] = Body(F, k)
  BY <1>5
<1> QED
  BY <1>6, <1>7 DEF F, n, c

-----------------------------------------------------------------------------
(* The border that a turn finds.                                           *)

\* What a scan returns: a border within the buffer and within the longest chunk, not before
\* the shortest one unless the source ends there; or no border, and then the buffer
\* is shorter than the longest chunk, the scan came no further than its end, and at the end of
\* the source nothing is left.
BoundaryOf(buf, eof, found) ==
    /\ found.fingerprint \in Fingerprint
    /\ found.scanned \in Nat
    /\ found.boundary \in 0 .. Len(buf)
    /\ found.boundary <= MAX_CHUNK_SIZE
    /\ found.boundary > 0 => \/ found.boundary >= MIN_CHUNK_SIZE
                             \/ eof /\ found.boundary = Len(buf)
    /\ found.boundary = 0 => /\ Len(buf) < MAX_CHUNK_SIZE /\ found.scanned <= Len(buf)
                             /\ eof => Len(buf) = 0

\* find_fastcdc_boundary_rolling, for every buffer that a resumed scan can meet.
LEMMA FoundBoundary ==
    ASSUME NEW buf \in Seq(Byte), NEW start \in Nat, start <= Len(buf), start < MAX_CHUNK_SIZE,
           NEW fp \in Fingerprint, NEW eof \in BOOLEAN
    PROVE  BoundaryOf(buf, eof, FindBoundary(buf, start, fp, eof))
<1> DEFINE limit == ScanLimit(buf)
           from  == Max({MIN_CHUNK_SIZE, start})
           F     == Rolled(buf, from, fp)
           hits  == {i \in from .. limit - 1 : F[i] % 2^MaskBits(i) = 0}
           found == FindBoundary(buf, start, fp, eof)
           n     == Len(buf)
<1>1. /\ n \in Nat
      /\ MIN_CHUNK_SIZE \in Nat /\ MAX_CHUNK_SIZE \in Nat
      /\ 0 < MIN_CHUNK_SIZE /\ MIN_CHUNK_SIZE < MAX_CHUNK_SIZE
  BY ConstantsTyped DEF Constants
<1>2. limit = (IF n <= MAX_CHUNK_SIZE THEN n ELSE MAX_CHUNK_SIZE)
  BY <1>1, MinMaxOfTwo DEF ScanLimit
<1>3. from = (IF MIN_CHUNK_SIZE <= start THEN start ELSE MIN_CHUNK_SIZE)
  BY <1>1, MinMaxOfTwo
<1>4. hits \in SUBSET Nat /\ \A i \in hits : i >= from /\ i < limit
  <2>1. from \in Nat /\ limit \in Nat
    BY <1>1, <1>2, <1>3
  <2> HIDE DEF F, from, limit
  <2> QED
    BY <2>1
<1>5. ASSUME n >= MIN_CHUNK_SIZE PROVE \A i \in from - 1 .. n - 1 : F[i] \in Fingerprint
  <2>1. from \in Nat /\ from <= n
    BY <1>1, <1>3, <1>5
  <2> HIDE DEF from
  <2>2. F \in [from - 1 .. n - 1 -> Fingerprint]
    BY <2>1, RolledScan
  <2> HIDE DEF F
  <2> QED
    BY <2>2
<1>a. found = CASE n < MIN_CHUNK_SIZE -> Boundary(IF eof THEN n ELSE 0, fp, 0)
               [] n >= MIN_CHUNK_SIZE /\ hits # {} ->
                    Boundary(Min(hits) + 1, F[Min(hits)], Min(hits) + 1)
               [] n >= MAX_CHUNK_SIZE /\ hits = {} ->
                    Boundary(MAX_CHUNK_SIZE, F[limit - 1], MAX_CHUNK_SIZE)
               [] n \in MIN_CHUNK_SIZE .. MAX_CHUNK_SIZE - 1 /\ hits = {} ->
                    Boundary(IF eof THEN n ELSE 0, F[limit - 1], limit)
  BY DEF FindBoundary
<1>6. CASE n < MIN_CHUNK_SIZE
  <2>1. found = Boundary(IF eof THEN n ELSE 0, fp, 0)
    <3> HIDE DEF found, hits, from, limit, F
    <3> QED
      BY <1>a, <1>1, <1>6
  <2> HIDE DEF found
  <2>2. BoundaryOf(buf, eof, found)
    BY <1>1, <1>6, <2>1 DEF BoundaryOf, Boundary
  <2> QED
    BY <2>2 DEF found
<1>7. CASE n >= MIN_CHUNK_SIZE /\ hits # {}
  <2>1. found = Boundary(Min(hits) + 1, F[Min(hits)], Min(hits) + 1)
    <3> HIDE DEF found, hits, from, limit, F
    <3> QED
      BY <1>a, <1>1, <1>7
  <2>2. Min(hits) \in hits
    <3> HIDE DEF hits
    <3> QED
      BY <1>4, <1>7, MinLeast
  <2> HIDE DEF found, hits, from, limit, F
  <2>3. /\ Min(hits) \in Nat /\ Min(hits) >= from /\ Min(hits) < limit
    BY <1>4, <2>2
  <2>4. F[Min(hits)] \in Fingerprint
    BY <1>1, <1>2, <1>3, <1>5, <1>7, <2>3
  <2>5. BoundaryOf(buf, eof, found)
    BY <1>1, <1>2, <1>3, <2>1, <2>3, <2>4 DEF BoundaryOf, Boundary
  <2> QED
    BY <2>5 DEF found
<1>8. CASE n >= MAX_CHUNK_SIZE /\ hits = {}
  <2>1. found = Boundary(MAX_CHUNK_SIZE, F[limit - 1], MAX_CHUNK_SIZE)
    <3> HIDE DEF found, hits, from, limit, F
    <3> QED
      BY <1>a, <1>1, <1>8
  <2> HIDE DEF found, hits, from, limit, F
  <2>2. F[limit - 1] \in Fingerprint
    BY <1>1, <1>2, <1>3, <1>5, <1>8
  <2>3. BoundaryOf(buf, eof, found)
    BY <1>1, <1>8, <2>1, <2>2 DEF BoundaryOf, Boundary
  <2> QED
    BY <2>3 DEF found
<1>9. CASE n \in MIN_CHUNK_SIZE .. MAX_CHUNK_SIZE - 1 /\ hits = {}
  <2>1. found = Boundary(IF eof THEN n ELSE 0, F[limit - 1], limit)
    <3> HIDE DEF found, hits, from, limit, F
    <3> QED
      BY <1>a, <1>1, <1>9
  <2> HIDE DEF found, hits, from, limit, F
  <2>2. F[limit - 1] \in Fingerprint
    BY <1>1, <1>2, <1>3, <1>5, <1>9
  <2>3. BoundaryOf(buf, eof, found)
    BY <1>1, <1>2, <1>9, <2>1, <2>2 DEF BoundaryOf, Boundary
  <2> QED
    BY <2>3 DEF found
<1> QED
  <2> HIDE DEF hits
  <2>1. n < MIN_CHUNK_SIZE \/ (n >= MIN_CHUNK_SIZE /\ hits # {}) \/ (n >= MAX_CHUNK_SIZE /\ hits = {})
          \/ (n \in MIN_CHUNK_SIZE .. MAX_CHUNK_SIZE - 1 /\ hits = {})
    BY <1>1
  <2> QED
    BY <2>1, <1>6, <1>7, <1>8, <1>9

\* What the cutter remembers of a scan: nothing, or how far it came, the fingerprint there, and
\* that it found no border.
Remembered(buf, scanned, fp) ==
    \/ scanned = 0 /\ fp = 0
    \/ /\ scanned \in MIN_CHUNK_SIZE .. Len(buf)
       /\ fp = Rolled(buf, MIN_CHUNK_SIZE, 0)[scanned - 1]
       /\ \A i \in MIN_CHUNK_SIZE .. scanned - 1 :
             Rolled(buf, MIN_CHUNK_SIZE, 0)[i] % 2^MaskBits(i) # 0

\* The hits of a buffer are those of the source it is the beginning of.
LEMMA HitsOfPrefix ==
    ASSUME NEW buf \in Seq(Byte), NEW rest \in Seq(Byte), Len(buf) <= Len(rest),
           \A k \in 1 .. Len(buf) : buf[k] = rest[k]
    PROVE  Hits(buf) = {i \in Hits(rest) : i < Len(buf)}
<1>1. /\ MIN_CHUNK_SIZE \in Nat /\ MAX_CHUNK_SIZE \in Nat /\ Len(buf) \in Nat /\ Len(rest) \in Nat
      /\ 0 \in Fingerprint
  BY ConstantsTyped DEF Constants, Fingerprint
<1>2. ASSUME NEW i \in MIN_CHUNK_SIZE .. ScanLimit(buf) - 1
      PROVE  Rolled(buf, MIN_CHUNK_SIZE, 0)[i] = Rolled(rest, MIN_CHUNK_SIZE, 0)[i]
  <2>1. MIN_CHUNK_SIZE <= Len(buf) /\ i \in MIN_CHUNK_SIZE - 1 .. Len(buf) - 1
    BY <1>1, ScanLimitIs
  <2> QED
    BY <1>1, <2>1, RolledPrefix
<1>3. \A i \in Int : i < ScanLimit(buf) <=> i < ScanLimit(rest) /\ i < Len(buf)
  BY <1>1, ScanLimitIs
<1>4. ScanLimit(buf) \in Nat /\ ScanLimit(rest) \in Nat
  BY ScanLimitIs
<1>5. ASSUME NEW i
      PROVE  i \in MIN_CHUNK_SIZE .. ScanLimit(buf) - 1 <=>
                i \in MIN_CHUNK_SIZE .. ScanLimit(rest) - 1 /\ i < Len(buf)
  BY <1>1, <1>3, <1>4
<1> QED
  BY <1>2, <1>5 DEF Hits

\* A resumed scan finds the hits of the whole buffer.
LEMMA ResumedHits ==
    ASSUME NEW buf \in Seq(Byte), NEW start, NEW fp, Remembered(buf, start, fp),
           MIN_CHUNK_SIZE <= Len(buf), NEW from \in Nat,
           from = (IF MIN_CHUNK_SIZE <= start THEN start ELSE MIN_CHUNK_SIZE)
    PROVE  /\ {i \in from .. ScanLimit(buf) - 1 : Rolled(buf, from, fp)[i] % 2^MaskBits(i) = 0} = Hits(buf)
           /\ from <= Len(buf)
           /\ \A i \in from - 1 .. Len(buf) - 1 :
                 Rolled(buf, from, fp)[i] = Rolled(buf, MIN_CHUNK_SIZE, 0)[i]
<1> DEFINE min == MIN_CHUNK_SIZE
           R == Rolled(buf, min, 0)
<1>1. min \in Nat /\ min > 0 /\ 0 \in Fingerprint /\ Len(buf) \in Nat
  BY ConstantsTyped DEF Constants, Fingerprint
<1>2. from \in min .. Len(buf) /\ fp = R[from - 1] /\ \A i \in min .. from - 1 : R[i] % 2^MaskBits(i) # 0
  <2>1. CASE start = 0 /\ fp = 0
    <3>1. from = min
      BY <1>1, <2>1
    <3>2. R[min - 1] = 0
      <4>1. min - 1 \in min - 1 .. Len(buf) - 1 /\ min - 1 < min
        BY <1>1
      <4> QED
        BY <1>1, <4>1, RolledScan
    <3> HIDE DEF R
    <3> QED
      BY <1>1, <2>1, <3>1, <3>2
  <2>2. CASE ~(start = 0 /\ fp = 0)
    <3>1. /\ start \in min .. Len(buf) /\ fp = R[start - 1]
          /\ \A i \in min .. start - 1 : R[i] % 2^MaskBits(i) # 0
      BY <2>2 DEF Remembered
    <3>2. from = start
      BY <1>1, <3>1
    <3> HIDE DEF R
    <3> QED
      BY <3>1, <3>2
  <2> QED
    BY <2>1, <2>2
<1>3. ASSUME NEW i \in from - 1 .. Len(buf) - 1 PROVE Rolled(buf, from, fp)[i] = R[i]
  <2>1. min <= from /\ from <= Len(buf)
    BY <1>1, <1>2
  <2> QED
    BY <1>1, <1>2, <2>1, RolledResumes
<1>4. ASSUME NEW i
      PROVE  i \in from .. ScanLimit(buf) - 1 /\ Rolled(buf, from, fp)[i] % 2^MaskBits(i) = 0
                <=> i \in min .. ScanLimit(buf) - 1 /\ R[i] % 2^MaskBits(i) = 0
  <2>1. ScanLimit(buf) \in Nat /\ ScanLimit(buf) <= Len(buf)
    BY ScanLimitIs
  <2>2. CASE i \in from .. ScanLimit(buf) - 1
    <3>1. i \in from - 1 .. Len(buf) - 1 /\ i \in min .. ScanLimit(buf) - 1
      BY <1>1, <1>2, <2>1, <2>2
    <3> QED
      BY <1>3, <2>2, <3>1
  <2>3. CASE i \notin from .. ScanLimit(buf) - 1
    <3>1. i \in min .. ScanLimit(buf) - 1 => i \in min .. from - 1
      BY <1>1, <1>2, <2>1, <2>3
    <3> HIDE DEF R
    <3> QED
      BY <1>2, <2>3, <3>1
  <2> QED
    BY <2>2, <2>3
<1> QED
  BY <1>1, <1>2, <1>3, <1>4 DEF Hits

\* A turn cuts the first chunk of what is left of the source, of which the buffer is the
\* beginning, and all of it at the end of the source; else it remembers its scan.
LEMMA FoundFirst ==
    ASSUME NEW buf \in Seq(Byte), NEW rest \in Seq(Byte), Len(buf) <= Len(rest),
           \A k \in 1 .. Len(buf) : buf[k] = rest[k],
           NEW start \in Nat, start <= Len(buf), NEW fp, Remembered(buf, start, fp),
           NEW eof \in BOOLEAN, eof => Len(buf) = Len(rest)
    PROVE  LET found == FindBoundary(buf, start, fp, eof)
           IN  /\ found.boundary > 0 => found.boundary = FirstLength(rest)
               /\ found.boundary = 0 => Remembered(buf, found.scanned, found.fingerprint)
<1> DEFINE limit == ScanLimit(buf)
           from  == Max({MIN_CHUNK_SIZE, start})
           F     == Rolled(buf, from, fp)
           hits  == {i \in from .. limit - 1 : F[i] % 2^MaskBits(i) = 0}
           found == FindBoundary(buf, start, fp, eof)
           n     == Len(buf)
           Right(b) == /\ b.boundary > 0 => b.boundary = FirstLength(rest)
                       /\ b.boundary = 0 => Remembered(buf, b.scanned, b.fingerprint)
<1>1. /\ n \in Nat /\ Len(rest) \in Nat
      /\ MIN_CHUNK_SIZE \in Nat /\ MAX_CHUNK_SIZE \in Nat
      /\ 0 < MIN_CHUNK_SIZE /\ MIN_CHUNK_SIZE < MAX_CHUNK_SIZE
  BY ConstantsTyped DEF Constants
<1>2. /\ limit = (IF n <= MAX_CHUNK_SIZE THEN n ELSE MAX_CHUNK_SIZE) /\ limit \in Nat
      /\ ScanLimit(rest) = (IF Len(rest) <= MAX_CHUNK_SIZE THEN Len(rest) ELSE MAX_CHUNK_SIZE)
  BY ScanLimitIs
<1>3. from = (IF MIN_CHUNK_SIZE <= start THEN start ELSE MIN_CHUNK_SIZE)
  BY <1>1, MinMaxOfTwo
<1>4. FirstLength(rest) = IF Hits(rest) = {} THEN ScanLimit(rest) ELSE Min(Hits(rest)) + 1
  BY FirstLengthIs
<1>5. Hits(buf) = {i \in Hits(rest) : i < n}
  BY HitsOfPrefix
<1>6. \A i \in Hits(rest) : i \in Nat /\ i >= MIN_CHUNK_SIZE /\ i < ScanLimit(rest)
  BY <1>1, <1>2 DEF Hits
<1>7. ASSUME n >= MIN_CHUNK_SIZE
      PROVE  /\ hits = Hits(buf)
             /\ from <= n
             /\ \A i \in from - 1 .. n - 1 : F[i] = Rolled(buf, MIN_CHUNK_SIZE, 0)[i]
  <2>1. from \in Nat /\ MIN_CHUNK_SIZE <= n
    BY <1>1, <1>3, <1>7
  <2> HIDE DEF from
  <2> QED
    BY <1>3, <2>1, ResumedHits
<1>8. found = CASE n < MIN_CHUNK_SIZE -> Boundary(IF eof THEN n ELSE 0, fp, 0)
               [] n >= MIN_CHUNK_SIZE /\ hits # {} ->
                    Boundary(Min(hits) + 1, F[Min(hits)], Min(hits) + 1)
               [] n >= MAX_CHUNK_SIZE /\ hits = {} ->
                    Boundary(MAX_CHUNK_SIZE, F[limit - 1], MAX_CHUNK_SIZE)
               [] n \in MIN_CHUNK_SIZE .. MAX_CHUNK_SIZE - 1 /\ hits = {} ->
                    Boundary(IF eof THEN n ELSE 0, F[limit - 1], limit)
  BY DEF FindBoundary
<1> HIDE DEF hits, F, limit, from, found
<1> SUFFICES Right(found)
  BY DEF found
<1>9. CASE n < MIN_CHUNK_SIZE
  <2>1. found = Boundary(IF eof THEN n ELSE 0, fp, 0)
    BY <1>8, <1>1, <1>9
  <2>2. start = 0 /\ fp = 0
    BY <1>1, <1>9 DEF Remembered
  <2>3. CASE eof /\ n > 0
    <3>1. Hits(rest) = {} /\ FirstLength(rest) = n
      BY <1>1, <1>2, <1>4, <1>6, <1>9, <2>3
    <3> QED
      BY <1>1, <2>1, <2>3, <3>1 DEF Boundary
  <2>4. CASE ~(eof /\ n > 0)
    BY <1>1, <2>1, <2>2, <2>4 DEF Boundary, Remembered
  <2> QED
    BY <2>3, <2>4
<1>10. CASE n >= MIN_CHUNK_SIZE /\ hits # {}
  <2>1. found = Boundary(Min(hits) + 1, F[Min(hits)], Min(hits) + 1)
    BY <1>8, <1>1, <1>10
  <2> DEFINE m == Min(hits)
             r == Min(Hits(rest))
  <2>2. m \in hits /\ \A i \in hits : m <= i
    <3>1. hits \in SUBSET Nat
      BY <1>7, <1>10, HitsAreOffsets
    <3> QED
      BY <1>10, <3>1, MinLeast
  <2>3. hits = {i \in Hits(rest) : i < n}
    BY <1>5, <1>7, <1>10
  <2>4. r \in Hits(rest) /\ \A i \in Hits(rest) : r <= i
    <3>1. Hits(rest) \in SUBSET Nat /\ Hits(rest) # {}
      BY <1>10, <2>3, HitsAreOffsets
    <3> QED
      BY <3>1, MinLeast
  <2> HIDE DEF m, r
  <2>5. m \in Hits(rest) /\ m < n /\ m \in Nat /\ r \in Nat /\ r <= m
    BY <1>6, <2>2, <2>3, <2>4
  <2>6. r \in hits
    BY <1>1, <2>3, <2>4, <2>5
  <2>7. m = r
    BY <2>2, <2>5, <2>6
  <2>8. FirstLength(rest) = m + 1
    BY <1>4, <2>4, <2>7 DEF r
  <2> QED
    BY <2>1, <2>5, <2>8 DEF Boundary, m
<1>11. CASE n >= MAX_CHUNK_SIZE /\ hits = {}
  <2>1. found = Boundary(MAX_CHUNK_SIZE, F[limit - 1], MAX_CHUNK_SIZE)
    BY <1>8, <1>1, <1>11
  <2>2. hits = {i \in Hits(rest) : i < n}
    BY <1>1, <1>5, <1>7, <1>11
  <2>3. \A i \in Hits(rest) : i < n
    BY <1>1, <1>2, <1>6, <1>11
  <2>4. Hits(rest) = {} /\ ScanLimit(rest) = MAX_CHUNK_SIZE
    BY <1>1, <1>2, <1>11, <2>2, <2>3
  <2>5. FirstLength(rest) = MAX_CHUNK_SIZE
    BY <1>4, <2>4
  <2> QED
    BY <1>1, <2>1, <2>5 DEF Boundary
<1>12. CASE n \in MIN_CHUNK_SIZE .. MAX_CHUNK_SIZE - 1 /\ hits = {}
  <2>1. found = Boundary(IF eof THEN n ELSE 0, F[limit - 1], limit)
    BY <1>8, <1>1, <1>12
  <2>2. hits = Hits(buf) /\ from <= n /\ n >= MIN_CHUNK_SIZE
        /\ \A i \in from - 1 .. n - 1 : F[i] = Rolled(buf, MIN_CHUNK_SIZE, 0)[i]
    BY <1>1, <1>7, <1>12
  <2>3. limit = n
    BY <1>1, <1>2, <1>12
  <2>4. CASE eof
    <3>1. Hits(rest) = {}
      BY <1>1, <1>2, <1>5, <1>6, <1>12, <2>2, <2>4
    <3>2. FirstLength(rest) = n
      BY <1>1, <1>2, <1>4, <1>12, <2>4, <3>1
    <3> QED
      BY <1>1, <1>12, <2>1, <2>4, <3>2 DEF Boundary
  <2>5. CASE ~eof
    <3>1. F[n - 1] = Rolled(buf, MIN_CHUNK_SIZE, 0)[n - 1]
      <4>1. n - 1 \in from - 1 .. n - 1
        BY <1>1, <1>3, <2>2
      <4> QED
        BY <2>2, <4>1
    <3>2. \A i \in MIN_CHUNK_SIZE .. n - 1 : Rolled(buf, MIN_CHUNK_SIZE, 0)[i] % 2^MaskBits(i) # 0
      BY <1>12, <2>2, <2>3 DEF Hits, limit
    <3>3. n \in MIN_CHUNK_SIZE .. n
      BY <1>1, <1>12
    <3>4. Remembered(buf, n, F[n - 1])
      BY <3>1, <3>2, <3>3 DEF Remembered
    <3> QED
      BY <1>1, <1>12, <2>1, <2>3, <2>5, <3>4 DEF Boundary
  <2> QED
    BY <2>4, <2>5
<1> QED
  <2>1. \/ n < MIN_CHUNK_SIZE \/ (n >= MIN_CHUNK_SIZE /\ hits # {}) \/ (n >= MAX_CHUNK_SIZE /\ hits = {})
        \/ (n \in MIN_CHUNK_SIZE .. MAX_CHUNK_SIZE - 1 /\ hits = {})
    BY <1>1
  <2> QED
    BY <2>1, <1>9, <1>10, <1>11, <1>12

-----------------------------------------------------------------------------
(* The lengths of the buffer and of the chunks.                            *)

\* The scan of a chunk has not come to the longest length, at the end of the source all is fed,
\* and nothing is left of it after the loop.
Lengths ==
    /\ TypeOK
    /\ scanned_offset < MAX_CHUNK_SIZE
    /\ is_eof => fed = Len(input)
    /\ is_eof /\ ~looping => buffer = <<>>
    /\ BufferBounded
    /\ ChunkLengths

\* The fingerprint has the width of the code's integers.
LEMMA FingerprintIs == 0 .. 2^Width - 1 = Fingerprint
BY DEF Fingerprint, Modulus

\* A new streamer has an empty buffer and has handed out nothing.
LEMMA LengthsInit == Init => Lengths
<1> SUFFICES ASSUME Init PROVE Lengths
  OBVIOUS
<1>1. input \in Seq(Byte) /\ Len(input) <= MaxInput /\ Len(input) \in Nat
  <2>1. PICK m \in 0 .. MaxInput : input \in [1 .. m -> Byte]
    BY DEF Init, BoundedSeq, SeqOf
  <2> QED
    BY <2>1, ConstantsTyped DEF Constants
<1>2. 0 \in Fingerprint /\ MAX_CHUNK_SIZE \in Nat /\ MAX_CHUNK_SIZE > 0
  BY ConstantsTyped DEF Constants, Fingerprint
<1>3. TypeOK
  <2>1. 0 \in 0 .. 2^Width - 1
    BY <1>2, FingerprintIs
  <2>2. 0 \in 0 .. Len(input) /\ 0 \in 0 .. Len(<<>>)
    BY <1>1
  <2>3. /\ fed = 0 /\ is_eof = FALSE /\ looping = FALSE /\ buffer = <<>> /\ scanned_offset = 0
        /\ fingerprint = 0 /\ chunks = <<>>
    BY DEF Init
  <2>4. {is_eof, looping} \subseteq BOOLEAN
    BY <2>3
  <2>5. buffer \in Seq(Byte) /\ chunks \in Seq(Seq(Byte) \ {<<>>})
    BY <2>3
  <2>6. fed \in 0 .. Len(input) /\ scanned_offset \in 0 .. Len(buffer)
    BY <2>2, <2>3
  <2>7. fingerprint \in 0 .. 2^Width - 1
    BY <2>1, <2>3
  <2> QED
    BY <1>1, <2>4, <2>5, <2>6, <2>7 DEF TypeOK
<1> QED
  BY <1>2, <1>3 DEF Init, Lengths, BufferBounded, ChunkLengths

\* A feed makes the buffer longer.
LEMMA LengthsFeed ==
    ASSUME Lengths, NEW n \in 0 .. MaxInput, NEW eof \in BOOLEAN, Feed(n, eof)
    PROVE  Lengths'
<1> DEFINE piece == SubSeq(input, fed + 1, fed + n)
<1>1. /\ input \in Seq(Byte) /\ Len(input) <= MaxInput /\ fed \in 0 .. Len(input)
      /\ buffer \in Seq(Byte) /\ scanned_offset \in 0 .. Len(buffer)
      /\ n \in Nat /\ fed + n <= Len(input)
      /\ fingerprint \in 0 .. 2^Width - 1 /\ chunks \in Seq(Seq(Byte) \ {<<>>})
  BY ConstantsTyped DEF Lengths, TypeOK, Feed, Constants
<1>2. piece \in Seq(Byte) /\ Len(piece) = n
  <2>1. \A i \in fed + 1 .. fed + n : input[i] \in Byte
    BY <1>1, ElementOfSeq
  <2> QED
    BY <1>1, <2>1, SubSeqProperties
<1> HIDE DEF piece
<1>3. /\ buffer' = buffer \o piece /\ fed' = fed + n /\ is_eof' = eof /\ looping' = TRUE
      /\ input' = input /\ scanned_offset' = scanned_offset /\ fingerprint' = fingerprint
      /\ chunks' = chunks /\ ~is_eof /\ ~looping /\ (eof => fed + n = Len(input))
  BY DEF Feed, piece
<1>4. buffer' \in Seq(Byte) /\ scanned_offset' \in 0 .. Len(buffer')
  <2>1. buffer \o piece \in Seq(Byte) /\ Len(buffer \o piece) = Len(buffer) + n
    BY <1>1, <1>2, ConcatProperties
  <2>2. scanned_offset \in 0 .. Len(buffer \o piece)
    BY <1>1, <2>1
  <2> QED
    BY <1>3, <2>1, <2>2
<1>5. fed' \in 0 .. Len(input')
  <2>1. fed + n \in 0 .. Len(input)
    BY <1>1
  <2> QED
    BY <1>3, <2>1
<1>6. TypeOK'
  BY <1>1, <1>3, <1>4, <1>5 DEF TypeOK
<1>7. ChunkLengths'
  BY <1>3 DEF ChunkLengths, Lengths
<1>8. scanned_offset' < MAX_CHUNK_SIZE /\ BufferBounded' /\ (is_eof' => fed' = Len(input'))
      /\ (is_eof' /\ ~looping' => buffer' = <<>>)
  BY <1>3 DEF BufferBounded, Lengths
<1> QED
  BY <1>6, <1>7, <1>8 DEF Lengths

\* A turn that finds no border leaves a buffer shorter than the longest chunk; one that finds a
\* border hands out a chunk of a right length.
LEMMA LengthsTurn == Lengths /\ Turn => Lengths'
<1> SUFFICES ASSUME Lengths, Turn PROVE Lengths'
  OBVIOUS
<1> DEFINE found == FindBoundary(buffer, scanned_offset, fingerprint, is_eof)
           b == found.boundary
<1>1. /\ input \in Seq(Byte) /\ Len(input) <= MaxInput /\ fed \in 0 .. Len(input)
      /\ is_eof \in BOOLEAN /\ looping \in BOOLEAN
      /\ buffer \in Seq(Byte) /\ scanned_offset \in 0 .. Len(buffer)
      /\ fingerprint \in 0 .. 2^Width - 1 /\ chunks \in Seq(Seq(Byte) \ {<<>>})
      /\ scanned_offset < MAX_CHUNK_SIZE /\ (is_eof => fed = Len(input)) /\ ChunkLengths
  BY DEF Lengths, TypeOK
<1>2. /\ MIN_CHUNK_SIZE \in Nat /\ MAX_CHUNK_SIZE \in Nat
      /\ 0 < MIN_CHUNK_SIZE /\ MIN_CHUNK_SIZE < MAX_CHUNK_SIZE
      /\ 0 \in Fingerprint
  BY ConstantsTyped DEF Constants, Fingerprint
<1>3. BoundaryOf(buffer, is_eof, found)
  <2>1. fingerprint \in Fingerprint /\ scanned_offset \in Nat /\ scanned_offset <= Len(buffer)
    <3>1. fingerprint \in Fingerprint
      BY <1>1, FingerprintIs
    <3> QED
      BY <1>1, <3>1
  <2> QED
    BY <1>1, <2>1, FoundBoundary
<1>4. looping /\ input' = input /\ fed' = fed /\ is_eof' = is_eof
  BY DEF Turn
<1>5. \/ /\ b = 0
         /\ scanned_offset' = found.scanned /\ fingerprint' = found.fingerprint
         /\ looping' = FALSE /\ buffer' = buffer /\ chunks' = chunks
      \/ b > 0 /\ Cut(b)
  BY DEF Turn
<1> HIDE DEF found
<1>6. CASE /\ b = 0
           /\ scanned_offset' = found.scanned /\ fingerprint' = found.fingerprint
           /\ looping' = FALSE /\ buffer' = buffer /\ chunks' = chunks
  <2>1. /\ Len(buffer) < MAX_CHUNK_SIZE /\ found.scanned \in Nat /\ found.scanned <= Len(buffer)
        /\ found.fingerprint \in Fingerprint /\ (is_eof => Len(buffer) = 0)
    BY <1>3, <1>6 DEF BoundaryOf
  <2>2. TypeOK'
    <3>1. found.scanned \in 0 .. Len(buffer)
      BY <1>1, <2>1
    <3> QED
      BY <1>1, <1>4, <1>6, <2>1, <3>1, FingerprintIs DEF TypeOK
  <2>3. scanned_offset' < MAX_CHUNK_SIZE
    <3>1. found.scanned < MAX_CHUNK_SIZE
      BY <1>1, <1>2, <2>1
    <3> QED
      BY <1>6, <3>1
  <2>4. is_eof => buffer = <<>>
    BY <1>1, <2>1
  <2>5. BufferBounded'
    BY <1>6, <2>1 DEF BufferBounded
  <2>6. ChunkLengths'
    BY <1>1, <1>4, <1>6 DEF ChunkLengths
  <2> QED
    BY <1>1, <1>4, <1>6, <2>2, <2>3, <2>4, <2>5, <2>6 DEF Lengths
<1>7. CASE b > 0 /\ Cut(b)
  <2> DEFINE chunk == SubSeq(buffer, 1, b)
             left  == SubSeq(buffer, b + 1, Len(buffer))
  <2>1. /\ b \in Nat /\ b > 0 /\ b <= Len(buffer) /\ b <= MAX_CHUNK_SIZE
        /\ b >= MIN_CHUNK_SIZE \/ (is_eof /\ b = Len(buffer))
    BY <1>1, <1>3, <1>7 DEF BoundaryOf
  <2> HIDE DEF b
  <2>2. /\ chunks' = Append(chunks, chunk) /\ buffer' = left
        /\ scanned_offset' = 0 /\ fingerprint' = 0
        /\ looping' = (is_eof \/ Len(buffer') >= MIN_CHUNK_SIZE)
    BY <1>7 DEF Cut
  <2>3. /\ chunk \in Seq(Byte) /\ Len(chunk) = b
        /\ left \in Seq(Byte) /\ Len(left) = Len(buffer) - b
    <3>1. \A i \in 1 .. Len(buffer) : buffer[i] \in Byte
      BY <1>1, ElementOfSeq
    <3>2. (\A i \in 1 .. b : buffer[i] \in Byte) /\ \A i \in b + 1 .. Len(buffer) : buffer[i] \in Byte
      BY <1>1, <2>1, <3>1
    <3>3. b + 1 \in Int /\ Len(buffer) \in Int /\ 1 <= b
      BY <1>1, <2>1
    <3>4. chunk \in Seq(Byte) /\ Len(chunk) = b
      BY <2>1, <3>2, <3>3, SubSeqProperties
    <3>5. left \in Seq(Byte) /\ Len(left) = IF b + 1 <= Len(buffer) THEN Len(buffer) - (b + 1) + 1 ELSE 0
      BY <3>2, <3>3, SubSeqProperties
    <3> QED
      BY <1>1, <2>1, <3>4, <3>5
  <2> HIDE DEF chunk, left
  <2>4. chunk # <<>>
    BY <2>1, <2>3
  <2>5. /\ Append(chunks, chunk) \in Seq(Seq(Byte) \ {<<>>})
        /\ Len(Append(chunks, chunk)) = Len(chunks) + 1
        /\ \A i \in 1 .. Len(chunks) : Append(chunks, chunk)[i] = chunks[i]
        /\ Append(chunks, chunk)[Len(chunks) + 1] = chunk
    BY <1>1, <2>3, <2>4, AppendProperties
  <2>6. TypeOK'
    <3>1. 0 \in 0 .. Len(left) /\ (is_eof \/ Len(left) >= MIN_CHUNK_SIZE) \in BOOLEAN
      BY <1>1, <2>1, <2>3
    <3> QED
      BY <1>1, <1>2, <1>4, <2>2, <2>3, <2>5, <3>1, FingerprintIs DEF TypeOK
  <2>7. ChunkLengths'
    <3> DEFINE new == Append(chunks, chunk)
    <3>1. \A i \in 1 .. Len(chunks) : Len(chunks[i]) <= MAX_CHUNK_SIZE /\ Len(chunks[i]) >= MIN_CHUNK_SIZE
      <4>1. buffer # <<>>
        BY <1>1, <2>1
      <4> QED
        BY <1>1, <4>1 DEF ChunkLengths
    <3>2. is_eof /\ b = Len(buffer) => left = <<>>
      BY <1>1, <2>3
    <3>3. ASSUME NEW i \in 1 .. Len(new)
          PROVE  /\ Len(new[i]) <= MAX_CHUNK_SIZE
                 /\ Len(new[i]) >= MIN_CHUNK_SIZE \/ (i = Len(new) /\ is_eof /\ left = <<>>)
      <4>1. CASE i <= Len(chunks)
        BY <1>1, <2>5, <3>1, <4>1
      <4>2. CASE i = Len(chunks) + 1
        BY <2>1, <2>3, <2>5, <3>2, <4>2
      <4> QED
        BY <1>1, <2>5, <4>1, <4>2
    <3> QED
      BY <1>4, <2>2, <3>3 DEF ChunkLengths
  <2>8. BufferBounded'
    <3>1. ~(is_eof \/ Len(left) >= MIN_CHUNK_SIZE) => Len(left) < MAX_CHUNK_SIZE
      BY <1>2, <2>3
    <3> QED
      BY <2>2, <3>1 DEF BufferBounded
  <2> QED
    BY <1>1, <1>2, <1>4, <2>2, <2>6, <2>7, <2>8 DEF Lengths
<1> QED
  BY <1>5, <1>6, <1>7

\* Every step keeps the lengths.
LEMMA LengthsStep == Lengths /\ [Next]_vars => Lengths'
<1>1. Lengths /\ UNCHANGED vars => Lengths'
  BY DEF Lengths, TypeOK, BufferBounded, ChunkLengths, vars
<1> QED
  BY <1>1, LengthsFeed, LengthsTurn DEF Next

\* The state of the streamer is well formed: what it has scanned lies within its buffer, and no
\* chunk is empty.
THEOREM TypeCorrect == Spec => []TypeOK
<1>1. Lengths => TypeOK
  BY DEF Lengths
<1> QED
  BY <1>1, LengthsInit, LengthsStep, PTL DEF Spec

\* Between two feeds the streamer keeps less than the longest chunk in memory, however much one
\* feed brings.
THEOREM BufferStaysBounded == Spec => []BufferBounded
<1>1. Lengths => BufferBounded
  BY DEF Lengths
<1> QED
  BY <1>1, LengthsInit, LengthsStep, PTL DEF Spec

\* No chunk is longer than the longest, and only the last of the source is shorter than the
\* shortest.
THEOREM ChunksHaveLength == Spec => []ChunkLengths
<1>1. Lengths => ChunkLengths
  BY DEF Lengths
<1> QED
  BY <1>1, LengthsInit, LengthsStep, PTL DEF Spec

-----------------------------------------------------------------------------
(* The chunks and the content of the source.                               *)

\* How much of the source has been cut.
Position == fed - Len(buffer)

\* The buffer is what has been fed and not cut; what is remembered of its scan is
\* right; and the chunks handed out, with those of what is left, are those of the source.
Content ==
    /\ Len(buffer) <= fed
    /\ \A k \in 1 .. Len(buffer) : buffer[k] = input[Position + k]
    /\ Remembered(buffer, scanned_offset, fingerprint)
    /\ Chunking(input) = chunks \o ChunkingFrom(input)[Position]

\* Nothing has been cut of a new source.
LEMMA ContentInit == Init => Content
<1> SUFFICES ASSUME Init PROVE Content
  OBVIOUS
<1>1. input \in Seq(Byte) /\ Position = 0
  <2>1. input \in Seq(Byte)
    BY LengthsInit DEF Lengths, TypeOK
  <2>2. fed = 0 /\ Len(buffer) = 0
    BY DEF Init
  <2> QED
    BY <2>1, <2>2 DEF Position
<1>2. ChunkingFrom(input)[0] \in Seq(Seq(Byte))
  <2>1. 0 \in 0 .. Len(input)
    BY <1>1
  <2> QED
    BY <1>1, <2>1, ChunkingSteps
<1>3. Chunking(input) = <<>> \o ChunkingFrom(input)[0]
  BY <1>2, ConcatEmptySeq DEF Chunking
<1> QED
  BY <1>1, <1>3 DEF Init, Content, Remembered

\* What was remembered of a scan is right of a longer buffer too.
LEMMA RememberedOfLonger ==
    ASSUME NEW buf \in Seq(Byte), NEW more \in Seq(Byte), NEW scanned, NEW fp,
           Remembered(buf, scanned, fp)
    PROVE  Remembered(buf \o more, scanned, fp)
<1> DEFINE long == buf \o more
<1>1. /\ long \in Seq(Byte) /\ Len(long) = Len(buf) + Len(more)
      /\ \A k \in 1 .. Len(buf) : buf[k] = long[k]
  BY ConcatProperties
<1> HIDE DEF long
<1>2. MIN_CHUNK_SIZE \in Nat /\ MIN_CHUNK_SIZE > 0 /\ 0 \in Fingerprint
  BY ConstantsTyped DEF Constants, Fingerprint
<1>3. CASE scanned = 0 /\ fp = 0
  BY <1>3 DEF Remembered, long
<1>4. CASE ~(scanned = 0 /\ fp = 0)
  <2>1. /\ scanned \in MIN_CHUNK_SIZE .. Len(buf)
        /\ fp = Rolled(buf, MIN_CHUNK_SIZE, 0)[scanned - 1]
        /\ \A i \in MIN_CHUNK_SIZE .. scanned - 1 :
              Rolled(buf, MIN_CHUNK_SIZE, 0)[i] % 2^MaskBits(i) # 0
    BY <1>4 DEF Remembered
  <2>2. ASSUME NEW i \in MIN_CHUNK_SIZE - 1 .. scanned - 1
        PROVE  Rolled(buf, MIN_CHUNK_SIZE, 0)[i] = Rolled(long, MIN_CHUNK_SIZE, 0)[i]
    <3>1. /\ MIN_CHUNK_SIZE <= Len(buf) /\ i \in MIN_CHUNK_SIZE - 1 .. Len(buf) - 1
          /\ Len(buf) <= Len(long)
      BY <1>1, <1>2, <2>1
    <3> QED
      BY <1>1, <1>2, <3>1, RolledPrefix
  <2>3. scanned \in MIN_CHUNK_SIZE .. Len(long) /\ scanned - 1 \in MIN_CHUNK_SIZE - 1 .. scanned - 1
        /\ \A i \in MIN_CHUNK_SIZE .. scanned - 1 : i \in MIN_CHUNK_SIZE - 1 .. scanned - 1
    BY <1>1, <1>2, <2>1
  <2>4. Remembered(long, scanned, fp)
    BY <2>1, <2>2, <2>3 DEF Remembered
  <2> QED
    BY <2>4 DEF long
<1> QED
  BY <1>3, <1>4

\* A feed brings what comes next in the source.
LEMMA ContentFeed ==
    ASSUME Lengths, Content, NEW n \in 0 .. MaxInput, NEW eof \in BOOLEAN, Feed(n, eof)
    PROVE  Content'
<1> DEFINE piece == SubSeq(input, fed + 1, fed + n)
           long  == buffer \o piece
<1>1. /\ input \in Seq(Byte) /\ fed \in 0 .. Len(input)
      /\ buffer \in Seq(Byte)
      /\ n \in Nat /\ fed + n <= Len(input)
  BY ConstantsTyped DEF Lengths, TypeOK, Feed, Constants
<1>2. /\ Len(buffer) <= fed
      /\ \A k \in 1 .. Len(buffer) : buffer[k] = input[(fed - Len(buffer)) + k]
      /\ Remembered(buffer, scanned_offset, fingerprint)
      /\ Chunking(input) = chunks \o ChunkingFrom(input)[fed - Len(buffer)]
  BY DEF Content, Position
<1>3. piece \in Seq(Byte) /\ Len(piece) = n /\ \A k \in 1 .. n : piece[k] = input[fed + k]
  <2>1. \A i \in fed + 1 .. fed + n : input[i] \in Byte
    BY <1>1, ElementOfSeq
  <2>2. fed + 1 \in Int /\ fed + n \in Int
    BY <1>1
  <2>3. /\ piece \in Seq(Byte)
        /\ Len(piece) = IF fed + 1 <= fed + n THEN (fed + n) - (fed + 1) + 1 ELSE 0
        /\ \A k \in 1 .. (fed + n) - (fed + 1) + 1 : piece[k] = input[(fed + 1) + k - 1]
    BY <2>1, <2>2, SubSeqProperties
  <2> HIDE DEF piece
  <2> QED
    BY <1>1, <2>3
<1> HIDE DEF piece
<1>4. /\ long \in Seq(Byte) /\ Len(long) = Len(buffer) + n
      /\ \A k \in 1 .. Len(buffer) + n :
            long[k] = IF k <= Len(buffer) THEN buffer[k] ELSE piece[k - Len(buffer)]
  BY <1>1, <1>3, ConcatProperties
<1>5. Remembered(long, scanned_offset, fingerprint)
  BY <1>1, <1>2, <1>3, RememberedOfLonger
<1> HIDE DEF long
<1>6. /\ buffer' = long /\ fed' = fed + n /\ input' = input /\ scanned_offset' = scanned_offset
      /\ fingerprint' = fingerprint /\ chunks' = chunks
  BY DEF Feed, piece, long
<1>7. (fed + n) - Len(long) = fed - Len(buffer) /\ Len(long) <= fed + n
  BY <1>1, <1>2, <1>4
<1>8. Position' = fed - Len(buffer)
  BY <1>6, <1>7 DEF Position
<1>9. ASSUME NEW k \in 1 .. Len(long) PROVE long[k] = input[(fed - Len(buffer)) + k]
  <2>1. CASE k <= Len(buffer)
    <3>1. k \in 1 .. Len(buffer) /\ k \in 1 .. Len(buffer) + n
      BY <1>1, <1>4, <2>1
    <3>2. long[k] = buffer[k]
      BY <1>4, <2>1, <3>1
    <3>3. buffer[k] = input[(fed - Len(buffer)) + k]
      BY <1>2, <3>1
    <3> QED
      BY <3>2, <3>3
  <2>2. CASE k > Len(buffer)
    <3>1. k - Len(buffer) \in 1 .. n /\ fed + (k - Len(buffer)) = (fed - Len(buffer)) + k
      BY <1>1, <1>4, <2>2
    <3>2. long[k] = piece[k - Len(buffer)]
      BY <1>1, <1>4, <2>2
    <3> QED
      BY <1>3, <3>1, <3>2
  <2> QED
    BY <1>1, <1>4, <2>1, <2>2
<1> QED
  BY <1>2, <1>5, <1>6, <1>7, <1>8, <1>9 DEF Content

\* A turn cuts the next chunk of the source, or goes on with its scan.
LEMMA ContentTurn == Lengths /\ Content /\ Turn => Content'
<1> SUFFICES ASSUME Lengths, Content, Turn PROVE Content'
  OBVIOUS
<1> DEFINE found == FindBoundary(buffer, scanned_offset, fingerprint, is_eof)
           b     == found.boundary
           pos   == fed - Len(buffer)
           rest  == After(input, pos)
           From  == ChunkingFrom(input)
<1>1. /\ input \in Seq(Byte) /\ fed \in 0 .. Len(input)
      /\ is_eof \in BOOLEAN
      /\ buffer \in Seq(Byte) /\ scanned_offset \in 0 .. Len(buffer)
      /\ chunks \in Seq(Seq(Byte) \ {<<>>}) /\ (is_eof => fed = Len(input))
  BY DEF Lengths, TypeOK
<1>2. /\ Len(buffer) <= fed
      /\ \A k \in 1 .. Len(buffer) : buffer[k] = input[pos + k]
      /\ Remembered(buffer, scanned_offset, fingerprint)
      /\ Chunking(input) = chunks \o From[pos]
  BY DEF Content, Position
<1>3. pos \in 0 .. Len(input) /\ pos \in Nat
  BY <1>1, <1>2
<1>4. /\ rest \in Seq(Byte) /\ Len(rest) = Len(input) - pos
      /\ \A i \in 1 .. Len(input) - pos : rest[i] = input[pos + i]
      /\ pos # Len(input) => FirstLength(rest) \in 1 .. Len(input) - pos
  <2> HIDE DEF pos
  <2> QED
    BY <1>1, <1>3, AfterIs
<1>5. /\ b > 0 => b = FirstLength(rest)
      /\ b = 0 => Remembered(buffer, found.scanned, found.fingerprint)
  <2>1. Len(buffer) <= Len(rest) /\ (is_eof => Len(buffer) = Len(rest))
    BY <1>1, <1>2, <1>4
  <2>2. \A k \in 1 .. Len(buffer) : buffer[k] = rest[k]
    <3>1. \A k \in 1 .. Len(buffer) : k \in 1 .. Len(input) - pos
      BY <1>1, <1>2
    <3> HIDE DEF rest, pos
    <3> QED
      BY <1>2, <1>4, <3>1
  <2>3. scanned_offset \in Nat /\ scanned_offset <= Len(buffer)
    BY <1>1
  <2> HIDE DEF rest
  <2> QED
    BY <1>1, <1>2, <1>4, <2>1, <2>2, <2>3, FoundFirst
<1>6. input' = input /\ fed' = fed
  BY DEF Turn
<1>7. \/ /\ b = 0
         /\ scanned_offset' = found.scanned /\ fingerprint' = found.fingerprint
         /\ buffer' = buffer /\ chunks' = chunks
      \/ b > 0 /\ Cut(b)
  BY DEF Turn
<1>8. BoundaryOf(buffer, is_eof, found)
  <2>1. fingerprint \in Fingerprint /\ scanned_offset \in Nat /\ scanned_offset <= Len(buffer)
        /\ scanned_offset < MAX_CHUNK_SIZE
    <3>1. fingerprint \in Fingerprint
      BY FingerprintIs DEF Lengths, TypeOK
    <3> QED
      BY <1>1, <3>1 DEF Lengths
  <2> QED
    BY <1>1, <2>1, FoundBoundary
<1> HIDE DEF found
<1>9. CASE /\ b = 0
           /\ scanned_offset' = found.scanned /\ fingerprint' = found.fingerprint
           /\ buffer' = buffer /\ chunks' = chunks
  BY <1>2, <1>5, <1>6, <1>9 DEF Content, Position
<1>10. CASE b > 0 /\ Cut(b)
  <2> DEFINE chunk == SubSeq(buffer, 1, b)
             left  == SubSeq(buffer, b + 1, Len(buffer))
  <2>1. /\ b \in Nat /\ b > 0 /\ b <= Len(buffer) /\ b = FirstLength(rest)
    BY <1>1, <1>5, <1>8, <1>10 DEF BoundaryOf
  <2> HIDE DEF b, rest
  <2>2. /\ chunks' = Append(chunks, chunk) /\ buffer' = left
        /\ scanned_offset' = 0 /\ fingerprint' = 0
    BY <1>10 DEF Cut
  <2>3. \A i \in 1 .. Len(buffer) : buffer[i] \in Byte
    BY <1>1, ElementOfSeq
  <2>4. chunk \in Seq(Byte) /\ Len(chunk) = b /\ \A k \in 1 .. b : chunk[k] = buffer[k]
    <3>1. (\A i \in 1 .. b : buffer[i] \in Byte) /\ 1 <= b
      BY <1>1, <2>1, <2>3
    <3>2. /\ chunk \in Seq(Byte) /\ Len(chunk) = b - 1 + 1
          /\ \A k \in 1 .. b - 1 + 1 : chunk[k] = buffer[1 + k - 1]
      BY <2>1, <3>1, SubSeqProperties
    <3> HIDE DEF chunk
    <3> QED
      BY <2>1, <3>2
  <2>5. /\ Len(left) = Len(buffer) - b
        /\ \A k \in 1 .. Len(buffer) - b : left[k] = buffer[b + k]
    <3>1. /\ \A i \in b + 1 .. Len(buffer) : buffer[i] \in Byte
          /\ b + 1 \in Int /\ Len(buffer) \in Int
      BY <1>1, <2>1, <2>3
    <3>2. /\ Len(left) = IF b + 1 <= Len(buffer) THEN Len(buffer) - (b + 1) + 1 ELSE 0
          /\ \A k \in 1 .. Len(buffer) - (b + 1) + 1 : left[k] = buffer[(b + 1) + k - 1]
      BY <3>1, SubSeqProperties
    <3> HIDE DEF left
    <3> QED
      BY <1>1, <2>1, <3>2
  <2>6. fed - Len(left) = pos + b /\ Len(left) <= fed /\ pos # Len(input) /\ pos + b \in 0 .. Len(input)
    <3> HIDE DEF left
    <3> QED
      BY <1>1, <1>2, <2>1, <2>5
  <2>7. Position' = pos + b
    <3> HIDE DEF left
    <3> QED
      BY <1>6, <2>2, <2>6 DEF Position
  <2>8. ASSUME NEW k \in 1 .. Len(left) PROVE left[k] = input[(pos + b) + k]
    <3> HIDE DEF left
    <3>1. b + k \in 1 .. Len(buffer) /\ k \in 1 .. Len(buffer) - b /\ pos + (b + k) = (pos + b) + k
      BY <1>1, <2>1, <2>5
    <3> HIDE DEF pos
    <3> QED
      BY <1>2, <2>5, <3>1
  <2>9. chunk = SubSeq(input, pos + 1, pos + b)
    <3> DEFINE t == SubSeq(input, pos + 1, pos + b)
    <3>1. /\ \A i \in pos + 1 .. pos + b : input[i] \in Byte
          /\ pos + 1 \in Int /\ pos + b \in Int /\ pos + 1 <= pos + b
      <4>1. pos + b <= Len(input)
        BY <1>1, <2>6
      <4> HIDE DEF pos
      <4> QED
        BY <1>1, <1>3, <2>1, <4>1, ElementOfSeq
    <3> HIDE DEF pos, chunk
    <3>2. /\ t \in Seq(Byte) /\ Len(t) = (pos + b) - (pos + 1) + 1
          /\ \A k \in 1 .. (pos + b) - (pos + 1) + 1 : t[k] = input[(pos + 1) + k - 1]
      BY <3>1, SubSeqProperties
    <3> HIDE DEF t
    <3>3. Len(t) = b /\ \A k \in 1 .. b : t[k] = input[pos + k]
      BY <1>3, <2>1, <3>2
    <3>4. \A k \in 1 .. b : chunk[k] = input[pos + k]
      BY <1>1, <1>2, <2>1, <2>4
    <3>5. chunk = t
      BY <2>4, <3>2, <3>3, <3>4, SeqEqual
    <3> QED
      BY <3>5 DEF t
  <2>10. From[pos] = <<chunk>> \o From[pos + b] /\ From[pos + b] \in Seq(Seq(Byte))
    <3> HIDE DEF pos, chunk
    <3> QED
      BY <1>1, <1>3, <2>1, <2>6, <2>9, ChunkingSteps DEF rest
  <2>11. Chunking(input) = Append(chunks, chunk) \o From[pos + b]
    <3> HIDE DEF chunk, pos, From
    <3>1. chunks \in Seq(Seq(Byte)) /\ <<chunk>> \in Seq(Seq(Byte))
      <4>1. Seq(Byte) \ {<<>>} \subseteq Seq(Byte)
        OBVIOUS
      <4>2. chunks \in Seq(Seq(Byte))
        BY <1>1, <4>1, SeqMonotonic
      <4> QED
        BY <2>4, <4>2
    <3>2. (chunks \o <<chunk>>) \o From[pos + b] = chunks \o (<<chunk>> \o From[pos + b])
      <4>1. PICK t \in Seq(Seq(Byte)) : t = From[pos + b]
        BY <2>10
      <4>2. PICK u \in Seq(Seq(Byte)) : u = <<chunk>>
        BY <3>1
      <4>3. (chunks \o u) \o t = chunks \o (u \o t)
        BY <3>1, ConcatAssociative
      <4> QED
        BY <4>1, <4>2, <4>3
    <3>3. Append(chunks, chunk) = chunks \o <<chunk>>
      BY <2>4, <3>1, AppendIsConcat
    <3> QED
      BY <1>2, <2>10, <3>2, <3>3
  <2>12. Remembered(left, 0, 0)
    BY DEF Remembered
  <2> HIDE DEF left, chunk, pos
  <2> QED
    BY <1>6, <2>2, <2>6, <2>7, <2>8, <2>11, <2>12 DEF Content
<1> QED
  BY <1>7, <1>9, <1>10

\* Every step keeps the content.
LEMMA ContentStep == Lengths /\ Content /\ [Next]_vars => Content'
<1>1. Content /\ UNCHANGED vars => Content'
  BY DEF Content, Position, vars
<1> QED
  BY <1>1, ContentFeed, ContentTurn DEF Next

\* The chunks depend on the content of the source alone, however the pipe cut it into pieces:
\* they are always the beginning of its chunking, and all of it in the end.
THEOREM SplitsDoNotMatter == Spec => []SplitIndependent
<1>1. Lengths /\ Content => SplitIndependent
  <2> SUFFICES ASSUME Lengths, Content PROVE SplitIndependent
    OBVIOUS
  <2> DEFINE tail == ChunkingFrom(input)[Position]
  <2>1. /\ input \in Seq(Byte) /\ fed \in 0 .. Len(input) /\ buffer \in Seq(Byte)
        /\ chunks \in Seq(Seq(Byte) \ {<<>>}) /\ Len(buffer) <= fed
    BY DEF Lengths, TypeOK, Content
  <2>2. chunks \in Seq(Seq(Byte))
    <3>1. Seq(Byte) \ {<<>>} \subseteq Seq(Byte)
      OBVIOUS
    <3> QED
      BY <2>1, <3>1, SeqMonotonic
  <2>3. Position \in 0 .. Len(input)
    BY <2>1 DEF Position
  <2>4. tail \in Seq(Seq(Byte))
    BY <2>1, <2>3, ChunkingSteps
  <2>5. Chunking(input) = chunks \o tail
    BY DEF Content
  <2> HIDE DEF tail
  <2>6. IsPrefix(chunks, chunks \o tail)
    <3>1. Len(chunks) <= Len(chunks \o tail)
      BY <2>2, <2>4, ConcatProperties
    <3>2. SubSeq(chunks \o tail, 1, Len(chunks)) = SubSeq(chunks, 1, Len(chunks))
      BY <2>2, <2>4, SubSeqOfConcat1
    <3> QED
      BY <3>1, <3>2 DEF IsPrefix
  <2>7. ASSUME is_eof, ~looping PROVE tail = <<>>
    <3>1. fed = Len(input) /\ buffer = <<>>
      BY <2>7 DEF Lengths
    <3>2. Position = Len(input) /\ Len(input) \in 0 .. Len(input)
      BY <2>1, <3>1 DEF Position
    <3> QED
      BY <2>1, <3>2, ChunkingSteps DEF tail
  <2>8. is_eof /\ ~looping => Chunking(input) = chunks
    BY <2>2, <2>5, <2>7, ConcatEmptySeq
  <2> QED
    BY <2>5, <2>6, <2>8 DEF SplitIndependent
<1>2. Init => Lengths /\ Content
  BY LengthsInit, ContentInit
<1>3. (Lengths /\ Content) /\ [Next]_vars => (Lengths /\ Content)'
  BY LengthsStep, ContentStep
<1> QED
  BY <1>1, <1>2, <1>3, PTL DEF Spec
=============================================================================
