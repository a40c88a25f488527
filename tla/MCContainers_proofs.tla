-------------------------- MODULE MCContainers_proofs -------------------------
(* Theorems of the data structures in MCContainers, but for the ring buffer  *)
(* itself, whose are in Queue_proofs.                                        *)
EXTENDS MCContainers, FiniteSetTheorems, NaturalsInduction, WellFoundedInduction, TLAPS

----------------------------------------------------------------------------
(* Numbers.                                                                 *)

LEMMA LeastNumber ==
  ASSUME NEW S, S \subseteq Nat, S # {}
  PROVE  \E x \in S : \A y \in S : x <= y
<1> DEFINE R == OpToRel(<, Nat)
<1>1. IsWellFoundedOn(R, Nat)
  BY NatLessThanWellFounded
<1>2. \A x, y \in Nat : x < y => <<x, y>> \in R
  BY DEF OpToRel
<1> HIDE DEF R
<1>3. PICK x \in S : \A y \in S : <<y, x>> \notin R
  BY <1>1, WFMin
<1>4. ASSUME NEW y \in S
      PROVE  x <= y
  <2>1. ~(y < x)
    BY <1>2, <1>3, <1>4
  <2>2. x \in Nat /\ y \in Nat
    BY <1>3, <1>4
  <2>3. QED BY <2>1, <2>2
<1>5. QED BY <1>3, <1>4

\* What holds of zero and goes from a number to the next, up to m, holds of
\* every number up to m: H is the set it is about.
LEMMA UpTo ==
  ASSUME NEW H, NEW m \in Nat, 0 \in H, \A k \in 1 .. m : k - 1 \in H => k \in H
  PROVE  \A k \in 0 .. m : k \in H
<1> DEFINE S == {k \in 0 .. m : k \notin H}
<1>1. SUFFICES ASSUME S # {} PROVE FALSE
  OBVIOUS
<1>2. S \subseteq Nat
  OBVIOUS
<1>3. PICK k \in S : \A y \in S : k <= y
  BY <1>1, <1>2, LeastNumber
<1>4. k \in 1 .. m /\ k \notin H
  OBVIOUS
<1>5. k - 1 \in 0 .. m /\ ~(k <= k - 1)
  BY <1>4
<1>6. k - 1 \in H
  BY <1>3, <1>5
<1>7. QED BY <1>4, <1>6

LEMMA Division ==
  ASSUME NEW x \in Nat, NEW m \in Nat \ {0}
  PROVE  x \div m \in Nat /\ x % m \in 0 .. m - 1 /\ x = (x \div m) * m + (x % m)
OBVIOUS

LEMMA Products ==
  ASSUME NEW a \in Nat, NEW b \in Nat, NEW c \in Nat
  PROVE  /\ a * b \in Nat /\ (2 * a) * b = 2 * (a * b) /\ (a + 1) * b = a * b + b
         /\ a * b = b * a /\ (a <= c => a * b <= c * b)
OBVIOUS

----------------------------------------------------------------------------
(* Powers of two.                                                           *)

Pow == Alloc!Pow2
Doubles(f, m) == f = [k \in 0 .. m |-> IF k = 0 THEN 1 ELSE 2 * f[k - 1]]

LEMMA PowersThere ==
  ASSUME NEW m \in Nat
  PROVE  \E f : Doubles(f, m)
<1> DEFINE H == {k \in Nat : \E f : Doubles(f, k)}
<1>1. 0 \in H
  <2>1. Doubles([k \in 0 .. 0 |-> 1], 0)
    BY DEF Doubles
  <2>2. QED BY <2>1
<1>2. ASSUME NEW k \in 1 .. m, k - 1 \in H
      PROVE  k \in H
  <2>1. PICK f : Doubles(f, k - 1)
    BY <1>2
  <2> DEFINE g == [j \in 0 .. k |-> IF j = k THEN 2 * f[k - 1] ELSE f[j]]
  <2>2. ASSUME NEW j \in 0 .. k
        PROVE  g[j] = IF j = 0 THEN 1 ELSE 2 * g[j - 1]
    <3>1. CASE j = 0
      BY <1>2, <2>1, <3>1 DEF Doubles
    <3>2. CASE j = k
      BY <1>2, <3>2
    <3>3. CASE j # 0 /\ j # k
      <4>1. j \in 0 .. k - 1 /\ j - 1 \in 0 .. k - 1 /\ j - 1 \in 0 .. k /\ j - 1 # k
        BY <1>2, <2>2, <3>3
      <4>2. f[j] = 2 * f[j - 1]
        BY <2>1, <3>3, <4>1 DEF Doubles
      <4>3. g[j] = f[j] /\ g[j - 1] = f[j - 1]
        BY <3>3, <4>1
      <4>4. QED BY <3>3, <4>2, <4>3
    <3>4. QED BY <3>1, <3>2, <3>3
  <2>3. Doubles(g, k)
    BY <2>2 DEF Doubles
  <2>4. QED BY <1>2, <2>3
<1> HIDE DEF H
<1>3. \A k \in 0 .. m : k \in H
  BY <1>1, <1>2, UpTo
<1>4. QED BY <1>3 DEF H

LEMMA PowIs ==
  /\ Pow[0] = 1
  /\ \A k \in 1 .. 2 * Bits : Pow[k] = 2 * Pow[k - 1]
<1>1. 2 * Bits \in Nat
  BY ContainersAssumption
<1> DEFINE f == CHOOSE f : f = [k \in 0 .. 2 * Bits |-> IF k = 0 THEN 1 ELSE 2 * f[k - 1]]
<1>2. \E g : g = [k \in 0 .. 2 * Bits |-> IF k = 0 THEN 1 ELSE 2 * g[k - 1]]
  BY <1>1, PowersThere DEF Doubles
<1>3. f = [k \in 0 .. 2 * Bits |-> IF k = 0 THEN 1 ELSE 2 * f[k - 1]]
  BY <1>2
<1>4. Pow = f
  BY DEF Pow, Alloc!Pow2
<1> HIDE DEF f
<1>5. \A k \in 0 .. 2 * Bits : f[k] = IF k = 0 THEN 1 ELSE 2 * f[k - 1]
  BY <1>3
<1>6. QED BY <1>1, <1>4, <1>5

LEMMA PowType ==
  \A k \in 0 .. 2 * Bits : Pow[k] \in Nat \ {0}
<1> DEFINE H == {k \in 0 .. 2 * Bits : Pow[k] \in Nat \ {0}}
<1>1. 2 * Bits \in Nat
  BY ContainersAssumption
<1>2. 0 \in H
  BY <1>1, PowIs
<1>3. ASSUME NEW k \in 1 .. 2 * Bits, k - 1 \in H
      PROVE  k \in H
  BY <1>1, <1>3, PowIs
<1> HIDE DEF H
<1>4. \A k \in 0 .. 2 * Bits : k \in H
  BY <1>1, <1>2, <1>3, UpTo
<1>5. QED BY <1>4 DEF H

LEMMA PowGrows ==
  ASSUME NEW j \in 0 .. 2 * Bits, NEW k \in 0 .. 2 * Bits, j < k
  PROVE  2 * Pow[j] <= Pow[k]
<1> DEFINE H == {e \in 0 .. 2 * Bits : j < e => 2 * Pow[j] <= Pow[e]}
<1>1. 2 * Bits \in Nat
  BY ContainersAssumption
<1>2. 0 \in H
  BY <1>1
<1>3. ASSUME NEW e \in 1 .. 2 * Bits, e - 1 \in H
      PROVE  e \in H
  <2>1. Pow[e] = 2 * Pow[e - 1] /\ Pow[e - 1] \in Nat /\ Pow[j] \in Nat
    BY <1>1, <1>3, PowIs, PowType
  <2>2. CASE j = e - 1
    BY <1>3, <2>1, <2>2
  <2>3. CASE j # e - 1
    <3>1. j < e => 2 * Pow[j] <= Pow[e - 1]
      BY <1>3, <2>3
    <3>2. QED BY <1>3, <2>1, <3>1
  <2>4. QED BY <2>2, <2>3
<1> HIDE DEF H
<1>4. k \in H
  BY <1>1, <1>2, <1>3, UpTo
<1>5. QED BY <1>4 DEF H

LEMMA PowSum ==
  ASSUME NEW k \in 0 .. Bits
  PROVE  k + Bits \in 0 .. 2 * Bits /\ Pow[k + Bits] = Pow[k] * Pow[Bits]
<1> DEFINE H == {e \in 0 .. Bits : Pow[e + Bits] = Pow[e] * Pow[Bits]}
<1>1. Bits \in Nat
  BY ContainersAssumption
<1>2. 0 \in H
  <2>1. Bits \in 0 .. 2 * Bits /\ 0 + Bits = Bits
    BY <1>1
  <2>2. Pow[Bits] \in Nat
    BY <2>1, PowType
  <2>3. QED BY <1>1, <2>1, <2>2, PowIs
<1>3. ASSUME NEW e \in 1 .. Bits, e - 1 \in H
      PROVE  e \in H
  <2>1. /\ e \in 1 .. 2 * Bits /\ e + Bits \in 1 .. 2 * Bits /\ e - 1 \in 0 .. 2 * Bits
        /\ Bits \in 0 .. 2 * Bits /\ (e + Bits) - 1 = (e - 1) + Bits
    BY <1>1, <1>3
  <2>2. Pow[e + Bits] = 2 * Pow[(e - 1) + Bits] /\ Pow[e] = 2 * Pow[e - 1]
    BY <2>1, PowIs
  <2>3. Pow[e - 1] \in Nat /\ Pow[Bits] \in Nat
    BY <2>1, PowType
  <2>4. Pow[(e - 1) + Bits] = Pow[e - 1] * Pow[Bits]
    BY <1>3
  <2>5. (2 * Pow[e - 1]) * Pow[Bits] = 2 * (Pow[e - 1] * Pow[Bits])
    BY <2>3, Products
  <2>6. QED BY <1>3, <2>2, <2>4, <2>5
<1> HIDE DEF H
<1>4. k \in H
  BY <1>1, <1>2, <1>3, UpTo
<1>5. QED BY <1>1, <1>4 DEF H

----------------------------------------------------------------------------
(* The allocation of a ring buffer.                                         *)

Span2 == Alloc!IntSpan

LEMMA SpansAre ==
  /\ Span2 \in Nat \ {0} /\ Span2 = Pow[Bits] /\ Span2 = 2 * Pow[Bits - 1]
  /\ Pow[Bits - 1] \in Nat \ {0} /\ Span2 \div 2 = Pow[Bits - 1]
  /\ Alloc!LongSpan = Span2 * Span2 /\ Alloc!LongSpan \in Nat
<1>1. /\ Bits \in Nat /\ Bits \in 1 .. 2 * Bits /\ Bits - 1 \in 0 .. 2 * Bits
      /\ Bits \in 0 .. Bits /\ Bits + Bits = 2 * Bits /\ Bits \in 0 .. 2 * Bits
  BY ContainersAssumption
<1>2. Span2 = Pow[Bits] /\ Alloc!LongSpan = Pow[2 * Bits]
  BY DEF Span2, Pow, Alloc!IntSpan, Alloc!LongSpan
<1>3. Pow[Bits] \in Nat \ {0} /\ Pow[Bits - 1] \in Nat \ {0} /\ Pow[Bits] = 2 * Pow[Bits - 1]
  BY <1>1, PowIs, PowType
<1>4. Pow[Bits + Bits] = Pow[Bits] * Pow[Bits]
  BY <1>1, PowSum
<1>5. (2 * Pow[Bits - 1]) \div 2 = Pow[Bits - 1]
  BY <1>3
<1>6. Pow[Bits] * Pow[Bits] \in Nat
  BY <1>3, Products
<1>7. QED BY <1>1, <1>2, <1>3, <1>4, <1>5, <1>6

\* What fls is given: the upper half of asked - 1, or the lower.
Less == asked - 1
Halves == IF high THEN Less \div Span2 ELSE Less
Args == IF direct THEN RoundArgs ELSE AllocArgs

\* Inside the loop, what is left of it after as many halvings.
Halved ==
  /\ high <=> Less \div Span2 # 0
  /\ i \in Nat
  /\ position = -1 => i = 0 /\ Halves = 0
  /\ position # -1 => /\ position \in 0 .. Bits - 1
                      /\ Pow[position] <= Halves
                      /\ i * Pow[position + 1] <= Halves
                      /\ Halves < (i + 1) * Pow[position + 1]

Rounds ==
  /\ \E k \in 0 .. 2 * Bits - 1 : size = Pow[k]
  /\ asked <= size
  /\ \A k \in 0 .. 2 * Bits - 1 : Pow[k] < size => Pow[k] < asked

AllocInv ==
  /\ pc \in {"idle", "loop", "malloc", "init", "done"} /\ direct \in BOOLEAN
  /\ high \in BOOLEAN /\ ok \in BOOLEAN
  /\ pc # "idle" => asked \in Args
  /\ pc = "loop" => Halved
  /\ pc \in {"malloc", "init"} \/ (pc = "done" /\ ok) => Rounds
  /\ direct => pc \notin {"malloc", "init"}
  /\ pc \in {"loop", "malloc"} => memory = {}
  /\ pc = "init" => memory = {"buffer"}
  /\ pc \in {"idle", "done"} => memory = {} \/ memory = {"buffer", "queue"}

LEMMA ArgsAre ==
  ASSUME AllocInv, pc # "idle"
  PROVE  /\ asked \in Nat \ {0} /\ Less \in Nat /\ asked = Less + 1 /\ Less < Span2 * Span2
         /\ Less \div Span2 \in Nat
         /\ (IF Less \div Span2 # 0 THEN Less \div Span2 ELSE Less) < Pow[Bits - 1]
         /\ ~direct => asked < Span2
<1>1. asked \in AllocArgs \cup RoundArgs /\ (~direct => asked \in AllocArgs)
  BY DEF AllocInv, Args
<1>2. /\ Span2 \in Nat \ {0} /\ Alloc!LongSpan = Span2 * Span2 /\ Alloc!LongSpan \in Nat
      /\ Span2 <= Span2 * Span2
  BY SpansAre
<1>3. asked \in 1 .. Alloc!LongSpan
  BY <1>1, <1>2, ContainersAssumption DEF Span2
<1>4. ~direct => asked \in 1 .. Span2 - 1
  BY <1>1, ContainersAssumption DEF Span2
<1>5. (IF (asked - 1) \div Span2 # 0 THEN (asked - 1) \div Span2 ELSE asked - 1) < Span2 \div 2
  BY <1>1, ContainersAssumption DEF Span2
<1>6. asked - 1 \in Nat
  BY <1>2, <1>3
<1>7. (asked - 1) \div Span2 \in Nat
  BY <1>2, <1>6, Division
<1>8. QED BY <1>2, <1>3, <1>4, <1>5, <1>6, <1>7, SpansAre DEF Less

LEMMA HalfIs ==
  ASSUME NEW f \in Nat
  PROVE  /\ Alloc!Half(f) \in Nat /\ f = 2 * Alloc!Half(f) + (f % 2) /\ f % 2 \in 0 .. 1
         /\ f # 0 <=> f >= 1
         /\ Alloc!Half(f) * 2 <= f /\ f < (Alloc!Half(f) + 1) * 2
BY DEF Alloc!Half

LEMMA StartKeeps ==
  ASSUME Alloc!StartRound(asked'), pc' = "loop", asked' \in Args', direct' \in BOOLEAN,
         memory' = {}, ok' \in BOOLEAN, ok' = FALSE
  PROVE  AllocInv'
<1>1. /\ asked' \in AllocArgs \cup RoundArgs
      /\ Span2 \in Nat \ {0} /\ Alloc!LongSpan = Span2 * Span2 /\ Alloc!LongSpan \in Nat
      /\ Span2 = 2 * Pow[Bits - 1] /\ Pow[Bits - 1] \in Nat \ {0}
      /\ Span2 \div 2 = Pow[Bits - 1] /\ Span2 <= Span2 * Span2
  BY SpansAre DEF Args
<1>2. asked' \in 1 .. Alloc!LongSpan
  BY <1>1, ContainersAssumption DEF Span2
<1>0. PICK a : a = asked'
  OBVIOUS
<1> DEFINE x == a - 1
           h == x \div Span2
           f == IF h # 0 THEN h ELSE x
<1>3. x \in Nat /\ x < Alloc!LongSpan /\ Less' = x
  <2>1. a \in 1 .. Alloc!LongSpan
    BY <1>0, <1>2
  <2>2. x \in Nat /\ x < Alloc!LongSpan
    BY <1>1, <2>1
  <2>3. QED BY <1>0, <2>2 DEF Less
<1>4. h \in Nat /\ x = h * Span2 + (x % Span2) /\ x % Span2 \in 0 .. Span2 - 1
  BY <1>1, <1>3, Division
<1>5. f \in Nat /\ f < Pow[Bits - 1]
  BY <1>0, <1>1, <1>3, <1>4, ContainersAssumption DEF Span2
<1>6. Alloc!Before(asked') = x
  BY <1>0, <1>1, <1>3 DEF Alloc!Before
<1>7. h = 0 => x % Span2 = x
  <2>1. h = 0 => h * Span2 = 0
    BY <1>1
  <2>2. QED BY <1>3, <1>4, <2>1
<1>8. Alloc!AsInt(f) = f
  BY <1>1, <1>5 DEF Alloc!AsInt, Span2
<1>9. /\ high' = (h # 0) /\ i' = Alloc!Half(f) /\ position' = IF f # 0 THEN 0 ELSE -1
  <2>1. Alloc!AsInt(IF h # 0 THEN h ELSE x % Span2) = f
    BY <1>7, <1>8
  <2>2. QED BY <1>6, <2>1 DEF Alloc!StartRound, Span2
<1>10. (high' <=> h # 0) /\ high' \in BOOLEAN
  <2>1. (h # 0) \in BOOLEAN
    OBVIOUS
  <2>2. QED BY <1>9, <2>1, Zenon
<1>11. Halves' = f
  BY <1>3, <1>10 DEF Halves
<1>12. Halved'
  <2>1. high' <=> Less' \div Span2 # 0
    BY <1>3, <1>10
  <2>2. i' \in Nat /\ i' * 2 <= f /\ f < (i' + 1) * 2
    BY <1>5, <1>9, HalfIs
  <2>3. f = 0 => i' = 0
    BY <1>5, <2>2
  <2>4. Pow[0] = 1 /\ Pow[1] = 2
    BY PowIs, ContainersAssumption
  <2>5. Bits - 1 \in Nat
    BY ContainersAssumption
  <2> HIDE DEF f
  <2>6. position' = -1 => i' = 0 /\ Halves' = 0
    BY <1>9, <1>11, <2>3
  <2>7. ASSUME position' # -1
        PROVE  /\ position' \in 0 .. Bits - 1
               /\ Pow[position'] <= Halves'
               /\ i' * Pow[position' + 1] <= Halves'
               /\ Halves' < (i' + 1) * Pow[position' + 1]
    <3>1. position' = 0 /\ f # 0
      BY <1>9, <2>7
    <3>2. 1 <= f
      BY <1>5, <3>1
    <3>3. QED BY <1>11, <2>2, <2>4, <2>5, <3>1, <3>2
  <2>8. QED BY <2>1, <2>2, <2>6, <2>7 DEF Halved, Pow
<1>13. QED BY <1>10, <1>12 DEF AllocInv

LEMMA ShiftKeeps ==
  ASSUME AllocInv, Alloc!Shift
  PROVE  AllocInv'
<1>1. /\ pc = "loop" /\ pc' = "loop" /\ i # 0 /\ i' = Alloc!Half(i) /\ asked' = asked
      /\ direct' = direct /\ high' = high /\ memory' = memory /\ ok' = ok
      /\ position' = IF position < Alloc!MaxPosition THEN position + 1 ELSE position
  BY DEF Alloc!Shift
<1>2. Halved /\ i \in Nat \ {0} /\ asked' \in Args'
  BY <1>1 DEF AllocInv, Halved, Args
<1>3. /\ position \in 0 .. Bits - 1 /\ Pow[position] <= Halves
      /\ i * Pow[position + 1] <= Halves /\ Halves < (i + 1) * Pow[position + 1]
  BY <1>2 DEF Halved
<1>4. /\ Bits \in Nat \ {0} /\ position \in 0 .. 2 * Bits /\ position + 1 \in 0 .. 2 * Bits
      /\ position + 1 \in 1 .. 2 * Bits /\ Bits - 1 \in 0 .. 2 * Bits
  BY <1>3, ContainersAssumption
<1>5. /\ Pow[position + 1] \in Nat \ {0} /\ Pow[Bits - 1] \in Nat
  BY <1>4, PowType
<1>6. Halves \in Nat /\ Halves < Pow[Bits - 1]
  <2>1. high <=> Less \div Span2 # 0
    BY <1>2 DEF Halved
  <2>2. QED BY <1>1, <2>1, ArgsAre DEF Halves
<1>7. Pow[position + 1] <= Halves
  <2>1. 1 * Pow[position + 1] <= i * Pow[position + 1]
    BY <1>2, <1>5, Products
  <2>2. i * Pow[position + 1] \in Nat
    BY <1>2, <1>5, Products
  <2>3. QED BY <1>3, <1>5, <1>6, <2>1, <2>2
<1>8. position + 1 < Bits - 1
  <2>1. SUFFICES ASSUME Bits - 1 <= position + 1 PROVE FALSE
    BY <1>3, <1>4
  <2>2. Pow[Bits - 1] <= Pow[position + 1]
    <3>1. CASE Bits - 1 = position + 1
      BY <1>5, <3>1
    <3>2. CASE Bits - 1 < position + 1
      <4>1. 2 * Pow[Bits - 1] <= Pow[position + 1]
        BY <1>4, <3>2, PowGrows
      <4>2. QED BY <1>5, <4>1
    <3>3. QED BY <1>4, <2>1, <3>1, <3>2
  <2>3. QED BY <1>5, <1>6, <1>7, <2>2
<1>9. position' = position + 1 /\ position' \in 0 .. Bits - 1 /\ position' # -1
  BY <1>1, <1>3, <1>4, <1>8 DEF Alloc!MaxPosition
<1>10. Halves' = Halves /\ Less' = Less
  BY <1>1 DEF Halves, Less
<1>11. /\ (position + 1) + 1 \in 1 .. 2 * Bits
       /\ Pow[(position + 1) + 1] = 2 * Pow[position + 1]
       /\ Pow[(position + 1) + 1] \in Nat
  BY <1>4, <1>5, <1>8, PowIs
<1>12. i' \in Nat /\ i' * 2 <= i /\ i < (i' + 1) * 2 /\ i + 1 <= (i' + 1) * 2
  BY <1>1, <1>2, HalfIs
<1> DEFINE p == Pow[position + 1]
           q == Pow[(position + 1) + 1]
<1>13. i' * q <= Halves
  <2>1. (i' * 2) * p <= i * p
    BY <1>2, <1>5, <1>12, Products
  <2>2. (2 * i') * p = 2 * (i' * p) /\ (2 * p) * i' = 2 * (p * i') /\ p * i' = i' * p
        /\ (2 * p) * i' = i' * (2 * p)
    BY <1>5, <1>12, Products
  <2>3. i * p \in Nat /\ i' * p \in Nat /\ i' * 2 = 2 * i'
    BY <1>2, <1>5, <1>12, Products
  <2> HIDE DEF p, q
  <2>4. i' * (2 * p) <= i * p
    BY <2>1, <2>2, <2>3
  <2>5. q = 2 * p /\ i * p <= Halves
    BY <1>3, <1>11 DEF p, q
  <2>6. QED BY <1>6, <2>2, <2>3, <2>4, <2>5
<1>14. Halves < (i' + 1) * q
  <2>1. i' + 1 \in Nat /\ i + 1 \in Nat
    <3>1. PICK j : j = i'
      OBVIOUS
    <3>2. i \in Nat /\ j \in Nat
      BY <1>2, <1>12, <3>1
    <3>3. i + 1 \in Nat /\ j + 1 \in Nat
      BY <3>2
    <3>4. QED BY <3>1, <3>3
  <2>2. (i + 1) * p <= ((i' + 1) * 2) * p
    BY <1>5, <1>12, <2>1, Products
  <2>3. (2 * (i' + 1)) * p = 2 * ((i' + 1) * p) /\ (2 * p) * (i' + 1) = 2 * (p * (i' + 1))
        /\ p * (i' + 1) = (i' + 1) * p /\ (2 * p) * (i' + 1) = (i' + 1) * (2 * p)
    BY <1>5, <2>1, Products
  <2>4. (i + 1) * p \in Nat /\ (i' + 1) * p \in Nat /\ (i' + 1) * 2 = 2 * (i' + 1)
    BY <1>5, <2>1, Products
  <2> HIDE DEF p, q
  <2>5. (i + 1) * p <= (i' + 1) * (2 * p)
    BY <2>2, <2>3, <2>4
  <2>6. q = 2 * p /\ Halves < (i + 1) * p
    BY <1>3, <1>11 DEF p, q
  <2>7. QED BY <1>6, <2>3, <2>4, <2>5, <2>6
<1>15. Halved'
  <2>1. high' <=> Less' \div Span2 # 0
    BY <1>1, <1>2, <1>10 DEF Halved
  <2>2. Pow[position'] <= Halves'
    BY <1>7, <1>9, <1>10
  <2>3. i' * Pow[position' + 1] <= Halves' /\ Halves' < (i' + 1) * Pow[position' + 1]
    BY <1>9, <1>10, <1>13, <1>14
  <2>4. QED BY <1>9, <1>12, <2>1, <2>2, <2>3 DEF Halved, Pow
<1>16. QED BY <1>1, <1>2, <1>15 DEF AllocInv

\* The power that the loop has found is the least that is not below asked.
LEMMA FoundIs ==
  ASSUME AllocInv, pc = "loop", i = 0, NEW a, a = position + 1 + (IF high THEN Bits ELSE 0)
  PROVE  /\ a \in 0 .. 2 * Bits - 1 /\ asked <= Pow[a]
         /\ \A k \in 0 .. 2 * Bits - 1 : Pow[k] < Pow[a] => Pow[k] < asked
         /\ ~direct => Pow[a] < Span2
<1>1. Halved /\ Bits \in Nat \ {0}
  BY ContainersAssumption DEF AllocInv
<1>2. /\ asked = Less + 1 /\ Less \in Nat /\ Less \div Span2 \in Nat
      /\ Halves < Pow[Bits - 1] /\ Halves \in Nat /\ (~direct => asked < Span2)
  <2>1. high <=> Less \div Span2 # 0
    BY <1>1 DEF Halved
  <2>2. QED BY <2>1, ArgsAre DEF Halves
<1> DEFINE c == position + 1
<1>3. c \in 0 .. Bits /\ c \in 0 .. 2 * Bits /\ position \in Int
  BY <1>1 DEF Halved
<1>4. Pow[c] \in Nat \ {0}
  BY <1>3, PowType
<1>5. Halves < Pow[c]
  <2>1. CASE position = -1
    <3>1. Halves = 0 /\ c = 0
      BY <1>1, <2>1 DEF Halved
    <3>2. QED BY <1>4, <3>1
  <2>2. CASE position # -1
    <3>1. Halves < (0 + 1) * Pow[position + 1]
      BY <1>1, <2>2 DEF Halved
    <3>2. QED BY <1>4, <3>1
  <2>3. QED BY <2>1, <2>2
<1>6. \A k \in 0 .. c - 1 : Pow[k] <= Halves
  <2>1. SUFFICES ASSUME NEW k \in 0 .. c - 1
                 PROVE  Pow[k] <= Halves
    OBVIOUS
  <2>2. position # -1 /\ position \in 0 .. 2 * Bits /\ k \in 0 .. 2 * Bits /\ k <= position
    BY <1>1, <1>3, <2>1
  <2>3. Pow[position] <= Halves /\ Pow[position] \in Nat /\ Pow[k] \in Nat
    BY <1>1, <2>2, PowType DEF Halved
  <2>4. CASE k = position
    BY <2>3, <2>4
  <2>5. CASE k < position
    <3>1. 2 * Pow[k] <= Pow[position]
      BY <2>2, <2>5, PowGrows
    <3>2. QED BY <1>2, <2>3, <3>1
  <2>6. QED BY <2>2, <2>4, <2>5
<1>7. c < Bits
  <2>1. SUFFICES ASSUME c = Bits PROVE FALSE
    BY <1>1, <1>3
  <2>2. Bits - 1 \in 0 .. c - 1
    BY <1>1, <2>1
  <2>3. Pow[Bits - 1] <= Halves /\ Pow[Bits - 1] \in Nat
    BY <1>6, <2>2, SpansAre
  <2>4. QED BY <1>2, <2>3
<1>8. \A j, k \in 0 .. 2 * Bits : Pow[j] < Pow[k] => j < k
  <2>1. SUFFICES ASSUME NEW j \in 0 .. 2 * Bits, NEW k \in 0 .. 2 * Bits, k <= j
                 PROVE  ~(Pow[j] < Pow[k])
    BY <1>1
  <2>2. Pow[j] \in Nat /\ Pow[k] \in Nat
    BY PowType
  <2>3. CASE j = k
    BY <2>2, <2>3
  <2>4. CASE k < j
    <3>1. 2 * Pow[k] <= Pow[j]
      BY <2>4, PowGrows
    <3>2. QED BY <2>2, <3>1
  <2>5. QED BY <2>1, <2>3, <2>4
<1>9. CASE ~high
  <2>1. a = c /\ Halves = Less
    BY <1>3, <1>9 DEF Halves
  <2>2. a \in 0 .. 2 * Bits - 1 /\ asked <= Pow[a]
    BY <1>1, <1>2, <1>3, <1>4, <1>5, <1>7, <2>1
  <2>3. ASSUME NEW k \in 0 .. 2 * Bits - 1, Pow[k] < Pow[a]
        PROVE  Pow[k] < asked
    <3>1. k \in 0 .. 2 * Bits /\ a \in 0 .. 2 * Bits
      BY <1>1, <2>2, <2>3
    <3>2. k < a
      BY <1>8, <2>3, <3>1
    <3>3. k \in 0 .. c - 1
      BY <2>1, <2>2, <3>2
    <3>4. Pow[k] <= Less /\ Pow[k] \in Nat
      BY <1>6, <2>1, <3>1, <3>3, PowType
    <3>5. QED BY <1>2, <3>4
  <2>4. Pow[a] < Span2
    <3>1. Bits \in 0 .. 2 * Bits
      BY <1>1
    <3>2. 2 * Pow[c] <= Pow[Bits]
      BY <1>3, <1>7, <3>1, PowGrows
    <3>3. QED BY <1>4, <2>1, <3>2, SpansAre
  <2>5. QED BY <2>2, <2>3, <2>4
<1>10. CASE high
  <2>1. a = c + Bits /\ Halves = Less \div Span2 /\ Less \div Span2 # 0
    BY <1>1, <1>3, <1>10 DEF Halves, Halved
  <2>2. Span2 \in Nat \ {0} /\ Span2 = Pow[Bits]
    BY SpansAre
  <2>3. Less = Halves * Span2 + (Less % Span2) /\ Less % Span2 \in 0 .. Span2 - 1
    BY <1>2, <2>1, <2>2, Division
  <2>4. a \in 0 .. 2 * Bits - 1 /\ a \in 0 .. 2 * Bits
    BY <1>1, <1>3, <1>7, <2>1
  <2>5. Pow[a] = Pow[c] * Span2
    BY <1>3, <2>1, <2>2, PowSum
  <2>6. /\ (Halves + 1) * Span2 <= Pow[c] * Span2 /\ (Halves + 1) * Span2 = Halves * Span2 + Span2
        /\ Halves * Span2 \in Nat /\ Pow[c] * Span2 \in Nat
    <3>1. Halves + 1 \in Nat /\ Halves + 1 <= Pow[c]
      BY <1>2, <1>4, <1>5
    <3>2. QED BY <1>2, <1>4, <2>2, <3>1, Products
  <2>7. asked <= Pow[a]
    BY <1>2, <2>2, <2>3, <2>5, <2>6
  <2>8. ASSUME NEW k \in 0 .. 2 * Bits - 1, Pow[k] < Pow[a]
        PROVE  Pow[k] < asked
    <3>1. k \in 0 .. 2 * Bits
      BY <1>1, <2>8
    <3>2. k < a
      BY <1>8, <2>4, <2>8, <3>1
    <3>3. Pow[k] \in Nat
      BY <3>1, PowType
    <3>4. CASE k < Bits
      <4>1. Bits \in 0 .. 2 * Bits
        BY <1>1
      <4>2. 2 * Pow[k] <= Span2
        BY <2>2, <3>1, <3>4, <4>1, PowGrows
      <4>3. 1 * Span2 <= Halves * Span2
        BY <1>2, <2>1, <2>2, Products
      <4>4. QED BY <1>2, <2>2, <2>3, <2>6, <3>3, <4>2, <4>3
    <3>5. CASE Bits <= k
      <4>1. k - Bits \in 0 .. c - 1 /\ k - Bits \in 0 .. Bits /\ (k - Bits) + Bits = k
            /\ k - Bits \in 0 .. 2 * Bits
        BY <1>1, <1>3, <2>1, <2>4, <3>1, <3>2, <3>5
      <4>2. Pow[k] = Pow[k - Bits] * Span2 /\ Pow[k - Bits] <= Halves /\ Pow[k - Bits] \in Nat
        BY <1>6, <2>2, <4>1, PowSum, PowType
      <4>3. Pow[k - Bits] * Span2 <= Halves * Span2
        BY <1>2, <2>2, <4>2, Products
      <4>4. QED BY <1>2, <2>2, <2>3, <2>6, <3>3, <4>2, <4>3
    <3>6. QED BY <1>1, <3>1, <3>4, <3>5
  <2>9. direct
    <3>1. SUFFICES ASSUME ~direct PROVE FALSE
      OBVIOUS
    <3>2. Less < Span2
      BY <1>2, <2>2, <3>1
    <3>3. 1 * Span2 <= Halves * Span2
      BY <1>2, <2>1, <2>2, Products
    <3>4. QED BY <1>2, <2>2, <2>3, <2>6, <3>2, <3>3
  <2>10. QED BY <2>4, <2>7, <2>8, <2>9
<1>11. QED BY <1>9, <1>10

\* A power of two rounds up to itself.
LEMMA PowerIsRound ==
  ASSUME NEW r, Alloc!IsPowerOf2(r)
  PROVE  /\ \E k \in 0 .. 2 * Bits - 1 : r = Pow[k]
         /\ r \in Nat
<1>1. PICK k \in 0 .. 2 * Bits - 1 : r = Pow[k]
  BY DEF Alloc!IsPowerOf2, Alloc!PowersOfTwo, Pow
<1>2. k \in 0 .. 2 * Bits
  BY ContainersAssumption
<1>3. QED BY <1>1, <1>2, PowType

LEMMA AllocKeeps ==
  ASSUME AllocInv, Alloc!Next
  PROVE  AllocInv'
<1>1. CASE \E r \in RoundArgs : Alloc!Round(r)
  <2>1. /\ asked' \in RoundArgs /\ direct' = TRUE /\ ok' = FALSE /\ memory' = {}
        /\ Alloc!StartRound(asked') /\ pc' = "loop"
    BY <1>1 DEF Alloc!Round, Alloc!StartRound
  <2>2. asked' \in Args' /\ direct' \in BOOLEAN /\ ok' \in BOOLEAN
    BY <2>1 DEF Args
  <2>3. QED BY <2>1, <2>2, StartKeeps
<1>2. CASE \E r \in AllocArgs : Alloc!Alloc(r)
  <2>1. PICK r \in AllocArgs : Alloc!Alloc(r)
    BY <1>2
  <2>2. asked' = r /\ direct' = FALSE /\ ok' = FALSE /\ memory' = {}
    BY <2>1 DEF Alloc!Alloc
  <2>3. asked' \in Args' /\ direct' \in BOOLEAN /\ ok' \in BOOLEAN
    BY <2>1, <2>2 DEF Args
  <2>4. CASE Alloc!IsPowerOf2(r)
    <3>1. pc' = "malloc" /\ size' = r /\ high' = high
      BY <2>1, <2>4 DEF Alloc!Alloc
    <3>2. \E k \in 0 .. 2 * Bits - 1 : size' = Pow[k]
      BY <2>4, <3>1, PowerIsRound
    <3>3. asked' <= size'
      BY <2>2, <2>4, <3>1, PowerIsRound
    <3>4. \A k \in 0 .. 2 * Bits - 1 : Pow[k] < size' => Pow[k] < asked'
      BY <2>2, <3>1
    <3>5. Rounds'
      BY <3>2, <3>3, <3>4 DEF Rounds, Pow
    <3>6. QED BY <2>2, <2>3, <3>1, <3>5 DEF AllocInv
  <2>5. CASE ~Alloc!IsPowerOf2(r)
    <3>1. Alloc!StartRound(asked') /\ pc' = "loop"
      BY <2>1, <2>2, <2>5 DEF Alloc!Alloc, Alloc!StartRound
    <3>2. QED BY <2>2, <2>3, <3>1, StartKeeps
  <2>6. QED BY <2>4, <2>5
<1>3. CASE Alloc!Shift
  BY <1>3, ShiftKeeps
<1>4. CASE Alloc!Rounded
  <2>1. PICK a : a = position + 1 + (IF high THEN Bits ELSE 0)
    OBVIOUS
  <2>2. /\ pc = "loop" /\ i = 0 /\ asked' = asked /\ direct' = direct /\ high' = high
        /\ memory' = memory /\ size' = (IF direct THEN Alloc!Pow2[a] ELSE Alloc!Pow2[a] % Alloc!IntSpan)
        /\ pc' = (IF direct THEN "done" ELSE "malloc") /\ ok' = direct
    BY <1>4, <2>1 DEF Alloc!Rounded
  <2>3. /\ a \in 0 .. 2 * Bits - 1 /\ asked <= Pow[a]
        /\ \A k \in 0 .. 2 * Bits - 1 : Pow[k] < Pow[a] => Pow[k] < asked
        /\ ~direct => Pow[a] < Span2
    BY <2>1, <2>2, FoundIs
  <2>4. Pow[a] \in Nat /\ Span2 \in Nat \ {0}
    <3>1. a \in 0 .. 2 * Bits
      BY <2>3, ContainersAssumption
    <3>2. QED BY <3>1, PowType, SpansAre
  <2>5. size' = Pow[a]
    <3>1. ~direct => Pow[a] % Span2 = Pow[a]
      BY <2>3, <2>4
    <3>2. QED BY <2>2, <3>1 DEF Pow, Span2
  <2>6. Rounds'
    BY <2>2, <2>3, <2>5 DEF Rounds, Pow
  <2>7. direct \in BOOLEAN /\ ok' \in BOOLEAN /\ memory = {} /\ asked' \in Args'
    BY <2>2 DEF AllocInv, Args
  <2>8. QED BY <2>2, <2>6, <2>7 DEF AllocInv
<1>5. CASE Alloc!Malloc
  <2>1. Rounds' <=> Rounds
    BY <1>5 DEF Alloc!Malloc, Rounds, Pow
  <2>2. Args' = Args
    BY <1>5 DEF Alloc!Malloc, Args
  <2>3. QED BY <1>5, <2>1, <2>2 DEF Alloc!Malloc, AllocInv
<1>6. CASE Alloc!QueueInit
  <2>1. Rounds' <=> Rounds
    BY <1>6 DEF Alloc!QueueInit, Rounds, Pow
  <2>2. Args' = Args
    BY <1>6 DEF Alloc!QueueInit, Args
  <2>3. memory' = {} \/ memory' = {"buffer", "queue"}
    BY <1>6 DEF Alloc!QueueInit, Alloc!GiveBack, AllocInv
  <2>4. QED BY <1>6, <2>1, <2>2, <2>3 DEF Alloc!QueueInit, AllocInv
<1>7. CASE Alloc!Return
  BY <1>7 DEF Alloc!Return, AllocInv
<1>8. CASE Alloc!Free
  BY <1>8 DEF Alloc!Free, AllocInv
<1>9. QED BY <1>1, <1>2, <1>3, <1>4, <1>5, <1>6, <1>7, <1>8 DEF Alloc!Next, Alloc!Call, Alloc!Inside

LEMMA AllocSafe ==
  ASSUME AllocInv
  PROVE  Alloc!Allocates
<1>1. Alloc!RoundsUp
  <2>1. pc = "loop" => position < Bits
    BY ContainersAssumption DEF AllocInv, Halved
  <2>2. ASSUME Rounds
        PROVE  /\ size \in Alloc!PowersOfTwo /\ asked <= size
               /\ \A p \in Alloc!PowersOfTwo : p < size => p < asked
    BY <2>2 DEF Rounds, Alloc!PowersOfTwo, Pow
  <2>3. QED BY <2>1, <2>2 DEF AllocInv, Alloc!RoundsUp
<1>2. Alloc!BothOrNone
  BY DEF AllocInv, Alloc!BothOrNone
<1>3. QED BY <1>1, <1>2 DEF Alloc!Allocates

----------------------------------------------------------------------------
(* The growing array.                                                       *)

Any == CHOOSE e \in Item : TRUE

Holding(V) == [nelem : Nat, nalloc : Nat, block : Seq(V)]

Fits(a) == a.nelem <= a.nalloc /\ a.nalloc <= Len(a.block)

\* What is sorted comes back as it is; V is whatever the memory holds by now.
HoldsIn(V) ==
  /\ Item \cup {Any} \subseteq V
  /\ array \in [Array!Arrays -> Holding(V)]

\* The count and the room of each array, and what array_each has read.
ArrayInv ==
  /\ \E V : HoldsIn(V)
  /\ \A x \in Array!Arrays : Fits(array[x])
  /\ array["a"].nelem + array["b"].nelem <= MaxElems
  /\ there \subseteq Array!Arrays /\ \A x \in there : array[x].nalloc > 0
  /\ \A x \in Array!Arrays : x \notin there => array[x] = Array!NoArray
  /\ each.of # "none" => /\ each.of \in there /\ each.nelem \in Nat \ {0}
                         /\ each.nelem <= array[each.of].nelem

LEMMA ArraySafe ==
  ASSUME ArrayInv
  PROVE  Array!InRoom
<1>1. PICK V : HoldsIn(V)
  BY DEF ArrayInv
<1>2. SUFFICES ASSUME NEW x \in there
               PROVE  /\ array[x].nelem <= Len(array[x].block)
                      /\ each.of = x => each.nelem <= array[x].nelem
                      /\ \A j \in 0 .. array[x].nelem - 1 : Array!Idx(j) = j
  BY DEF Array!InRoom
<1>3. /\ x \in Array!Arrays /\ array[x] \in Holding(V) /\ Fits(array[x]) /\ x # "none"
      /\ array["a"] \in Holding(V) /\ array["b"] \in Holding(V)
  BY <1>1, <1>2 DEF ArrayInv, HoldsIn, Array!Arrays
<1>4. array[x].nelem \in Nat /\ array[x].nalloc \in Nat /\ Len(array[x].block) \in Nat
  BY <1>3 DEF Holding
<1>5. array[x].nelem <= Len(array[x].block)
  BY <1>3, <1>4 DEF Fits
<1>6. array[x].nelem <= MaxElems
  <2>1. array["a"].nelem \in Nat /\ array["b"].nelem \in Nat
    BY <1>3 DEF Holding
  <2>2. array["a"].nelem + array["b"].nelem <= MaxElems /\ MaxElems \in Nat
    BY ContainersAssumption DEF ArrayInv
  <2>3. array["a"].nelem <= MaxElems /\ array["b"].nelem <= MaxElems
    BY <2>1, <2>2
  <2>4. QED BY <1>3, <2>3 DEF Array!Arrays
<1>7. ASSUME NEW j \in 0 .. array[x].nelem - 1
      PROVE  Array!Idx(j) = j
  <2>1. j \in Nat /\ j + 1 <= MaxElems
    BY <1>4, <1>6, <1>7, ContainersAssumption
  <2>2. ElemSize \in Nat \ {0} /\ Array!Span \in Nat /\ MaxElems \in Nat
        /\ ElemSize * MaxElems <= Array!Span
    BY ContainersAssumption
  <2>3. /\ (j + 1) * ElemSize <= MaxElems * ElemSize /\ MaxElems * ElemSize = ElemSize * MaxElems
        /\ (j + 1) * ElemSize = j * ElemSize + ElemSize /\ j * ElemSize = ElemSize * j
        /\ j * ElemSize \in Nat /\ ElemSize * MaxElems \in Nat
    <3>1. j + 1 \in Nat
      BY <2>1
    <3>2. QED BY <2>1, <2>2, <3>1, Products
  <2>4. ElemSize * j \in Nat /\ ElemSize * j < Array!Span
    BY <2>2, <2>3
  <2>5. Array!Offset(j) = ElemSize * j
    BY <2>2, <2>4 DEF Array!Offset
  <2>6. (ElemSize * j) \div ElemSize = j
    <3>1. PICK d : d = (ElemSize * j) \div ElemSize
      OBVIOUS
    <3>2. PICK r : r = (ElemSize * j) % ElemSize
      OBVIOUS
    <3>3. d \in Nat /\ r \in 0 .. ElemSize - 1 /\ ElemSize * j = d * ElemSize + r
      BY <2>2, <2>4, <3>1, <3>2, Division
    <3>4. d <= j
      <4>1. SUFFICES ASSUME j + 1 <= d PROVE FALSE
        BY <2>1, <3>3
      <4>2. (j + 1) * ElemSize <= d * ElemSize /\ d * ElemSize \in Nat
        BY <2>1, <2>2, <3>3, <4>1, Products
      <4>3. QED BY <2>2, <2>3, <3>3, <4>2
    <3>5. j <= d
      <4>1. SUFFICES ASSUME d + 1 <= j PROVE FALSE
        BY <2>1, <3>3
      <4>2. (d + 1) * ElemSize <= j * ElemSize /\ (d + 1) * ElemSize = d * ElemSize + ElemSize
            /\ d * ElemSize \in Nat
        BY <2>1, <2>2, <3>3, <4>1, Products
      <4>3. QED BY <2>2, <2>3, <3>3, <4>2
    <3>6. QED BY <2>1, <3>1, <3>3, <3>4, <3>5
  <2>7. QED BY <2>5, <2>6 DEF Array!Idx
<1>8. QED BY <1>3, <1>5, <1>7 DEF ArrayInv

LEMMA ChangedIs ==
  ASSUME NEW V, NEW s \in Seq(V), NEW j, NEW e \in V
  PROVE  [s EXCEPT ![j] = e] \in Seq(V) /\ Len([s EXCEPT ![j] = e]) = Len(s)
<1>1. Len(s) \in Nat /\ s \in [1 .. Len(s) -> V]
  OBVIOUS
<1>2. PICK t : t = [s EXCEPT ![j] = e]
  OBVIOUS
<1>3. t \in [1 .. Len(s) -> V]
  BY <1>1, <1>2
<1>4. t \in Seq(V) /\ Len(t) = Len(s)
  BY <1>1, <1>3
<1>5. QED BY <1>2, <1>4

\* An element stored in an array that has room for it.
LEMMA StoreFits ==
  ASSUME NEW V, NEW a \in Holding(V), NEW e \in V, Fits(a), a.nelem < a.nalloc, a.nelem < MaxElems
  PROVE  /\ Array!Store(a, e) \in Holding(V) /\ Fits(Array!Store(a, e))
         /\ Array!Store(a, e).nelem = a.nelem + 1
<1>1. /\ a.nelem \in Nat /\ a.nalloc \in Nat /\ a.block \in Seq(V)
      /\ a = [nelem |-> a.nelem, nalloc |-> a.nalloc, block |-> a.block]
  BY DEF Holding
<1>2. (a.nelem + 1) % Array!Span = a.nelem + 1
  <2>1. a.nelem + 1 \in Nat /\ a.nelem + 1 < Array!Span
    BY <1>1, ContainersAssumption
  <2>2. QED BY <2>1, ContainersAssumption
<1> DEFINE b == [a.block EXCEPT ![a.nelem + 1] = e]
<1>3. b \in Seq(V) /\ Len(b) = Len(a.block)
  BY <1>1, ChangedIs
<1>4. Array!Store(a, e) = [nelem |-> a.nelem + 1, nalloc |-> a.nalloc, block |-> b]
  <2>1. Array!Store(a, e) = [a EXCEPT !.block = b, !.nelem = a.nelem + 1]
    BY <1>2 DEF Array!Store
  <2> HIDE DEF b
  <2>2. QED BY <1>1, <2>1 DEF Holding
<1> HIDE DEF b
<1>5. a.nelem + 1 \in Nat /\ a.nelem + 1 <= a.nalloc /\ a.nalloc <= Len(b)
  BY <1>1, <1>3 DEF Fits
<1>6. QED BY <1>1, <1>3, <1>4, <1>5 DEF Holding, Fits

\* A full array has twice the room afterwards, and keeps what it held.
LEMMA GrownFits ==
  ASSUME NEW V, Item \cup {Any} \subseteq V, NEW a \in Holding(V), Fits(a),
         a.nelem = a.nalloc, a.nelem < MaxElems, a.nalloc > 0
  PROVE  /\ Array!Grown(a) \in Holding(V) /\ Fits(Array!Grown(a))
         /\ Array!Grown(a).nelem = a.nelem /\ a.nelem < Array!Grown(a).nalloc
<1>1. /\ a.nelem \in Nat /\ a.nalloc \in Nat /\ a.block \in Seq(V)
      /\ a = [nelem |-> a.nelem, nalloc |-> a.nalloc, block |-> a.block]
  BY DEF Holding
<1>2. 2 * a.nalloc \in Nat /\ (2 * a.nalloc) % Array!Span = 2 * a.nalloc
  <2>1. 2 * a.nalloc \in Nat /\ 2 * a.nalloc < Array!Span
    BY <1>1, ContainersAssumption
  <2>2. QED BY <2>1, ContainersAssumption
<1>3. Array!Unset(1)[1] = Any
  BY DEF Array!Unset, Any
<1> DEFINE b == [j \in 1 .. 2 * a.nalloc |->
                   IF j <= Len(a.block) THEN a.block[j] ELSE Array!Unset(1)[1]]
<1>4. b \in Seq(V) /\ Len(b) = 2 * a.nalloc
  <2>1. \A j \in 1 .. 2 * a.nalloc : b[j] \in V
    <3>1. SUFFICES ASSUME NEW j \in 1 .. 2 * a.nalloc
                   PROVE  b[j] \in V
      OBVIOUS
    <3>2. CASE j <= Len(a.block)
      <4>1. j \in 1 .. Len(a.block)
        BY <1>1, <1>2, <3>1, <3>2
      <4>2. a.block[j] \in V
        BY <1>1, <4>1
      <4>3. QED BY <3>2, <4>2
    <3>3. CASE ~(j <= Len(a.block))
      BY <1>3, <3>3
    <3>4. QED BY <3>2, <3>3
  <2>2. b \in [1 .. 2 * a.nalloc -> V]
    BY <2>1
  <2> HIDE DEF b
  <2>3. QED BY <1>2, <2>2
<1>5. Array!Grown(a) = [nelem |-> a.nelem, nalloc |-> 2 * a.nalloc, block |-> b]
  <2>1. Array!Grown(a) = [a EXCEPT !.block = b, !.nalloc = 2 * a.nalloc]
    BY <1>2 DEF Array!Grown
  <2> HIDE DEF b
  <2>2. QED BY <1>1, <2>1 DEF Holding
<1> HIDE DEF b
<1>6. a.nelem <= 2 * a.nalloc /\ 2 * a.nalloc <= Len(b) /\ a.nelem < 2 * a.nalloc
  BY <1>1, <1>2, <1>4
<1>7. QED BY <1>1, <1>2, <1>4, <1>5, <1>6 DEF Holding, Fits

\* What an array is made of; and another block, or one element less.
LEMMA HoldingIs ==
  ASSUME NEW V, NEW c \in Holding(V)
  PROVE  /\ c.nelem \in Nat /\ c.nalloc \in Nat /\ c.block \in Seq(V) /\ Len(c.block) \in Nat
         /\ DOMAIN c.block = 1 .. Len(c.block)
         /\ \A j \in 1 .. Len(c.block) : c.block[j] \in V
<1>1. c.nelem \in Nat /\ c.nalloc \in Nat /\ c.block \in Seq(V)
  BY DEF Holding
<1>2. \A t \in Seq(V) : /\ Len(t) \in Nat /\ DOMAIN t = 1 .. Len(t)
                        /\ \A j \in 1 .. Len(t) : t[j] \in V
  OBVIOUS
<1>3. QED BY <1>1, <1>2

LEMMA WithBlock ==
  ASSUME NEW V, NEW c \in Holding(V), Fits(c), NEW U, NEW b \in Seq(U), Len(b) = Len(c.block),
         NEW a, a = [c EXCEPT !.block = b]
  PROVE  a \in Holding(U) /\ Fits(a) /\ a.nelem = c.nelem /\ a.nalloc = c.nalloc
<1>1. a = [nelem |-> c.nelem, nalloc |-> c.nalloc, block |-> b]
  BY DEF Holding
<1>2. c.nelem \in Nat /\ c.nalloc \in Nat
  BY HoldingIs
<1>3. a \in Holding(U) /\ a.nelem = c.nelem /\ a.nalloc = c.nalloc /\ a.block = b
  BY <1>1, <1>2 DEF Holding
<1>4. QED BY <1>3 DEF Fits

LEMMA WithOneLess ==
  ASSUME NEW V, NEW c \in Holding(V), Fits(c), c.nelem # 0,
         NEW a, a = [c EXCEPT !.nelem = c.nelem - 1]
  PROVE  a \in Holding(V) /\ Fits(a) /\ a.nelem = c.nelem - 1 /\ a.nalloc = c.nalloc
<1>1. a = [nelem |-> c.nelem - 1, nalloc |-> c.nalloc, block |-> c.block]
  BY DEF Holding
<1>2. c.nelem \in Nat /\ c.nalloc \in Nat /\ c.block \in Seq(V)
  BY HoldingIs
<1>3. a.nelem = c.nelem - 1 /\ a.nalloc = c.nalloc /\ a.block = c.block
  BY <1>1
<1>4. c.nelem - 1 \in Nat /\ c.nelem - 1 <= c.nalloc
  BY <1>2 DEF Fits
<1>5. a \in Holding(V)
  BY <1>1, <1>2, <1>4 DEF Holding
<1>6. QED BY <1>3, <1>4, <1>5 DEF Fits

\* Both arrays, one of which is changed.
LEMMA ArrayChanges ==
  ASSUME ArrayInv, NEW x \in there, NEW V, NEW a \in Holding(V), Item \cup {Any} \subseteq V,
         \E U : HoldsIn(U) /\ U \subseteq V,
         array' = [array EXCEPT ![x] = a], there' = there, Fits(a), a.nalloc > 0,
         \/ a.nelem = array[x].nelem
         \/ /\ a.nelem = array[x].nelem + 1
            /\ array["a"].nelem + array["b"].nelem < MaxElems
         \/ a.nelem = array[x].nelem - 1 /\ each.of = "none",
         each'.of # "none" =>
           \/ each' = each
           \/ each'.of = each.of /\ each'.nelem = each.nelem
  PROVE  ArrayInv'
<1>1. PICK U : HoldsIn(U) /\ U \subseteq V
  OBVIOUS
<1>2. /\ x \in Array!Arrays /\ array[x] \in Holding(U) /\ x # "none"
      /\ array["a"] \in Holding(U) /\ array["b"] \in Holding(U)
      /\ \A y \in Array!Arrays : array[y] \in Holding(U)
      /\ array \in [Array!Arrays -> Holding(U)]
  BY <1>1 DEF ArrayInv, HoldsIn, Array!Arrays
<1>3. Holding(U) \subseteq Holding(V)
  <2>1. Seq(U) \subseteq Seq(V)
    <3>1. SUFFICES ASSUME NEW s \in Seq(U) PROVE s \in Seq(V)
      OBVIOUS
    <3>2. Len(s) \in Nat /\ s \in [1 .. Len(s) -> V]
      BY <1>1
    <3>3. QED BY <3>2
  <2>2. QED BY <2>1 DEF Holding
<1>4. HoldsIn(V)'
  <2>1. array' \in [Array!Arrays -> Holding(V)]
    BY <1>2, <1>3
  <2>2. QED BY <2>1 DEF HoldsIn, Array!Arrays
<1>5. array'[x] = a /\ \A y \in Array!Arrays : y # x => array'[y] = array[y]
  BY <1>2
<1>6. \A y \in Array!Arrays : Fits(array'[y])
  BY <1>5 DEF ArrayInv
<1>7. /\ array["a"].nelem \in Nat /\ array["b"].nelem \in Nat /\ a.nelem \in Nat /\ MaxElems \in Nat
      /\ array["a"].nelem + array["b"].nelem <= MaxElems
  BY <1>2, ContainersAssumption DEF Holding, ArrayInv
<1>8. array'["a"].nelem + array'["b"].nelem <= MaxElems
  <2>1. CASE x = "a"
    <3>1. array'["a"].nelem = a.nelem /\ array'["b"].nelem = array["b"].nelem
      BY <1>5, <2>1 DEF Array!Arrays
    <3>2. a.nelem + array["b"].nelem <= MaxElems
      BY <1>7, <2>1
    <3>3. QED BY <3>1, <3>2
  <2>2. CASE x = "b"
    <3>1. array'["b"].nelem = a.nelem /\ array'["a"].nelem = array["a"].nelem
      BY <1>5, <2>2 DEF Array!Arrays
    <3>2. array["a"].nelem + a.nelem <= MaxElems
      BY <1>7, <2>2
    <3>3. QED BY <3>1, <3>2
  <2>3. QED BY <1>2, <2>1, <2>2 DEF Array!Arrays
<1>9. /\ there' \subseteq Array!Arrays /\ \A y \in there' : array'[y].nalloc > 0
      /\ \A y \in Array!Arrays : y \notin there' => array'[y] = Array!NoArray
  BY <1>5 DEF ArrayInv
<1>10. ASSUME each'.of # "none"
       PROVE  /\ each'.of \in there' /\ each'.nelem \in Nat \ {0}
              /\ each'.nelem <= array'[each'.of].nelem
  <2>1. each'.of = each.of /\ each'.nelem = each.nelem /\ each.of # "none"
    BY <1>10
  <2>2. /\ each.of \in there /\ each.nelem \in Nat \ {0} /\ each.nelem <= array[each.of].nelem
        /\ each.of \in Array!Arrays
    BY <2>1 DEF ArrayInv
  <2>3. each.nelem <= array'[each.of].nelem
    <3>1. CASE each.of = x
      <4>1. array[x].nelem \in Nat /\ (a.nelem = array[x].nelem \/ a.nelem = array[x].nelem + 1)
        BY <1>2, <2>1 DEF Holding
      <4>2. each.nelem <= a.nelem
        BY <1>7, <2>2, <3>1, <4>1
      <4>3. QED BY <1>5, <3>1, <4>2
    <3>2. CASE each.of # x
      BY <1>5, <2>2, <3>2
    <3>3. QED BY <3>1, <3>2
  <2>4. QED BY <2>1, <2>2, <2>3
<1>11. QED BY <1>4, <1>6, <1>8, <1>9, <1>10 DEF ArrayInv

LEMMA ArrayStart == ASSUME Array!NInit PROVE ArrayInv
<1>1. <<>> \in Seq(Item \cup {Any}) /\ Len(<<>>) = 0
  OBVIOUS
<1>2. Array!NoArray \in Holding(Item \cup {Any}) /\ Fits(Array!NoArray) /\ Array!NoArray.nelem = 0
  BY <1>1 DEF Array!NoArray, Holding, Fits
<1>3. HoldsIn(Item \cup {Any})
  BY <1>2 DEF Array!NInit, HoldsIn
<1>4. each.of = "none"
  BY DEF Array!NInit, Array!NoEach
<1>5. array["a"].nelem + array["b"].nelem <= MaxElems
  BY <1>2, ContainersAssumption DEF Array!NInit, Array!Arrays
<1>6. QED BY <1>2, <1>3, <1>4, <1>5 DEF Array!NInit, ArrayInv

LEMMA ArrayKeeps ==
  ASSUME ArrayInv, Array!NNext
  PROVE  ArrayInv'
<1>1. PICK V : HoldsIn(V)
  BY DEF ArrayInv
<1>2. /\ Item \cup {Any} \subseteq V /\ array \in [Array!Arrays -> Holding(V)]
      /\ there \subseteq Array!Arrays /\ "none" \notin Array!Arrays /\ Array!Arrays = {"a", "b"}
  BY <1>1 DEF HoldsIn, ArrayInv, Array!Arrays
<1>3. \A x \in Array!Arrays :
        /\ array[x] \in Holding(V) /\ Fits(array[x])
        /\ array[x].nelem \in Nat /\ array[x].nalloc \in Nat
  BY <1>2, HoldingIs DEF ArrayInv
<1>4. ASSUME NEW x \in Array!Arrays, NEW k \in FirstSizes, Array!Create(x, k)
      PROVE  ArrayInv'
  <2>1. /\ x \notin there /\ there' = there \cup {x} /\ each' = each
        /\ array' = [array EXCEPT ![x] = [nelem |-> 0, nalloc |-> k, block |-> Array!Unset(k)]]
    BY <1>4 DEF Array!Create
  <2>2. k \in Nat \ {0}
    BY <1>4, ContainersAssumption
  <2>3. Array!Unset(k) \in Seq(V) /\ Len(Array!Unset(k)) = k
    <3>1. Array!Unset(k) = [j \in 1 .. k |-> Any]
      BY DEF Array!Unset, Any
    <3>2. QED BY <1>2, <2>2, <3>1
  <2> DEFINE a == [nelem |-> 0, nalloc |-> k, block |-> Array!Unset(k)]
  <2>4. a \in Holding(V) /\ Fits(a) /\ a.nelem = 0 /\ a.nalloc > 0
    BY <2>2, <2>3 DEF Holding, Fits
  <2> HIDE DEF a
  <2>5. array' \in [Array!Arrays -> Holding(V)]
    BY <1>2, <2>1, <2>4 DEF a
  <2>6. array'[x] = a /\ \A y \in Array!Arrays : y # x => array'[y] = array[y]
    BY <1>2, <2>1 DEF a
  <2>7. array[x].nelem = 0
    BY <2>1 DEF ArrayInv, Array!NoArray
  <2>8. \A y \in Array!Arrays : array'[y].nelem = array[y].nelem
    BY <2>4, <2>6, <2>7
  <2>9. \A y \in Array!Arrays : Fits(array'[y])
    BY <1>3, <2>4, <2>6
  <2>10. array'["a"].nelem + array'["b"].nelem <= MaxElems
    BY <1>2, <2>8 DEF ArrayInv
  <2>11. HoldsIn(V)'
    BY <1>2, <2>5 DEF HoldsIn, Array!Arrays
  <2>12. /\ there' \subseteq Array!Arrays /\ \A y \in there' : array'[y].nalloc > 0
         /\ \A y \in Array!Arrays : y \notin there' => array'[y] = Array!NoArray
    BY <1>2, <2>1, <2>4, <2>6 DEF ArrayInv
  <2>13. each'.of # "none" => /\ each'.of \in there' /\ each'.nelem \in Nat \ {0}
                              /\ each'.nelem <= array'[each'.of].nelem
    BY <1>2, <2>1, <2>8 DEF ArrayInv
  <2>14. QED BY <2>9, <2>10, <2>11, <2>12, <2>13 DEF ArrayInv
<1>5. ASSUME NEW x \in Array!Arrays, Array!Destroy(x)
      PROVE  ArrayInv'
  <2>1. /\ x \in there /\ array[x].nelem = 0 /\ there' = there \ {x} /\ each' = each
        /\ array' = [array EXCEPT ![x] = Array!NoArray]
    BY <1>5 DEF Array!Destroy
  <2>2. <<>> \in Seq(V) /\ Len(<<>>) = 0
    OBVIOUS
  <2>3. Array!NoArray \in Holding(V) /\ Fits(Array!NoArray) /\ Array!NoArray.nelem = 0
    BY <2>2 DEF Array!NoArray, Holding, Fits
  <2>4. array' \in [Array!Arrays -> Holding(V)]
    BY <1>2, <2>1, <2>3
  <2>5. array'[x] = Array!NoArray /\ \A y \in Array!Arrays : y # x => array'[y] = array[y]
    BY <1>2, <2>1
  <2>6. \A y \in Array!Arrays : array'[y].nelem = array[y].nelem
    BY <2>1, <2>3, <2>5
  <2>7. \A y \in Array!Arrays : Fits(array'[y])
    BY <1>3, <2>3, <2>5
  <2>8. array'["a"].nelem + array'["b"].nelem <= MaxElems
    BY <1>2, <2>6 DEF ArrayInv
  <2>9. HoldsIn(V)'
    BY <1>2, <2>4 DEF HoldsIn, Array!Arrays
  <2>10. /\ there' \subseteq Array!Arrays /\ \A y \in there' : array'[y].nalloc > 0
         /\ \A y \in Array!Arrays : y \notin there' => array'[y] = Array!NoArray
    BY <1>2, <2>1, <2>5 DEF ArrayInv
  <2>11. ASSUME each'.of # "none"
         PROVE  /\ each'.of \in there' /\ each'.nelem \in Nat \ {0}
                /\ each'.nelem <= array'[each'.of].nelem
    <3>1. /\ each.of \in there /\ each.nelem \in Nat \ {0} /\ each.nelem <= array[each.of].nelem
      BY <2>1, <2>11 DEF ArrayInv
    <3>2. each.of # x
      BY <2>1, <3>1
    <3>3. QED BY <1>2, <2>1, <2>6, <3>1, <3>2
  <2>12. QED BY <2>7, <2>8, <2>9, <2>10, <2>11 DEF ArrayInv
<1>6. ASSUME NEW x \in Array!Arrays, Array!Pop(x)
      PROVE  ArrayInv'
  <2>1. /\ x \in there /\ array[x].nelem # 0 /\ each.of = "none" /\ there' = there /\ each' = each
        /\ array' = [array EXCEPT ![x].nelem = @ - 1]
    BY <1>6 DEF Array!Pop
  <2>2. PICK a : a = [array[x] EXCEPT !.nelem = array[x].nelem - 1]
    OBVIOUS
  <2>3. /\ a \in Holding(V) /\ a.nelem = array[x].nelem - 1 /\ a.nalloc = array[x].nalloc
        /\ Fits(a)
    BY <1>3, <2>1, <2>2, WithOneLess
  <2>4. array' = [array EXCEPT ![x] = a] /\ a.nalloc > 0
    BY <2>1, <2>2, <2>3 DEF ArrayInv
  <2>5. each'.of # "none" => each' = each
    BY <2>1
  <2>6. QED BY <1>1, <1>2, <2>1, <2>3, <2>4, <2>5, ArrayChanges
<1>7. ASSUME NEW x \in Array!Arrays, Array!Sort(x)
      PROVE  ArrayInv'
  <2> DEFINE k == array[x].nelem
  <2>0. PICK s : array' = [array EXCEPT ![x].block =
                             [j \in DOMAIN @ |-> IF j <= k THEN s[j] ELSE @[j]]]
    BY <1>7 DEF Array!Sort
  <2> DEFINE b == [j \in DOMAIN array[x].block |-> IF j <= k THEN s[j] ELSE array[x].block[j]]
             U == V \cup {s[j] : j \in 1 .. k}
  <2>1. /\ x \in there /\ each.of = "none" /\ there' = there /\ each' = each
        /\ array' = [array EXCEPT ![x].block = b]
    BY <1>7, <2>0 DEF Array!Sort
  <2>2. b \in Seq(U) /\ Len(b) = Len(array[x].block)
    <3>1. /\ Len(array[x].block) \in Nat /\ DOMAIN array[x].block = 1 .. Len(array[x].block)
          /\ \A j \in 1 .. Len(array[x].block) : array[x].block[j] \in V
      BY <1>3, HoldingIs
    <3>2. \A j \in 1 .. Len(array[x].block) : b[j] \in U
      <4>1. SUFFICES ASSUME NEW j \in 1 .. Len(array[x].block)
                     PROVE  b[j] \in U
        OBVIOUS
      <4>2. array[x].block[j] \in V
        BY <3>1, <4>1
      <4>3. b[j] = IF j <= k THEN s[j] ELSE array[x].block[j]
        BY <3>1, <4>1
      <4>4. j <= k => j \in 1 .. k
        BY <1>3, <3>1, <4>1
      <4>5. QED BY <4>2, <4>3, <4>4
    <3>3. DOMAIN b = 1 .. Len(array[x].block) /\ b = [j \in DOMAIN b |-> b[j]]
      BY <3>1
    <3> HIDE DEF b, U
    <3>4. b \in [1 .. Len(array[x].block) -> U]
      BY <3>2, <3>3
    <3>5. QED BY <3>1, <3>4
  <2> HIDE DEF b
  <2>3. V \subseteq U /\ Item \cup {Any} \subseteq U
    BY <1>2
  <2> HIDE DEF U
  <2>4. PICK a : a = [array[x] EXCEPT !.block = b]
    OBVIOUS
  <2>5. a \in Holding(U) /\ Fits(a) /\ a.nelem = array[x].nelem /\ a.nalloc = array[x].nalloc
    BY <1>3, <2>2, <2>4, WithBlock
  <2>6. array' = [array EXCEPT ![x] = a] /\ a.nalloc > 0
    BY <2>1, <2>4, <2>5 DEF ArrayInv
  <2>7. each'.of # "none" => each' = each
    BY <2>1
  <2>8. QED BY <1>1, <2>1, <2>3, <2>5, <2>6, <2>7, ArrayChanges
<1>8. ASSUME NEW x \in Array!Arrays, Array!Each(x)
      PROVE  ArrayInv'
  <2>1. /\ x \in there /\ array[x].nelem # 0 /\ array' = array /\ there' = there
        /\ each' = [of |-> x, i |-> 0, nelem |-> array[x].nelem]
    BY <1>8 DEF Array!Each, Array!ReadNelem
  <2>2. each'.of = x /\ each'.nelem = array[x].nelem
    BY <2>1
  <2>3. each'.of \in there' /\ each'.nelem \in Nat \ {0} /\ each'.nelem <= array'[each'.of].nelem
    <3>1. array[x].nelem \in Nat \ {0} /\ array[x].nelem <= array[x].nelem
      BY <1>3, <2>1
    <3>2. QED BY <2>1, <2>2, <3>1
  <2>4. \E U : HoldsIn(U)'
    BY <1>1, <2>1 DEF HoldsIn, Array!Arrays
  <2>5. QED BY <2>1, <2>3, <2>4 DEF ArrayInv, Array!Arrays, Array!NoArray
<1>9. ASSUME NEW x \in Array!Arrays, NEW e \in Item, Array!Push(x, e)
      PROVE  ArrayInv'
  <2>1. /\ x \in there /\ array["a"].nelem + array["b"].nelem < MaxElems
        /\ there' = there /\ each' = each
        /\ array' = [array EXCEPT ![x] = Array!Store(IF array[x].nelem = array[x].nalloc
                                                     THEN Array!Grown(array[x]) ELSE array[x], e)]
    BY <1>9 DEF Array!Push
  <2>2. PICK g : g = IF array[x].nelem = array[x].nalloc THEN Array!Grown(array[x]) ELSE array[x]
    OBVIOUS
  <2>3. array[x].nelem < MaxElems
    <3>1. array["a"].nelem \in Nat /\ array["b"].nelem \in Nat /\ MaxElems \in Nat
      BY <1>2, <1>3, ContainersAssumption
    <3>2. array["a"].nelem < MaxElems /\ array["b"].nelem < MaxElems
      BY <2>1, <3>1
    <3>3. QED BY <1>2, <3>2
  <2>4. array[x].nalloc > 0 /\ Fits(array[x]) /\ array[x] \in Holding(V)
    BY <1>3, <2>1 DEF ArrayInv
  <2>5. g \in Holding(V) /\ Fits(g) /\ g.nelem = array[x].nelem /\ g.nelem < g.nalloc
    <3>1. CASE array[x].nelem = array[x].nalloc
      BY <1>2, <2>2, <2>3, <2>4, <3>1, GrownFits
    <3>2. CASE array[x].nelem # array[x].nalloc
      <4>1. g = array[x] /\ array[x].nelem <= array[x].nalloc
        BY <2>2, <2>4, <3>2 DEF Fits
      <4>2. array[x].nelem < array[x].nalloc
        BY <1>3, <3>2, <4>1
      <4>3. QED BY <2>4, <4>1, <4>2
    <3>3. QED BY <3>1, <3>2
  <2>6. e \in V
    BY <1>2
  <2>7. PICK a : a = Array!Store(g, e)
    OBVIOUS
  <2>8. a \in Holding(V) /\ Fits(a) /\ a.nelem = array[x].nelem + 1
    BY <2>3, <2>5, <2>6, <2>7, StoreFits
  <2>9. a.nalloc > 0
    <3>1. a.nelem <= a.nalloc /\ a.nalloc \in Nat /\ array[x].nelem \in Nat
      BY <1>3, <2>8, HoldingIs DEF Fits
    <3>2. QED BY <2>8, <3>1
  <2>10. array' = [array EXCEPT ![x] = a] /\ (each'.of # "none" => each' = each)
    BY <2>1, <2>2, <2>7
  <2>11. QED BY <1>1, <1>2, <2>1, <2>8, <2>9, <2>10, ArrayChanges
<1>10. ASSUME NEW e \in Item, Array!Func(e)
       PROVE  ArrayInv'
  <2>1. PICK x, j : x = each.of /\ j = each.i + 1
    OBVIOUS
  <2>2. /\ each.of # "none" /\ there' = there
        /\ each' \in {[each EXCEPT !.i = @ + 1], Array!NoEach}
        /\ array' = [array EXCEPT ![x].block[j] = e]
    BY <1>10, <2>1 DEF Array!Func
  <2>3. x \in there /\ x \in Array!Arrays
    BY <2>1, <2>2 DEF ArrayInv
  <2>4. PICK b : b = [array[x].block EXCEPT ![j] = e]
    OBVIOUS
  <2>5. array[x] \in Holding(V) /\ Fits(array[x]) /\ array[x].block \in Seq(V) /\ e \in V
    BY <1>2, <1>3, <2>3, HoldingIs
  <2>6. b \in Seq(V) /\ Len(b) = Len(array[x].block)
    BY <2>4, <2>5, ChangedIs
  <2>7. PICK a : a = [array[x] EXCEPT !.block = b]
    OBVIOUS
  <2>8. /\ a \in Holding(V) /\ Fits(a) /\ a.nelem = array[x].nelem
        /\ a.nalloc = array[x].nalloc /\ a.nalloc > 0
    <3>1. array[x].nalloc > 0
      BY <2>3 DEF ArrayInv
    <3>2. QED BY <2>5, <2>6, <2>7, <3>1, WithBlock
  <2>9. each'.of # "none" => each'.of = each.of /\ each'.nelem = each.nelem
    <3>1. CASE each' = Array!NoEach
      BY <3>1 DEF Array!NoEach
    <3>2. CASE each' = [each EXCEPT !.i = @ + 1]
      BY <3>2
    <3>3. QED BY <2>2, <3>1, <3>2
  <2>10. array' = [array EXCEPT ![x] = a]
    BY <2>2, <2>4, <2>7
  <2>11. QED BY <1>1, <1>2, <2>2, <2>3, <2>8, <2>9, <2>10, ArrayChanges
<1>11. CASE Array!Swap
  <2>1. /\ there = Array!Arrays /\ each.of = "none" /\ there' = there /\ each' = each
        /\ array' = [x \in Array!Arrays |-> array[CHOOSE y \in Array!Arrays : y # x]]
    BY <1>11 DEF Array!Swap
  <2>2. (CHOOSE y \in Array!Arrays : y # "a") = "b" /\ (CHOOSE y \in Array!Arrays : y # "b") = "a"
    BY <1>2
  <2>3. array'["a"] = array["b"] /\ array'["b"] = array["a"]
    BY <1>2, <2>1, <2>2
  <2>4. array' \in [Array!Arrays -> Holding(V)]
    <3>1. \A x \in Array!Arrays : (CHOOSE y \in Array!Arrays : y # x) \in Array!Arrays
      BY <1>2, <2>2
    <3>2. QED BY <1>2, <2>1, <3>1
  <2>5. HoldsIn(V)'
    BY <1>2, <2>4 DEF HoldsIn, Array!Arrays
  <2>6. array'["a"].nelem + array'["b"].nelem <= MaxElems
    <3>1. array["a"].nelem \in Nat /\ array["b"].nelem \in Nat
          /\ array["a"].nelem + array["b"].nelem <= MaxElems /\ MaxElems \in Nat
      BY <1>2, <1>3, ContainersAssumption DEF ArrayInv
    <3>2. array["b"].nelem + array["a"].nelem <= MaxElems
      BY <3>1
    <3>3. QED BY <2>3, <3>2
  <2>7. \A x \in Array!Arrays : Fits(array'[x]) /\ array'[x].nalloc > 0
    BY <1>2, <1>3, <2>1, <2>3 DEF ArrayInv
  <2>8. QED BY <2>1, <2>5, <2>6, <2>7 DEF ArrayInv
<1>12. CASE Array!EachEnds
  <2>1. array' = array /\ there' = there /\ each'.of = "none"
    BY <1>12 DEF Array!EachEnds, Array!NoEach
  <2>2. \E U : HoldsIn(U)'
    BY <1>1, <2>1 DEF HoldsIn, Array!Arrays
  <2>3. QED BY <2>1, <2>2 DEF ArrayInv, Array!Arrays, Array!NoArray
<1>13. QED BY <1>4, <1>5, <1>6, <1>7, <1>8, <1>9, <1>10, <1>11, <1>12 DEF Array!NNext

----------------------------------------------------------------------------
(* The list with a header: the nodes of each list, as a sequence.           *)

Node == AList!Node
Pointer == AList!Pointer
NodeType == [prev : Pointer, next : Pointer, value : Value \cup {0}]
HeaderType == [head : Pointer, tail : Pointer, len : Nat]

\* The place before the first and that after the last is NULL.
At(s, j) == IF j \in 1 .. Len(s) THEN s[j] ELSE 0
OneTime(s) == \A j, k \in 1 .. Len(s) : s[j] = s[k] => j = k
Chain(nd, s) ==
  \A j \in 1 .. Len(s) : nd[s[j]].next = At(s, j + 1) /\ nd[s[j]].prev = At(s, j - 1)
Header(h, s) == h.len = Len(s) /\ h.head = At(s, 1) /\ h.tail = At(s, Len(s))
In(x, s) == \E j \in 1 .. Len(s) : s[j] = x

LEMMA NodeIs ==
  /\ MaxNodes \in Nat /\ Node = 1 .. MaxNodes /\ 0 \notin Node /\ Node \subseteq Nat
  /\ Pointer = Node \cup {0} /\ AList!Null = 0
  /\ AList!Blank = [prev |-> 0, next |-> 0, value |-> 0] /\ AList!Blank \in NodeType
BY ContainersAssumption
   DEF Node, Pointer, NodeType, AList!Node, AList!Pointer, AList!Null, AList!Blank

LEMMA AtIs ==
  ASSUME NEW s \in Seq(Node)
  PROVE  /\ Len(s) \in Nat /\ \A j \in 1 .. Len(s) : s[j] \in Node /\ At(s, j) = s[j]
         /\ \A j : At(s, j) \in Pointer
         /\ \A j : At(s, j) # 0 <=> j \in 1 .. Len(s)
<1>1. Len(s) \in Nat /\ \A j \in 1 .. Len(s) : s[j] \in Node
  OBVIOUS
<1>2. QED BY <1>1, NodeIs DEF At

\* One link of one node, or none.
LEMMA PutIs ==
  ASSUME NEW nd \in [Node -> NodeType], NEW a \in Pointer, NEW b \in Pointer,
         NEW f \in {"next", "prev"}
  PROVE  /\ AList!Put(nd, a, f, b) \in [Node -> NodeType]
         /\ \A y \in Node :
              /\ AList!Put(nd, a, f, b)[y].value = nd[y].value
              /\ AList!Put(nd, a, f, b)[y].next
                   = IF f = "next" /\ y = a THEN b ELSE nd[y].next
              /\ AList!Put(nd, a, f, b)[y].prev
                   = IF f = "prev" /\ y = a THEN b ELSE nd[y].prev
<1>1. CASE a = 0
  BY <1>1, NodeIs DEF AList!Put
<1>2. CASE a # 0
  <2>1. a \in Node /\ AList!Put(nd, a, f, b) = [nd EXCEPT ![a][f] = b]
    BY <1>2, NodeIs DEF AList!Put
  <2>2. CASE f = "next"
    <3>1. [nd EXCEPT ![a]["next"] = b] = [nd EXCEPT ![a] = [nd[a] EXCEPT !.next = b]]
      OBVIOUS
    <3>2. PICK r : r = [nd[a] EXCEPT !.next = b]
      OBVIOUS
    <3>3. r \in NodeType /\ r.next = b /\ r.prev = nd[a].prev /\ r.value = nd[a].value
      BY <2>1, <3>2 DEF NodeType
    <3>4. AList!Put(nd, a, f, b) = [nd EXCEPT ![a] = r]
      BY <2>1, <2>2, <3>1, <3>2
    <3>5. QED BY <2>1, <2>2, <3>3, <3>4
  <2>3. CASE f = "prev"
    <3>1. [nd EXCEPT ![a]["prev"] = b] = [nd EXCEPT ![a] = [nd[a] EXCEPT !.prev = b]]
      OBVIOUS
    <3>2. PICK r : r = [nd[a] EXCEPT !.prev = b]
      OBVIOUS
    <3>3. r \in NodeType /\ r.prev = b /\ r.next = nd[a].next /\ r.value = nd[a].value
      BY <2>1, <3>2 DEF NodeType
    <3>4. AList!Put(nd, a, f, b) = [nd EXCEPT ![a] = r]
      BY <2>1, <2>3, <3>1, <3>2
    <3>5. QED BY <2>1, <2>3, <3>3, <3>4
  <2>4. QED BY <2>2, <2>3
<1>3. QED BY <1>1, <1>2

\* A sequence with x at the place p.
Inserted(s, p, x) ==
  [j \in 1 .. Len(s) + 1 |-> IF j < p THEN s[j] ELSE IF j = p THEN x ELSE s[j - 1]]

LEMMA InsertedIs ==
  ASSUME NEW T, NEW s \in Seq(T), NEW x \in T, NEW p \in 1 .. Len(s) + 1
  PROVE  /\ Inserted(s, p, x) \in Seq(T) /\ Len(Inserted(s, p, x)) = Len(s) + 1
         /\ \A j \in 1 .. Len(s) + 1 :
              Inserted(s, p, x)[j] = IF j < p THEN s[j] ELSE IF j = p THEN x ELSE s[j - 1]
         /\ \A y : In(y, Inserted(s, p, x)) <=> y = x \/ In(y, s)
         /\ ~In(x, s) /\ OneTime(s) => OneTime(Inserted(s, p, x))
<1>1. Len(s) \in Nat /\ \A j \in 1 .. Len(s) : s[j] \in T
  OBVIOUS
<1> DEFINE t == Inserted(s, p, x)
<1>2. \A j \in 1 .. Len(s) + 1 :
        t[j] = IF j < p THEN s[j] ELSE IF j = p THEN x ELSE s[j - 1]
  BY DEF Inserted
<1>3. \A j \in 1 .. Len(s) + 1 : t[j] \in T
  <2>1. SUFFICES ASSUME NEW j \in 1 .. Len(s) + 1
                 PROVE  t[j] \in T
    OBVIOUS
  <2>2. j < p => j \in 1 .. Len(s)
    BY <1>1, <2>1
  <2>3. ~(j < p) /\ j # p => j - 1 \in 1 .. Len(s)
    BY <1>1, <2>1
  <2>4. QED BY <1>1, <1>2, <2>2, <2>3
<1>4. t \in [1 .. Len(s) + 1 -> T]
  BY <1>3 DEF Inserted
<1> HIDE DEF t
<1>5. t \in Seq(T) /\ Len(t) = Len(s) + 1
  BY <1>1, <1>4
<1>6. ASSUME NEW y
      PROVE  In(y, t) <=> y = x \/ In(y, s)
  <2>1. ASSUME In(y, t) PROVE y = x \/ In(y, s)
    <3>1. PICK j \in 1 .. Len(s) + 1 : t[j] = y
      BY <1>5, <2>1 DEF In
    <3>2. j < p => j \in 1 .. Len(s)
      BY <1>1, <3>1
    <3>3. ~(j < p) /\ j # p => j - 1 \in 1 .. Len(s)
      BY <1>1, <3>1
    <3>4. QED BY <1>2, <3>1, <3>2, <3>3 DEF In
  <2>2. In(x, t)
    <3>1. p \in 1 .. Len(s) + 1 /\ t[p] = x
      BY <1>1, <1>2
    <3>2. QED BY <1>5, <3>1 DEF In
  <2>3. ASSUME In(y, s) PROVE In(y, t)
    <3>1. PICK j \in 1 .. Len(s) : s[j] = y
      BY <2>3 DEF In
    <3>2. CASE j < p
      <4>1. j \in 1 .. Len(s) + 1 /\ t[j] = y
        BY <1>1, <1>2, <3>1, <3>2
      <4>2. QED BY <1>5, <4>1 DEF In
    <3>3. CASE ~(j < p)
      <4>1. j + 1 \in 1 .. Len(s) + 1 /\ ~(j + 1 < p) /\ j + 1 # p /\ (j + 1) - 1 = j
        BY <1>1, <3>1, <3>3
      <4>2. t[j + 1] = y
        BY <1>2, <3>1, <4>1
      <4>3. QED BY <1>5, <4>1, <4>2 DEF In
    <3>4. QED BY <3>2, <3>3
  <2>4. QED BY <2>1, <2>2, <2>3
<1>7. ASSUME ~In(x, s), OneTime(s)
      PROVE  OneTime(t)
  <2>1. SUFFICES ASSUME NEW j \in 1 .. Len(s) + 1, NEW k \in 1 .. Len(s) + 1, t[j] = t[k]
                 PROVE  j = k
    BY <1>5 DEF OneTime
  <2> DEFINE J(e) == IF e < p THEN e ELSE e - 1
  <2>2. \A e \in 1 .. Len(s) + 1 : e # p => J(e) \in 1 .. Len(s) /\ t[e] = s[J(e)] /\ t[e] # x
    <3>1. SUFFICES ASSUME NEW e \in 1 .. Len(s) + 1, e # p
                   PROVE  J(e) \in 1 .. Len(s) /\ t[e] = s[J(e)] /\ t[e] # x
      OBVIOUS
    <3>2. J(e) \in 1 .. Len(s)
      BY <1>1, <3>1
    <3>3. t[e] = s[J(e)]
      BY <1>2, <3>1
    <3>4. QED BY <1>7, <3>2, <3>3 DEF In
  <2>3. CASE j = p
    <3>1. t[j] = x
      BY <1>1, <1>2, <2>3
    <3>2. QED BY <2>1, <2>2, <2>3, <3>1
  <2>4. CASE k = p
    <3>1. t[k] = x
      BY <1>1, <1>2, <2>4
    <3>2. QED BY <2>1, <2>2, <2>4, <3>1
  <2>5. CASE j # p /\ k # p
    <3>1. J(j) = J(k)
      BY <1>7, <2>1, <2>2, <2>5 DEF OneTime
    <3>2. QED BY <1>1, <2>1, <2>5, <3>1
  <2>6. QED BY <2>3, <2>4, <2>5
<1>8. QED BY <1>2, <1>5, <1>6, <1>7 DEF t

\* A sequence without its place p.
Removed(s, p) == [j \in 1 .. Len(s) - 1 |-> IF j < p THEN s[j] ELSE s[j + 1]]

LEMMA RemovedIs ==
  ASSUME NEW T, NEW s \in Seq(T), NEW p \in 1 .. Len(s), OneTime(s)
  PROVE  /\ Removed(s, p) \in Seq(T) /\ Len(Removed(s, p)) = Len(s) - 1
         /\ \A j \in 1 .. Len(s) - 1 : Removed(s, p)[j] = IF j < p THEN s[j] ELSE s[j + 1]
         /\ \A y : In(y, Removed(s, p)) <=> y # s[p] /\ In(y, s)
         /\ OneTime(Removed(s, p))
<1>1. Len(s) \in Nat /\ Len(s) - 1 \in Nat /\ \A j \in 1 .. Len(s) : s[j] \in T
  OBVIOUS
<1> DEFINE t == Removed(s, p)
           J(e) == IF e < p THEN e ELSE e + 1
<1>2. \A j \in 1 .. Len(s) - 1 : t[j] = IF j < p THEN s[j] ELSE s[j + 1]
  BY DEF Removed
<1>3. \A e \in 1 .. Len(s) - 1 : J(e) \in 1 .. Len(s) /\ J(e) # p /\ t[e] = s[J(e)] /\ t[e] \in T
  <2>1. SUFFICES ASSUME NEW e \in 1 .. Len(s) - 1
                 PROVE  J(e) \in 1 .. Len(s) /\ J(e) # p /\ t[e] = s[J(e)] /\ t[e] \in T
    OBVIOUS
  <2>2. J(e) \in 1 .. Len(s) /\ J(e) # p
    BY <1>1, <2>1
  <2>3. t[e] = s[J(e)]
    BY <1>2, <2>1
  <2>4. QED BY <1>1, <2>2, <2>3
<1>4. t \in [1 .. Len(s) - 1 -> T]
  BY <1>3 DEF Removed
<1> HIDE DEF t
<1>5. t \in Seq(T) /\ Len(t) = Len(s) - 1
  BY <1>1, <1>4
<1>6. ASSUME NEW y
      PROVE  In(y, t) <=> y # s[p] /\ In(y, s)
  <2>1. ASSUME In(y, t) PROVE y # s[p] /\ In(y, s)
    <3>1. PICK j \in 1 .. Len(s) - 1 : t[j] = y
      BY <1>5, <2>1 DEF In
    <3>2. QED BY <1>3, <3>1 DEF In, OneTime
  <2>2. ASSUME In(y, s), y # s[p] PROVE In(y, t)
    <3>1. PICK j \in 1 .. Len(s) : s[j] = y
      BY <2>2 DEF In
    <3>2. CASE j < p
      <4>1. j \in 1 .. Len(s) - 1 /\ t[j] = y
        BY <1>1, <1>2, <3>1, <3>2
      <4>2. QED BY <1>5, <4>1 DEF In
    <3>3. CASE ~(j < p)
      <4>1. j - 1 \in 1 .. Len(s) - 1 /\ ~(j - 1 < p) /\ (j - 1) + 1 = j
        BY <1>1, <2>2, <3>1, <3>3
      <4>2. t[j - 1] = y
        BY <1>2, <3>1, <4>1
      <4>3. QED BY <1>5, <4>1, <4>2 DEF In
    <3>4. QED BY <3>2, <3>3
  <2>3. QED BY <2>1, <2>2
<1>7. OneTime(t)
  <2>1. SUFFICES ASSUME NEW j \in 1 .. Len(s) - 1, NEW k \in 1 .. Len(s) - 1, t[j] = t[k]
                 PROVE  j = k
    BY <1>5 DEF OneTime
  <2>2. J(j) = J(k)
    BY <1>3, <2>1 DEF OneTime
  <2>3. QED BY <1>1, <2>1, <2>2
<1>8. QED BY <1>2, <1>5, <1>6, <1>7 DEF t

LEMMA AtInserted ==
  ASSUME NEW s \in Seq(Node), NEW x \in Node, NEW p \in 1 .. Len(s) + 1, NEW j \in Int
  PROVE  At(Inserted(s, p, x), j) = IF j < p THEN At(s, j) ELSE IF j = p THEN x ELSE At(s, j - 1)
<1>1. /\ Len(s) \in Nat /\ Len(Inserted(s, p, x)) = Len(s) + 1
      /\ \A k \in 1 .. Len(s) + 1 :
           Inserted(s, p, x)[k] = IF k < p THEN s[k] ELSE IF k = p THEN x ELSE s[k - 1]
  BY InsertedIs
<1>2. CASE j \in 1 .. Len(s) + 1
  <2>1. At(Inserted(s, p, x), j) = IF j < p THEN s[j] ELSE IF j = p THEN x ELSE s[j - 1]
    BY <1>1, <1>2 DEF At
  <2>2. (j < p => j \in 1 .. Len(s)) /\ (~(j < p) /\ j # p => j - 1 \in 1 .. Len(s))
    BY <1>1, <1>2
  <2>3. QED BY <2>1, <2>2 DEF At
<1>3. CASE j \notin 1 .. Len(s) + 1
  <2>1. At(Inserted(s, p, x), j) = 0
    BY <1>1, <1>3 DEF At
  <2>2. j # p /\ (j < p => j \notin 1 .. Len(s)) /\ (~(j < p) => j - 1 \notin 1 .. Len(s))
    BY <1>1, <1>3
  <2>3. QED BY <2>1, <2>2 DEF At
<1>4. QED BY <1>2, <1>3

LEMMA AtRemoved ==
  ASSUME NEW s \in Seq(Node), NEW p \in 1 .. Len(s), OneTime(s), NEW j \in Int
  PROVE  At(Removed(s, p), j) = IF j < p THEN At(s, j) ELSE At(s, j + 1)
<1>1. /\ Len(s) \in Nat /\ Len(Removed(s, p)) = Len(s) - 1
      /\ \A k \in 1 .. Len(s) - 1 : Removed(s, p)[k] = IF k < p THEN s[k] ELSE s[k + 1]
  BY RemovedIs
<1>2. CASE j \in 1 .. Len(s) - 1
  <2>1. At(Removed(s, p), j) = IF j < p THEN s[j] ELSE s[j + 1]
    BY <1>1, <1>2 DEF At
  <2>2. j \in 1 .. Len(s) /\ j + 1 \in 1 .. Len(s)
    BY <1>1, <1>2
  <2>3. QED BY <2>1, <2>2 DEF At
<1>3. CASE j \notin 1 .. Len(s) - 1
  <2>1. At(Removed(s, p), j) = 0
    BY <1>1, <1>3 DEF At
  <2>2. (j < p => j \notin 1 .. Len(s)) /\ (~(j < p) => j + 1 \notin 1 .. Len(s))
    BY <1>1, <1>3
  <2>3. QED BY <2>1, <2>2 DEF At
<1>4. QED BY <1>2, <1>3

\* Two places of a list have the same node, or none, only if they are the same.
LEMMA AtOnce ==
  ASSUME NEW s \in Seq(Node), OneTime(s), NEW j \in 1 .. Len(s), NEW k \in Int
  PROVE  s[j] = At(s, k) <=> j = k
<1>1. CASE k \in 1 .. Len(s)
  BY <1>1, AtIs DEF OneTime
<1>2. CASE k \notin 1 .. Len(s)
  <2>1. At(s, k) = 0 /\ s[j] \in Node
    BY <1>2, AtIs DEF At
  <2>2. QED BY <1>2, <2>1, NodeIs
<1>3. QED BY <1>1, <1>2

LEMMA SameNode ==
  ASSUME NEW a \in NodeType, NEW b \in NodeType, a.prev = b.prev, a.next = b.next, a.value = b.value
  PROVE  a = b
BY DEF NodeType

\* A new node between two, or at an end.
Joined(nd, x, before, after, v) ==
  AList!Put(AList!Put([nd EXCEPT ![x] = [prev |-> before, next |-> after, value |-> v]],
                      before, "next", x), after, "prev", x)

JoinedIs(c, nd, x, before, after, v) ==
  \A y \in Node :
    /\ c[y].value = IF y = x THEN v ELSE nd[y].value
    /\ c[y].prev = IF y = after THEN x ELSE IF y = x THEN before ELSE nd[y].prev
    /\ c[y].next = IF y = before THEN x ELSE IF y = x THEN after ELSE nd[y].next

LEMMA LinkedIn ==
  ASSUME NEW nd \in [Node -> NodeType], NEW x \in Node, NEW before \in Pointer,
         NEW after \in Pointer, NEW v \in Value
  PROVE  /\ Joined(nd, x, before, after, v) \in [Node -> NodeType]
         /\ JoinedIs(Joined(nd, x, before, after, v), nd, x, before, after, v)
<1>1. PICK r : r = [prev |-> before, next |-> after, value |-> v]
  OBVIOUS
<1>2. r \in NodeType /\ r.prev = before /\ r.next = after /\ r.value = v
  BY <1>1 DEF NodeType
<1>3. PICK b : b = [nd EXCEPT ![x] = r]
  OBVIOUS
<1>4. b \in [Node -> NodeType] /\ b[x] = r /\ \A y \in Node : y # x => b[y] = nd[y]
  BY <1>2, <1>3
<1>5. PICK a : a = AList!Put(b, before, "next", x)
  OBVIOUS
<1>6. x \in Pointer
  BY NodeIs
<1>7. /\ a \in [Node -> NodeType]
      /\ \A y \in Node : /\ a[y].value = b[y].value /\ a[y].prev = b[y].prev
                         /\ a[y].next = IF y = before THEN x ELSE b[y].next
  BY <1>4, <1>5, <1>6, PutIs
<1>8. PICK c : c = AList!Put(a, after, "prev", x)
  OBVIOUS
<1>9. /\ c \in [Node -> NodeType]
      /\ \A y \in Node : /\ c[y].value = a[y].value /\ c[y].next = a[y].next
                         /\ c[y].prev = IF y = after THEN x ELSE a[y].prev
  BY <1>6, <1>7, <1>8, PutIs
<1>10. \A y \in Node :
         /\ c[y].value = IF y = x THEN v ELSE nd[y].value
         /\ c[y].prev = IF y = after THEN x ELSE IF y = x THEN before ELSE nd[y].prev
         /\ c[y].next = IF y = before THEN x ELSE IF y = x THEN after ELSE nd[y].next
  BY <1>2, <1>4, <1>7, <1>9
<1>11. c = Joined(nd, x, before, after, v)
  BY <1>1, <1>3, <1>5, <1>8 DEF Joined
<1>12. JoinedIs(c, nd, x, before, after, v)
  BY <1>10 DEF JoinedIs
<1>13. QED BY <1>9, <1>11, <1>12

LEMMA InsertChain ==
  ASSUME NEW nd \in [Node -> NodeType], NEW s \in Seq(Node), OneTime(s), Chain(nd, s),
         NEW x \in Node, ~In(x, s), NEW p \in 1 .. Len(s) + 1, NEW v \in Value,
         NEW c \in [Node -> NodeType], JoinedIs(c, nd, x, At(s, p - 1), At(s, p), v)
  PROVE  /\ Chain(c, Inserted(s, p, x))
         /\ \A y \in Node : y # x /\ ~In(y, s) => c[y] = nd[y]
<1>0. \A j \in 1 .. Len(s) + 1 :
        Inserted(s, p, x)[j] = IF j < p THEN s[j] ELSE IF j = p THEN x ELSE s[j - 1]
  BY DEF Inserted
<1>fields. \A y \in Node :
         /\ c[y].value = IF y = x THEN v ELSE nd[y].value
         /\ c[y].prev = IF y = At(s, p) THEN x ELSE IF y = x THEN At(s, p - 1) ELSE nd[y].prev
         /\ c[y].next = IF y = At(s, p - 1) THEN x ELSE IF y = x THEN At(s, p) ELSE nd[y].next
  BY DEF JoinedIs
<1>1. /\ At(s, p - 1) \in Pointer /\ At(s, p) \in Pointer /\ x \in Pointer /\ Len(s) \in Nat
      /\ p \in Nat /\ p - 1 \in Int
  BY AtIs, NodeIs
<1>2. x # At(s, p) /\ x # At(s, p - 1)
  BY NodeIs DEF At, In
<1>3. \A y \in Node : y # x /\ ~In(y, s) => c[y] = nd[y]
  <2>1. SUFFICES ASSUME NEW y \in Node, y # x, ~In(y, s)
                 PROVE  c[y] = nd[y]
    OBVIOUS
  <2>2. y # At(s, p) /\ y # At(s, p - 1)
    BY <2>1, NodeIs DEF At, In
  <2>3. c[y].value = nd[y].value /\ c[y].prev = nd[y].prev /\ c[y].next = nd[y].next
    BY <1>fields, <2>1, <2>2
  <2>4. c[y] \in NodeType /\ nd[y] \in NodeType
    BY <2>1
  <2>5. QED BY <2>3, <2>4, SameNode
<1> DEFINE t == Inserted(s, p, x)
<1>4. ASSUME NEW j \in 1 .. Len(s) + 1
       PROVE  c[t[j]].next = At(t, j + 1) /\ c[t[j]].prev = At(t, j - 1)
  <2>1. j \in Int /\ j + 1 \in Int /\ j - 1 \in Int /\ (j + 1) - 1 = j
    BY <1>1, <1>4
  <2>2. /\ At(t, j + 1) = (IF j + 1 < p THEN At(s, j + 1) ELSE IF j + 1 = p THEN x ELSE At(s, j))
        /\ At(t, j - 1) = (IF j - 1 < p THEN At(s, j - 1) ELSE IF j - 1 = p THEN x ELSE At(s, (j - 1) - 1))
    BY <2>1, AtInserted
  <2>3. t[j] = IF j < p THEN s[j] ELSE IF j = p THEN x ELSE s[j - 1]
    BY <1>0
  <2> HIDE DEF t
  <2>4. CASE j < p
    <3>1. j \in 1 .. Len(s) /\ t[j] = s[j] /\ s[j] \in Node /\ s[j] # x
      BY <1>1, <1>4, <2>3, <2>4, AtIs DEF In
    <3>2. /\ s[j] = At(s, p - 1) <=> j = p - 1
          /\ s[j] = At(s, p) <=> j = p
      BY <1>1, <3>1, AtOnce
    <3>3. nd[s[j]].next = At(s, j + 1) /\ nd[s[j]].prev = At(s, j - 1)
      BY <3>1 DEF Chain
    <3>4. /\ c[t[j]].next = IF j = p - 1 THEN x ELSE At(s, j + 1)
          /\ c[t[j]].prev = At(s, j - 1)
      BY <1>fields, <1>1, <2>4, <3>1, <3>2, <3>3
    <3>5. (j = p - 1 <=> j + 1 = p) /\ (j # p - 1 => j + 1 < p) /\ j - 1 < p
      BY <1>1, <1>4, <2>4
    <3>6. QED BY <2>2, <3>4, <3>5
  <2>5. CASE j = p
    <3>1. t[j] = x
      BY <1>1, <2>3, <2>5
    <3>2. c[x].next = At(s, p) /\ c[x].prev = At(s, p - 1)
      BY <1>fields, <1>2
    <3>3. ~(j + 1 < p) /\ j + 1 # p /\ j - 1 < p
      BY <1>1, <2>5
    <3>4. QED BY <2>2, <2>5, <3>1, <3>2, <3>3
  <2>6. CASE p < j
    <3>1. /\ j - 1 \in 1 .. Len(s) /\ t[j] = s[j - 1] /\ s[j - 1] \in Node /\ s[j - 1] # x
      BY <1>1, <1>4, <2>3, <2>6, AtIs DEF In
    <3>2. /\ s[j - 1] = At(s, p - 1) <=> j - 1 = p - 1
          /\ s[j - 1] = At(s, p) <=> j - 1 = p
      BY <1>1, <3>1, AtOnce
    <3>3. /\ nd[s[j - 1]].next = At(s, (j - 1) + 1) /\ nd[s[j - 1]].prev = At(s, (j - 1) - 1)
          /\ (j - 1) + 1 = j
      BY <2>1, <3>1 DEF Chain
    <3>4. /\ c[t[j]].next = At(s, j)
          /\ c[t[j]].prev = IF j - 1 = p THEN x ELSE At(s, (j - 1) - 1)
      BY <1>fields, <1>1, <2>6, <3>1, <3>2, <3>3
    <3>5. ~(j + 1 < p) /\ j + 1 # p /\ ~(j - 1 < p)
      BY <1>1, <1>4, <2>6
    <3>6. QED BY <2>2, <3>4, <3>5
  <2>7. QED BY <1>1, <1>4, <2>4, <2>5, <2>6
<1>5. Chain(c, t)
  <2>1. Len(t) = Len(s) + 1
    BY InsertedIs
  <2>2. QED BY <1>4, <2>1 DEF Chain
<1>6. QED BY <1>3, <1>5

\* What stood between two nodes is passed over; and it is given back.
Closed(nd, before, after) ==
  AList!Put(AList!Put(nd, before, "next", after), after, "prev", before)
Freed(nd, x) == [nd EXCEPT ![x] = AList!Blank]

LEMMA RemoveChain ==
  ASSUME NEW nd \in [Node -> NodeType], NEW s \in Seq(Node), OneTime(s), Chain(nd, s),
         NEW p \in 1 .. Len(s), NEW b, b = Closed(nd, At(s, p - 1), At(s, p + 1)),
         NEW c, c = Freed(b, s[p])
  PROVE  /\ b \in [Node -> NodeType] /\ Chain(b, Removed(s, p))
         /\ c \in [Node -> NodeType] /\ Chain(c, Removed(s, p)) /\ c[s[p]] = AList!Blank
         /\ \A y \in Node : ~In(y, s) => c[y] = nd[y] /\ b[y] = nd[y]
         /\ \A y \in Node : y # s[p] => c[y].value = nd[y].value
         /\ \A y \in Node : b[y].value = nd[y].value
<1>1. /\ At(s, p - 1) \in Pointer /\ At(s, p + 1) \in Pointer /\ Len(s) \in Nat
      /\ p \in Nat /\ p - 1 \in Int /\ p + 1 \in Int /\ s[p] \in Node
  BY AtIs
<1>2. PICK a : a = AList!Put(nd, At(s, p - 1), "next", At(s, p + 1))
  OBVIOUS
<1>3. /\ a \in [Node -> NodeType]
      /\ \A y \in Node : /\ a[y].value = nd[y].value /\ a[y].prev = nd[y].prev
                         /\ a[y].next = IF y = At(s, p - 1) THEN At(s, p + 1) ELSE nd[y].next
  BY <1>1, <1>2, PutIs, SMTT(30)
<1>4. /\ b \in [Node -> NodeType]
      /\ \A y \in Node : /\ b[y].value = nd[y].value
                         /\ b[y].prev = IF y = At(s, p + 1) THEN At(s, p - 1) ELSE nd[y].prev
                         /\ b[y].next = IF y = At(s, p - 1) THEN At(s, p + 1) ELSE nd[y].next
  <2>1. b = AList!Put(a, At(s, p + 1), "prev", At(s, p - 1))
    BY <1>2 DEF Closed
  <2>2. QED BY <1>1, <1>3, <2>1, PutIs
<1>5. /\ c \in [Node -> NodeType] /\ c[s[p]] = AList!Blank
      /\ \A y \in Node : y # s[p] => c[y] = b[y]
  BY <1>1, <1>4, NodeIs DEF Freed
<1>6. \A y \in Node : ~In(y, s) => c[y] = nd[y] /\ b[y] = nd[y]
  <2>1. SUFFICES ASSUME NEW y \in Node, ~In(y, s)
                 PROVE  c[y] = nd[y] /\ b[y] = nd[y]
    OBVIOUS
  <2>2. y # At(s, p + 1) /\ y # At(s, p - 1) /\ y # s[p]
    BY <2>1, NodeIs DEF At, In
  <2>3. b[y].value = nd[y].value /\ b[y].prev = nd[y].prev /\ b[y].next = nd[y].next
    BY <1>4, <2>1, <2>2
  <2>4. b[y] \in NodeType /\ nd[y] \in NodeType
    BY <1>4, <2>1
  <2>5. b[y] = nd[y]
    BY <2>3, <2>4, SameNode
  <2>6. QED BY <1>5, <2>1, <2>2, <2>5
<1> DEFINE t == Removed(s, p)
           J(e) == IF e < p THEN e ELSE e + 1
<1>7. ASSUME NEW j \in 1 .. Len(s) - 1
      PROVE  /\ b[t[j]].next = At(t, j + 1) /\ b[t[j]].prev = At(t, j - 1)
             /\ t[j] \in Node /\ t[j] # s[p]
  <2>1. /\ J(j) \in 1 .. Len(s) /\ J(j) # p /\ t[j] = s[J(j)]
    <3>1. t[j] = IF j < p THEN s[j] ELSE s[j + 1]
      BY RemovedIs
    <3> HIDE DEF t
    <3>2. J(j) \in 1 .. Len(s) /\ J(j) # p
      BY <1>1, <1>7
    <3>3. QED BY <3>1, <3>2
  <2>2. /\ At(t, j + 1) = (IF j + 1 < p THEN At(s, j + 1) ELSE At(s, (j + 1) + 1))
        /\ At(t, j - 1) = (IF j - 1 < p THEN At(s, j - 1) ELSE At(s, (j - 1) + 1))
    <3>1. j + 1 \in Int /\ j - 1 \in Int
      BY <1>7
    <3>2. QED BY <3>1, AtRemoved
  <2> HIDE DEF t
  <2>3. t[j] \in Node /\ t[j] # s[p]
    BY <2>1, AtIs DEF OneTime
  <2>4. /\ s[J(j)] = At(s, p - 1) <=> J(j) = p - 1
        /\ s[J(j)] = At(s, p + 1) <=> J(j) = p + 1
    BY <1>1, <2>1, AtOnce
  <2>5. nd[s[J(j)]].next = At(s, J(j) + 1) /\ nd[s[J(j)]].prev = At(s, J(j) - 1)
    BY <2>1 DEF Chain
  <2>6. /\ b[t[j]].next = IF J(j) = p - 1 THEN At(s, p + 1) ELSE At(s, J(j) + 1)
        /\ b[t[j]].prev = IF J(j) = p + 1 THEN At(s, p - 1) ELSE At(s, J(j) - 1)
    BY <1>4, <2>1, <2>3, <2>4, <2>5
  <2>7. CASE j < p
    <3>1. J(j) = j /\ j # p + 1 /\ j - 1 < p /\ (j = p - 1 => (j + 1) + 1 = p + 1 /\ ~(j + 1 < p))
          /\ (j # p - 1 => j + 1 < p)
      BY <1>1, <1>7, <2>7
    <3>2. QED BY <2>2, <2>3, <2>6, <3>1, SMTT(30)
  <2>8. CASE ~(j < p)
    <3>1. /\ J(j) = j + 1 /\ j + 1 # p - 1 /\ ~(j + 1 < p) /\ (j + 1) - 1 = j /\ (j - 1) + 1 = j
          /\ (j + 1 = p + 1 => j - 1 < p /\ j - 1 = p - 1)
          /\ (j + 1 # p + 1 => ~(j - 1 < p))
      BY <1>1, <1>7, <2>8
    <3>2. QED BY <2>2, <2>3, <2>6, <3>1, SMTT(30)
  <2>9. QED BY <2>7, <2>8
<1>8. Chain(b, t) /\ Chain(c, t)
  <2>1. Len(t) = Len(s) - 1
    BY RemovedIs
  <2>2. \A j \in 1 .. Len(s) - 1 : c[t[j]] = b[t[j]]
    BY <1>5, <1>7
  <2>3. QED BY <1>7, <2>1, <2>2, SMTT(60) DEF Chain
<1>9. QED BY <1>4, <1>5, <1>6, <1>8

\* A walk is what the links say it is, place by place.
Follows(g, x, f, k) ==
  /\ g = [j \in 1 .. k |-> g[j]]
  /\ \A j \in 1 .. k :
       g[j] = IF j = 1 THEN x ELSE IF g[j - 1] = 0 THEN 0 ELSE node[g[j - 1]][f]

LEMMA WalkIs ==
  ASSUME NEW x, NEW f, NEW k \in Nat, NEW g, Follows(g, x, f, k)
  PROVE  AList!Walk(x, f, k) = g
<1> DEFINE B(h) == [j \in 1 .. k |-> IF j = 1 THEN x
                                     ELSE IF h[j - 1] = 0 THEN 0 ELSE node[h[j - 1]][f]]
           at == CHOOSE h : h = B(h)
<1>1. g = B(g)
  BY DEF Follows
<1>2. at = B(at)
  BY <1>1
<1>3. AList!Walk(x, f, k) = [j \in 1 .. k |-> at[j]]
  BY NodeIs DEF AList!Walk
<1> HIDE DEF at
<1>4. \A j \in 1 .. k :
        at[j] = IF j = 1 THEN x ELSE IF at[j - 1] = 0 THEN 0 ELSE node[at[j - 1]][f]
  BY <1>2
<1> DEFINE H == {j \in 0 .. k : j = 0 \/ at[j] = g[j]}
<1>5. \A j \in 0 .. k : j \in H
  <2>1. 0 \in H
    OBVIOUS
  <2>2. ASSUME NEW j \in 1 .. k, j - 1 \in H
        PROVE  j \in H
    <3>1. j = 1 \/ at[j - 1] = g[j - 1]
      BY <2>2
    <3>2. at[j] = g[j]
      BY <1>4, <3>1 DEF Follows
    <3>3. QED BY <3>2
  <2> HIDE DEF H
  <2>3. QED BY <2>1, <2>2, UpTo
<1>6. \A j \in 1 .. k : at[j] = g[j]
  <2>1. ASSUME NEW j \in 1 .. k PROVE at[j] = g[j]
    <3>1. j \in 0 .. k /\ j # 0
      OBVIOUS
    <3>2. j \in H
      BY <1>5, <3>1
    <3>3. QED BY <3>1, <3>2
  <2>2. QED BY <2>1
<1>7. QED BY <1>3, <1>6 DEF Follows

LEMMA WalkForward ==
  ASSUME node \in [Node -> NodeType], NEW s \in Seq(Node), Chain(node, s), NEW k \in Nat
  PROVE  /\ AList!Walk(At(s, 1), "next", k) = [j \in 1 .. k |-> At(s, j)]
         /\ \A j \in 1 .. k : AList!Walk(At(s, 1), "next", k)[j] = At(s, j)
<1> DEFINE g == [j \in 1 .. k |-> At(s, j)]
<1>1. g = [j \in 1 .. k |-> g[j]]
  OBVIOUS
<1>2. Len(s) \in Nat
  OBVIOUS
<1>3. ASSUME NEW j \in 1 .. k
      PROVE  g[j] = IF j = 1 THEN At(s, 1) ELSE IF g[j - 1] = 0 THEN 0 ELSE node[g[j - 1]]["next"]
  <2>1. CASE j = 1
    BY <2>1
  <2>2. CASE j # 1
    <3>1. j - 1 \in 1 .. k /\ g[j - 1] = At(s, j - 1) /\ g[j] = At(s, j) /\ (j - 1) + 1 = j
      BY <2>2
    <3>2. CASE j - 1 \in 1 .. Len(s)
      <4>1. At(s, j - 1) = s[j - 1] /\ s[j - 1] # 0
        BY <3>2, AtIs, NodeIs
      <4>2. node[s[j - 1]].next = At(s, j)
        BY <3>1, <3>2 DEF Chain
      <4>3. QED BY <2>2, <3>1, <4>1, <4>2
    <3>3. CASE j - 1 \notin 1 .. Len(s)
      <4>1. j \notin 1 .. Len(s)
        BY <1>2, <3>1, <3>3
      <4>2. At(s, j - 1) = 0 /\ At(s, j) = 0
        BY <3>3, <4>1 DEF At
      <4>3. QED BY <2>2, <3>1, <4>2
    <3>4. QED BY <3>2, <3>3
  <2>3. QED BY <2>1, <2>2
<1> HIDE DEF g
<1>4. AList!Walk(At(s, 1), "next", k) = g
  <2>1. Follows(g, At(s, 1), "next", k)
    BY <1>1, <1>3 DEF Follows
  <2>2. QED BY <2>1, WalkIs
<1>5. QED BY <1>4 DEF g

LEMMA WalkBack ==
  ASSUME node \in [Node -> NodeType], NEW s \in Seq(Node), Chain(node, s), NEW k \in Nat
  PROVE  /\ AList!Walk(At(s, Len(s)), "prev", k) = [j \in 1 .. k |-> At(s, (Len(s) - j) + 1)]
         /\ \A j \in 1 .. k : AList!Walk(At(s, Len(s)), "prev", k)[j] = At(s, (Len(s) - j) + 1)
<1> DEFINE g == [j \in 1 .. k |-> At(s, (Len(s) - j) + 1)]
<1>1. g = [j \in 1 .. k |-> g[j]]
  OBVIOUS
<1>2. Len(s) \in Nat
  OBVIOUS
<1>3. ASSUME NEW j \in 1 .. k
      PROVE  g[j] = IF j = 1 THEN At(s, Len(s))
                    ELSE IF g[j - 1] = 0 THEN 0 ELSE node[g[j - 1]]["prev"]
  <2>1. CASE j = 1
    <3>1. (Len(s) - j) + 1 = Len(s)
      BY <1>2, <2>1
    <3>2. QED BY <2>1, <3>1
  <2>2. CASE j # 1
    <3> DEFINE q == (Len(s) - (j - 1)) + 1
    <3>1. /\ j - 1 \in 1 .. k /\ g[j - 1] = At(s, q) /\ g[j] = At(s, q - 1)
      <4>1. j - 1 \in 1 .. k /\ (Len(s) - j) + 1 = q - 1
        BY <1>2, <2>2
      <4>2. QED BY <4>1
    <3>2. CASE q \in 1 .. Len(s)
      <4>1. At(s, q) = s[q] /\ s[q] # 0
        BY <3>2, AtIs, NodeIs
      <4>2. node[s[q]].prev = At(s, q - 1)
        BY <3>1, <3>2 DEF Chain
      <4>3. QED BY <2>2, <3>1, <4>1, <4>2
    <3>3. CASE q \notin 1 .. Len(s)
      <4>1. q - 1 \notin 1 .. Len(s)
        BY <1>2, <2>2, <3>3
      <4>2. At(s, q) = 0 /\ At(s, q - 1) = 0
        BY <3>3, <4>1 DEF At
      <4>3. QED BY <2>2, <3>1, <4>2
    <3>4. QED BY <3>2, <3>3
  <2>3. QED BY <2>1, <2>2
<1> HIDE DEF g
<1>4. AList!Walk(At(s, Len(s)), "prev", k) = g
  <2>1. Follows(g, At(s, Len(s)), "prev", k)
    BY <1>1, <1>3 DEF Follows
  <2>2. QED BY <2>1, WalkIs
<1>5. QED BY <1>4 DEF g

\* s[l] are the nodes of the list l, in order.
Holds(s) ==
  /\ \A l \in AList!Lists : /\ OneTime(s[l]) /\ Chain(node, s[l]) /\ Header(hdr[l], s[l])
                            /\ l \notin made => s[l] = <<>>
  /\ \A l, m \in AList!Lists, y \in Node : In(y, s[l]) /\ In(y, s[m]) => l = m
  /\ \A y \in Node : y \in used <=> \E l \in AList!Lists : In(y, s[l])
  /\ \A y \in Node \ used : node[y] = AList!Blank

AListInv ==
  /\ hdr \in [AList!Lists -> HeaderType] /\ node \in [Node -> NodeType]
  /\ made \subseteq AList!Lists /\ used \subseteq Node
  /\ \E s \in [AList!Lists -> Seq(Node)] : Holds(s)

LEMMA NodesAre ==
  ASSUME node \in [Node -> NodeType], NEW s \in Seq(Node), Chain(node, s),
         NEW l, Header(hdr[l], s)
  PROVE  /\ AList!Nodes(l) = s
         /\ AList!ToSet(AList!Nodes(l)) = {s[j] : j \in 1 .. Len(s)}
         /\ \A y : AList!Within(y, l) <=> In(y, s)
<1>1. Len(s) \in Nat /\ hdr[l].len = Len(s) /\ hdr[l].head = At(s, 1)
  BY DEF Header
<1>2. AList!Nodes(l) = AList!Walk(At(s, 1), "next", Len(s))
  BY <1>1 DEF AList!Nodes
<1>3. AList!Walk(At(s, 1), "next", Len(s)) = [j \in 1 .. Len(s) |-> At(s, j)]
  BY <1>1, WalkForward
<1>4. [j \in 1 .. Len(s) |-> At(s, j)] = s
  BY AtIs
<1>5. AList!Nodes(l) = s
  BY <1>2, <1>3, <1>4
<1>6. AList!ToSet(s) = {s[j] : j \in 1 .. Len(s)}
  BY DEF AList!ToSet
<1>7. \A y : AList!Within(y, l) <=> In(y, s)
  BY <1>5, <1>6 DEF AList!Within, In
<1>8. QED BY <1>5, <1>6, <1>7

LEMMA Agreeing ==
  ASSUME AListInv
  PROVE  AList!LinksAgree
<1>1. PICK s \in [AList!Lists -> Seq(Node)] : Holds(s)
  BY DEF AListInv
<1>2. /\ \A l \in AList!Lists :
           /\ s[l] \in Seq(Node) /\ OneTime(s[l]) /\ Chain(node, s[l]) /\ Header(hdr[l], s[l])
           /\ AList!Nodes(l) = s[l]
           /\ AList!ToSet(AList!Nodes(l)) = {s[l][j] : j \in 1 .. Len(s[l])}
  BY <1>1, NodesAre DEF AListInv, Holds
<1>3. node \in [Node -> NodeType] /\ made \subseteq AList!Lists /\ used \subseteq Node
  BY DEF AListInv
<1>4. ASSUME NEW l \in made
      PROVE  /\ AList!Walk(hdr[l].tail, "prev", hdr[l].len) = AList!Reverse(AList!Nodes(l))
             /\ AList!IsInjective(AList!Nodes(l))
             /\ AList!Walk(hdr[l].head, "next", hdr[l].len + 1)[hdr[l].len + 1] = AList!Null
             /\ hdr[l].len = 0 <=> hdr[l].tail = AList!Null
  <2>1. PICK t : t = s[l]
    OBVIOUS
  <2>2. /\ t \in Seq(Node) /\ OneTime(t) /\ Chain(node, t) /\ AList!Nodes(l) = t /\ Len(t) \in Nat
        /\ hdr[l].len = Len(t) /\ hdr[l].head = At(t, 1) /\ hdr[l].tail = At(t, Len(t))
    BY <1>2, <1>3, <2>1 DEF Header
  <2>3. AList!Walk(At(t, Len(t)), "prev", Len(t)) = AList!Reverse(t)
    <3>1. AList!Walk(At(t, Len(t)), "prev", Len(t)) = [j \in 1 .. Len(t) |-> At(t, (Len(t) - j) + 1)]
      BY <1>3, <2>2, WalkBack
    <3>2. \A j \in 1 .. Len(t) : (Len(t) - j) + 1 \in 1 .. Len(t)
      BY <2>2
    <3>3. \A j \in 1 .. Len(t) : At(t, (Len(t) - j) + 1) = t[(Len(t) - j) + 1]
      BY <3>2 DEF At
    <3>4. QED BY <3>1, <3>3 DEF AList!Reverse
  <2>4. AList!IsInjective(t)
    BY <2>2 DEF AList!IsInjective, OneTime
  <2>5. AList!Walk(At(t, 1), "next", Len(t) + 1)[Len(t) + 1] = 0
    <3>1. Len(t) + 1 \in Nat /\ Len(t) + 1 \in 1 .. Len(t) + 1 /\ Len(t) + 1 \notin 1 .. Len(t)
      BY <2>2
    <3>2. AList!Walk(At(t, 1), "next", Len(t) + 1)[Len(t) + 1] = At(t, Len(t) + 1)
      BY <1>3, <2>2, <3>1, WalkForward
    <3>3. QED BY <3>1, <3>2 DEF At
  <2>6. Len(t) = 0 <=> At(t, Len(t)) = 0
    <3>1. Len(t) = 0 <=> Len(t) \notin 1 .. Len(t)
      BY <2>2
    <3>2. QED BY <2>2, <3>1, AtIs
  <2>7. QED BY <2>2, <2>3, <2>4, <2>5, <2>6, NodeIs
<1>5. AList!ToSet(AList!Nodes("orig")) \cap AList!ToSet(AList!Nodes("copy")) = {}
  <2>1. SUFFICES ASSUME NEW y, y \in AList!ToSet(AList!Nodes("orig")),
                        y \in AList!ToSet(AList!Nodes("copy"))
                 PROVE  FALSE
    OBVIOUS
  <2>2. "orig" \in AList!Lists /\ "copy" \in AList!Lists
    BY DEF AList!Lists
  <2>3. In(y, s["orig"]) /\ In(y, s["copy"])
    BY <1>2, <2>1, <2>2 DEF In
  <2>4. y \in Node
    BY <1>2, <2>2, <2>3, AtIs DEF In
  <2>5. QED BY <1>1, <2>2, <2>3, <2>4 DEF Holds
<1>6. used = AList!ToSet(AList!Nodes("orig")) \cup AList!ToSet(AList!Nodes("copy"))
  <2>1. \A l \in AList!Lists : \A y : y \in AList!ToSet(AList!Nodes(l)) <=> y \in Node /\ In(y, s[l])
    BY <1>2, AtIs DEF In
  <2>2. AList!Lists = {"orig", "copy"}
    BY DEF AList!Lists
  <2>3. \A y : y \in used <=> y \in Node /\ (In(y, s["orig"]) \/ In(y, s["copy"]))
    BY <1>1, <1>3, <2>2 DEF Holds
  <2>4. QED BY <2>1, <2>2, <2>3
<1>7. QED BY <1>4, <1>5, <1>6 DEF AList!LinksAgree

LEMMA IndexIs ==
  ASSUME node \in [Node -> NodeType], NEW s \in Seq(Node), Chain(node, s),
         NEW l, Header(hdr[l], s)
  PROVE  /\ \A j \in 0 .. Len(s) - 1 :
              AList!ListIndex(l, j) = s[j + 1] /\ AList!ListIndex(l, j - Len(s)) = s[j + 1]
         /\ AList!ListIndex(l, Len(s)) = 0 /\ AList!ListIndex(l, -Len(s) - 1) = 0
<1>1. /\ Len(s) \in Nat /\ hdr[l].len = Len(s) /\ hdr[l].head = At(s, 1)
      /\ hdr[l].tail = At(s, Len(s))
  BY DEF Header
<1>2. ASSUME NEW j \in Nat
      PROVE  AList!ListIndex(l, j) = At(s, j + 1)
  <2>1. ~(j < 0) /\ j + 1 \in Nat /\ j + 1 \in 1 .. j + 1
    OBVIOUS
  <2>2. AList!ListIndex(l, j) = AList!Walk(At(s, 1), "next", j + 1)[j + 1]
    BY <1>1, <2>1 DEF AList!ListIndex
  <2>3. QED BY <2>1, <2>2, WalkForward
<1>3. ASSUME NEW k \in Nat \ {0}
      PROVE  AList!ListIndex(l, -k) = At(s, (Len(s) - k) + 1)
  <2>1. PICK c : c = -k
    OBVIOUS
  <2>2. c < 0 /\ -c - 1 = k - 1 /\ (k - 1) + 1 = k /\ k \in 1 .. k
    BY <2>1
  <2>3. AList!ListIndex(l, c) = AList!Walk(At(s, Len(s)), "prev", k)[k]
    BY <1>1, <2>2 DEF AList!ListIndex, AList!StepsBack
  <2>4. QED BY <2>1, <2>2, <2>3, WalkBack
<1>4. ASSUME NEW j \in 0 .. Len(s) - 1
      PROVE  AList!ListIndex(l, j) = s[j + 1] /\ AList!ListIndex(l, j - Len(s)) = s[j + 1]
  <2>1. /\ j \in Nat /\ j + 1 \in 1 .. Len(s) /\ Len(s) - j \in Nat \ {0}
        /\ -(Len(s) - j) = j - Len(s) /\ (Len(s) - (Len(s) - j)) + 1 = j + 1
    BY <1>1
  <2>2. AList!ListIndex(l, j) = At(s, j + 1)
    BY <1>2, <2>1
  <2>3. AList!ListIndex(l, j - Len(s)) = At(s, j + 1)
    <3>1. PICK k \in Nat \ {0} : k = Len(s) - j
      BY <2>1
    <3>2. AList!ListIndex(l, -k) = At(s, (Len(s) - k) + 1)
      BY <1>3
    <3>3. QED BY <2>1, <3>1, <3>2
  <2>4. QED BY <2>1, <2>2, <2>3, AtIs
<1>5. AList!ListIndex(l, Len(s)) = 0
  <2>1. Len(s) + 1 \notin 1 .. Len(s)
    BY <1>1
  <2>2. QED BY <1>1, <1>2, <2>1 DEF At
<1>6. AList!ListIndex(l, -Len(s) - 1) = 0
  <2>1. PICK k \in Nat \ {0} : k = Len(s) + 1
    BY <1>1
  <2>2. AList!ListIndex(l, -k) = At(s, (Len(s) - k) + 1)
    BY <1>3
  <2>3. -k = -Len(s) - 1 /\ (Len(s) - k) + 1 = 0
    BY <1>1, <2>1
  <2>4. QED BY <2>2, <2>3 DEF At
<1>7. QED BY <1>4, <1>5, <1>6

\* The first place from j on with the value, and the node there.
Carries(s, key, j) == j \in 1 .. Len(s) /\ node[s[j]].value = key
FirstFit(s, key, j) ==
  IF \E k \in Nat : j <= k /\ Carries(s, key, k)
  THEN s[CHOOSE k \in Nat : /\ j <= k /\ Carries(s, key, k)
                            /\ \A q \in Nat : j <= q /\ Carries(s, key, q) => k <= q]
  ELSE 0

LEMMA FirstFitIs ==
  ASSUME NEW s \in Seq(Node), NEW key, NEW j \in Nat
  PROVE  /\ Carries(s, key, j) => FirstFit(s, key, j) = s[j]
         /\ ~Carries(s, key, j) => FirstFit(s, key, j) = FirstFit(s, key, j + 1)
         /\ (\E k \in Nat : j <= k /\ Carries(s, key, k)) =>
              \E k \in Nat : /\ FirstFit(s, key, j) = s[k] /\ j <= k /\ Carries(s, key, k)
                             /\ \A q \in Nat : j <= q /\ Carries(s, key, q) => k <= q
         /\ ~(\E k \in Nat : j <= k /\ Carries(s, key, k)) => FirstFit(s, key, j) = 0
<1> DEFINE S(e) == {k \in Nat : e <= k /\ Carries(s, key, k)}
           L(e, k) == /\ e <= k /\ Carries(s, key, k)
                      /\ \A q \in Nat : e <= q /\ Carries(s, key, q) => k <= q
<1>1. \A e \in Nat : S(e) # {} => \E k \in Nat : L(e, k)
  <2>1. ASSUME NEW e \in Nat, S(e) # {}
        PROVE  \E k \in Nat : L(e, k)
    <3>1. PICK k \in S(e) : \A q \in S(e) : k <= q
      BY <2>1, LeastNumber
    <3>2. QED BY <3>1
  <2>2. QED BY <2>1
<1>2. \A e, k, h \in Nat : L(e, k) /\ L(e, h) => k = h
  OBVIOUS
<1>3. ASSUME NEW e \in Nat, S(e) # {}
      PROVE  \E k \in Nat : L(e, k) /\ FirstFit(s, key, e) = s[k]
  <2>1. (CHOOSE k \in Nat : L(e, k)) \in Nat /\ L(e, CHOOSE k \in Nat : L(e, k))
    BY <1>1, <1>3
  <2>2. \E k \in Nat : e <= k /\ Carries(s, key, k)
    BY <1>3
  <2>3. FirstFit(s, key, e) = s[CHOOSE k \in Nat : L(e, k)]
    BY <2>2 DEF FirstFit
  <2>4. QED BY <2>1, <2>3
<1>4. ASSUME NEW e \in Nat, S(e) = {}
      PROVE  FirstFit(s, key, e) = 0
  <2>1. ~\E k \in Nat : e <= k /\ Carries(s, key, k)
    BY <1>4
  <2>2. QED BY <2>1 DEF FirstFit
<1>5. ASSUME Carries(s, key, j)
      PROVE  FirstFit(s, key, j) = s[j]
  <2>1. L(j, j) /\ S(j) # {}
    BY <1>5
  <2>2. QED BY <1>2, <1>3, <2>1
<1>6. ASSUME ~Carries(s, key, j)
      PROVE  FirstFit(s, key, j) = FirstFit(s, key, j + 1)
  <2>1. \A k \in Nat : j <= k /\ Carries(s, key, k) <=> j + 1 <= k /\ Carries(s, key, k)
    <3>1. ASSUME NEW k \in Nat, j <= k, Carries(s, key, k)
          PROVE  j + 1 <= k
      <4>1. k # j
        BY <1>6, <3>1
      <4>2. QED BY <3>1, <4>1
    <3>2. \A k \in Nat : j + 1 <= k => j <= k
      OBVIOUS
    <3>3. QED BY <3>1, <3>2
  <2>2. j + 1 \in Nat /\ S(j) = S(j + 1)
    BY <2>1
  <2>3. CASE S(j) = {}
    BY <1>4, <2>2, <2>3
  <2>4. CASE S(j) # {}
    <3>1. PICK k \in Nat : L(j, k) /\ FirstFit(s, key, j) = s[k]
      BY <1>3, <2>4
    <3>2. PICK h \in Nat : L(j + 1, h) /\ FirstFit(s, key, j + 1) = s[h]
      BY <1>3, <2>2, <2>4
    <3>3. L(j, h)
      BY <2>1, <3>2
    <3>4. QED BY <1>2, <3>1, <3>2, <3>3
  <2>5. QED BY <2>3, <2>4
<1>7. QED BY <1>3, <1>4, <1>5, <1>6

\* Whoever looks along the links as listSearchKey does finds the first that fits.
Looks(h, key) ==
  \A y \in Pointer : h[y] = IF y = 0 \/ node[y].value = key THEN y ELSE h[node[y].next]

LEMMA LooksFinds ==
  ASSUME NEW s \in Seq(Node), Chain(node, s), NEW key, NEW h, Looks(h, key)
  PROVE  h[At(s, 1)] = FirstFit(s, key, 1)
<1>1. Len(s) \in Nat
  OBVIOUS
<1> DEFINE H == {k \in 0 .. Len(s) : h[At(s, (Len(s) - k) + 1)] = FirstFit(s, key, (Len(s) - k) + 1)}
<1>2. 0 \in H
  <2>1. (Len(s) - 0) + 1 = Len(s) + 1 /\ Len(s) + 1 \notin 1 .. Len(s) /\ 0 \in 0 .. Len(s)
    BY <1>1
  <2>2. At(s, Len(s) + 1) = 0
    BY <2>1 DEF At
  <2>3. h[0] = 0
    BY NodeIs DEF Looks
  <2>4. ~(\E k \in Nat : Len(s) + 1 <= k /\ Carries(s, key, k))
    BY <1>1 DEF Carries
  <2>5. FirstFit(s, key, Len(s) + 1) = 0
    BY <1>1, <2>4, FirstFitIs
  <2>6. QED BY <2>1, <2>2, <2>3, <2>5
<1>3. ASSUME NEW k \in 1 .. Len(s), k - 1 \in H
      PROVE  k \in H
  <2>1. PICK j : j = (Len(s) - k) + 1
    OBVIOUS
  <2>2. /\ j \in 1 .. Len(s) /\ j \in Nat /\ (Len(s) - (k - 1)) + 1 = j + 1 /\ k \in 0 .. Len(s)
    BY <1>1, <2>1
  <2>3. h[At(s, j + 1)] = FirstFit(s, key, j + 1)
    BY <1>3, <2>2
  <2>4. At(s, j) = s[j] /\ s[j] \in Node /\ s[j] # 0 /\ s[j] \in Pointer
    BY <2>2, AtIs, NodeIs
  <2>5. node[s[j]].next = At(s, j + 1)
    BY <2>2 DEF Chain
  <2>6. h[s[j]] = IF node[s[j]].value = key THEN s[j] ELSE h[At(s, j + 1)]
    BY <2>4, <2>5 DEF Looks
  <2>7. h[At(s, j)] = FirstFit(s, key, j)
    <3>1. CASE Carries(s, key, j)
      BY <2>2, <2>4, <2>6, <3>1, FirstFitIs DEF Carries
    <3>2. CASE ~Carries(s, key, j)
      <4>1. node[s[j]].value # key
        BY <2>2, <3>2 DEF Carries
      <4>2. QED BY <2>2, <2>3, <2>4, <2>6, <3>2, <4>1, FirstFitIs
    <3>3. QED BY <3>1, <3>2
  <2>8. QED BY <2>1, <2>2, <2>7
<1>4. Len(s) \in H
  <2> HIDE DEF H
  <2>1. \A k \in 0 .. Len(s) : k \in H
    BY <1>1, <1>2, <1>3, UpTo
  <2>2. QED BY <1>1, <2>1
<1>5. (Len(s) - Len(s)) + 1 = 1
  BY <1>1
<1>6. QED BY <1>4, <1>5

IsSearch(h, key) ==
  h = [y \in Pointer |-> IF y = 0 \/ node[y].value = key THEN y ELSE h[node[y].next]]

\* Every node stands in one chain that ends, so that there is such a way to look.
LEMMA SomeLooks ==
  ASSUME AListInv, NEW s \in [AList!Lists -> Seq(Node)], Holds(s), NEW key
  PROVE  \E h : IsSearch(h, key)
<1> DEFINE C == {s[l] : l \in AList!Lists} \cup {<<y>> : y \in Node \ used}
           t(y) == CHOOSE u \in C : In(y, u)
           p(y) == CHOOSE j \in 1 .. Len(t(y)) : t(y)[j] = y
           g == [y \in Pointer |-> IF y = 0 THEN 0 ELSE FirstFit(t(y), key, p(y))]
<1>1. ASSUME NEW u \in C
      PROVE  u \in Seq(Node) /\ OneTime(u) /\ Chain(node, u)
  <2>1. CASE \E l \in AList!Lists : u = s[l]
    BY <2>1 DEF Holds
  <2>2. CASE \E y \in Node \ used : u = <<y>>
    <3>1. PICK y \in Node \ used : u = <<y>>
      BY <2>2
    <3>2. node[y].next = 0 /\ node[y].prev = 0
      BY <3>1, NodeIs DEF Holds
    <3>3. /\ u \in Seq(Node) /\ Len(u) = 1 /\ 1 .. 1 = {1} /\ u[1] = y
          /\ 1 + 1 \notin {1} /\ 1 - 1 \notin {1}
      BY <3>1
    <3>4. OneTime(u)
      BY <3>3 DEF OneTime
    <3>5. At(u, 1 + 1) = 0 /\ At(u, 1 - 1) = 0
      BY <3>3 DEF At
    <3>6. Chain(node, u)
      BY <3>2, <3>3, <3>5 DEF Chain
    <3>7. QED BY <3>3, <3>4, <3>6
  <2>3. QED BY <2>1, <2>2
<1>2. ASSUME NEW y \in Node
      PROVE  \E u \in C : In(y, u)
  <2>1. CASE y \in used
    BY <2>1 DEF Holds
  <2>2. CASE y \notin used
    <3>1. <<y>> \in C
      BY <2>2
    <3>2. Len(<<y>>) = 1 /\ <<y>>[1] = y /\ 1 \in 1 .. 1
      OBVIOUS
    <3>3. In(y, <<y>>)
      BY <3>2 DEF In
    <3>4. QED BY <3>1, <3>3
  <2>3. QED BY <2>1, <2>2
<1>3. ASSUME NEW y \in Node, NEW u \in C, NEW v \in C, In(y, u), In(y, v)
      PROVE  u = v
  <2>1. \A w \in Node : \A x : In(x, <<w>>) => x = w
    BY DEF In
  <2>2. CASE y \in used
    <3>1. \A w \in Node \ used : ~In(y, <<w>>)
      BY <2>1, <2>2
    <3>2. PICK l \in AList!Lists : u = s[l]
      BY <1>3, <3>1
    <3>3. PICK m \in AList!Lists : v = s[m]
      BY <1>3, <3>1
    <3>4. QED BY <1>3, <3>2, <3>3 DEF Holds
  <2>3. CASE y \notin used
    <3>1. \A l \in AList!Lists : ~In(y, s[l])
      BY <2>3 DEF Holds
    <3>2. u = <<y>> /\ v = <<y>>
      BY <1>3, <2>1, <3>1
    <3>3. QED BY <3>2
  <2>4. QED BY <2>2, <2>3
<1> HIDE DEF C
<1>4. ASSUME NEW u \in C, NEW j \in Nat \ {0}
      PROVE  g[At(u, j)] = FirstFit(u, key, j)
  <2>1. u \in Seq(Node) /\ OneTime(u)
    BY <1>1
  <2>2. CASE j \in 1 .. Len(u)
    <3>1. PICK y : y = u[j]
      OBVIOUS
    <3>2. y \in Node /\ At(u, j) = y /\ y # 0 /\ y \in Pointer /\ In(y, u)
      BY <2>1, <2>2, <3>1, AtIs, NodeIs DEF In
    <3>3. t(y) = u
      <4>1. t(y) \in C /\ In(y, t(y))
        BY <1>2, <3>2
      <4>2. QED BY <1>3, <3>2, <4>1
    <3> HIDE DEF t
    <3>4. p(y) \in 1 .. Len(u) /\ u[p(y)] = y
      BY <2>2, <3>1, <3>3
    <3> HIDE DEF p
    <3>5. p(y) = j
      BY <2>1, <2>2, <3>1, <3>4 DEF OneTime
    <3>6. QED BY <3>2, <3>3, <3>5
  <2>3. CASE j \notin 1 .. Len(u)
    <3>1. At(u, j) = 0 /\ 0 \in Pointer
      BY <2>3, NodeIs DEF At
    <3>2. ~(\E k \in Nat : j <= k /\ Carries(u, key, k))
      <4>1. Len(u) \in Nat
        BY <2>1
      <4>2. QED BY <2>3, <4>1 DEF Carries
    <3>3. FirstFit(u, key, j) = 0
      BY <2>1, <3>2, FirstFitIs
    <3>4. QED BY <3>1, <3>3
  <2>4. QED BY <2>2, <2>3
<1>5. ASSUME NEW y \in Node
      PROVE  g[y] = IF y = 0 \/ node[y].value = key THEN y ELSE g[node[y].next]
  <2>1. PICK u \in C : In(y, u)
    BY <1>2
  <2>2. PICK j \in 1 .. Len(u) : u[j] = y
    BY <2>1 DEF In
  <2>3. /\ u \in Seq(Node) /\ Chain(node, u) /\ j \in Nat \ {0} /\ j + 1 \in Nat \ {0} /\ y # 0
        /\ At(u, j) = y
    BY <1>1, <2>2, NodeIs DEF At
  <2>4. node[y].next = At(u, j + 1)
    BY <2>2, <2>3 DEF Chain
  <2>5. g[y] = FirstFit(u, key, j) /\ g[node[y].next] = FirstFit(u, key, j + 1)
    BY <1>4, <2>3, <2>4
  <2> HIDE DEF g
  <2>6. Carries(u, key, j) <=> node[y].value = key
    BY <2>2 DEF Carries
  <2>7. QED BY <2>2, <2>3, <2>5, <2>6, FirstFitIs
<1>6. g = [y \in Pointer |-> IF y = 0 \/ node[y].value = key THEN y ELSE g[node[y].next]]
  <2>1. \A y \in Pointer : g[y] = IF y = 0 \/ node[y].value = key THEN y ELSE g[node[y].next]
    <3>1. ASSUME NEW y \in Pointer
          PROVE  g[y] = IF y = 0 \/ node[y].value = key THEN y ELSE g[node[y].next]
      <4>1. CASE y = 0
        BY <3>1, <4>1
      <4>2. CASE y # 0
        <5>1. y \in Node
          BY <3>1, <4>2, NodeIs
        <5>2. QED BY <1>5, <5>1
      <4>3. QED BY <4>1, <4>2
    <3>2. QED BY <3>1
  <2>2. g = [y \in Pointer |-> g[y]]
    OBVIOUS
  <2> HIDE DEF g
  <2>3. QED BY <2>1, <2>2
<1>7. IsSearch(g, key)
  BY <1>6 DEF IsSearch
<1> HIDE DEF g
<1>8. QED BY <1>7

LEMMA SearchIs ==
  ASSUME AListInv, NEW s \in [AList!Lists -> Seq(Node)], Holds(s), NEW key, NEW l \in AList!Lists
  PROVE  AList!SearchKey(l, key) = FirstFit(s[l], key, 1)
<1> DEFINE B(h) == [y \in Node \cup {AList!Null} |->
                      IF y = AList!Null \/ node[y].value = key THEN y ELSE h[node[y].next]]
           from == CHOOSE h : h = B(h)
<1>1. \E h : h = B(h)
  <2>1. Pointer = Node \cup {AList!Null} /\ AList!Null = 0
    BY NodeIs
  <2>2. PICK h : IsSearch(h, key)
    BY SomeLooks
  <2>3. h = B(h)
    BY <2>1, <2>2 DEF IsSearch
  <2>4. QED BY <2>3
<1>2. from = B(from)
  BY <1>1
<1>3. AList!SearchKey(l, key) = from[hdr[l].head]
  BY DEF AList!SearchKey, Node
<1> HIDE DEF from
<1>4. Looks(from, key)
  BY <1>2, NodeIs DEF Looks
<1>5. s[l] \in Seq(Node) /\ Chain(node, s[l]) /\ hdr[l].head = At(s[l], 1)
  BY DEF Holds, Header
<1>6. from[At(s[l], 1)] = FirstFit(s[l], key, 1)
  BY <1>4, <1>5, LooksFinds
<1>7. QED BY <1>3, <1>5, <1>6

LEMMA LookingUp ==
  ASSUME AListInv
  PROVE  AList!LooksUp
<1>1. PICK s \in [AList!Lists -> Seq(Node)] : Holds(s)
  BY DEF AListInv
<1>2. SUFFICES ASSUME NEW l \in made
      PROVE  LET k == hdr[l].len
             IN  /\ \A j \in 0 .. k - 1 :
                      /\ AList!ListIndex(l, j) = AList!Nodes(l)[j + 1]
                      /\ AList!ListIndex(l, j - k) = AList!Nodes(l)[j + 1]
                 /\ AList!ListIndex(l, k) = AList!Null /\ AList!ListIndex(l, -k - 1) = AList!Null
                 /\ \A v \in Value :
                      LET m == AList!SearchKey(l, v)
                      IN  IF \E j \in 1 .. k : AList!Values(l)[j] = v
                          THEN \E j \in 1 .. k :
                                 /\ AList!Nodes(l)[j] = m /\ AList!Values(l)[j] = v
                                 /\ \A h \in 1 .. j - 1 : AList!Values(l)[h] # v
                          ELSE m = AList!Null
  BY DEF AList!LooksUp
<1>3. node \in [Node -> NodeType] /\ l \in AList!Lists
  BY DEF AListInv
<1>4. PICK t : t = s[l]
  OBVIOUS
<1>5. t \in Seq(Node) /\ Chain(node, t) /\ Header(hdr[l], t)
  BY <1>1, <1>3, <1>4 DEF Holds
<1>6. AList!Nodes(l) = t /\ hdr[l].len = Len(t) /\ Len(t) \in Nat /\ AList!Null = 0
  BY <1>3, <1>5, NodesAre, NodeIs DEF Header
<1>7. /\ \A j \in 0 .. Len(t) - 1 : /\ AList!ListIndex(l, j) = t[j + 1]
                                    /\ AList!ListIndex(l, j - Len(t)) = t[j + 1]
      /\ AList!ListIndex(l, Len(t)) = 0 /\ AList!ListIndex(l, -Len(t) - 1) = 0
  BY <1>3, <1>5, IndexIs
<1>8. \A j \in 1 .. Len(t) : AList!Values(l)[j] = node[t[j]].value
  <2>1. \A j \in 1 .. Len(t) : t[j] # 0
    BY <1>5, AtIs, NodeIs
  <2>2. QED BY <1>6, <2>1 DEF AList!Values
<1>9. ASSUME NEW v \in Value
      PROVE  IF \E j \in 1 .. Len(t) : AList!Values(l)[j] = v
             THEN \E j \in 1 .. Len(t) :
                    /\ t[j] = AList!SearchKey(l, v) /\ AList!Values(l)[j] = v
                    /\ \A h \in 1 .. j - 1 : AList!Values(l)[h] # v
             ELSE AList!SearchKey(l, v) = 0
  <2>1. AList!SearchKey(l, v) = FirstFit(t, v, 1)
    BY <1>1, <1>3, <1>4, SearchIs
  <2>2. \A j \in Nat : 1 <= j /\ Carries(t, v, j) <=> j \in 1 .. Len(t) /\ AList!Values(l)[j] = v
    BY <1>6, <1>8 DEF Carries
  <2>3. CASE \E j \in 1 .. Len(t) : AList!Values(l)[j] = v
    <3>1. \E j \in Nat : 1 <= j /\ Carries(t, v, j)
      BY <2>2, <2>3
    <3>2. PICK j \in Nat : /\ FirstFit(t, v, 1) = t[j] /\ 1 <= j /\ Carries(t, v, j)
                           /\ \A h \in Nat : 1 <= h /\ Carries(t, v, h) => j <= h
      BY <1>5, <3>1, FirstFitIs
    <3>3. j \in 1 .. Len(t) /\ AList!Values(l)[j] = v
      BY <2>2, <3>2
    <3>4. ASSUME NEW h \in 1 .. j - 1
          PROVE  AList!Values(l)[h] # v
      <4>1. h \in Nat /\ h \in 1 .. Len(t) /\ 1 <= h /\ ~(j <= h)
        BY <1>6, <3>3
      <4>2. ~Carries(t, v, h)
        BY <3>2, <4>1
      <4>3. QED BY <2>2, <4>1, <4>2
    <3>5. QED BY <2>1, <2>3, <3>2, <3>3, <3>4
  <2>4. CASE ~\E j \in 1 .. Len(t) : AList!Values(l)[j] = v
    <3>1. ~\E j \in Nat : 1 <= j /\ Carries(t, v, j)
      BY <2>2, <2>4
    <3>2. FirstFit(t, v, 1) = 0
      BY <1>5, <3>1, FirstFitIs
    <3>3. QED BY <2>1, <2>4, <3>2
  <2>5. QED BY <2>3, <2>4
<1>10. QED BY <1>6, <1>7, <1>9

LEMMA AListSafe ==
  ASSUME AListInv
  PROVE  AList!Linked
BY Agreeing, LookingUp DEF AList!Linked

----------------------------------------------------------------------------
\* What the nodes and the values of a list are, before a call and after it.
HeldAre ==
  \A s \in [AList!Lists -> Seq(Node)] :
    node \in [Node -> NodeType] /\ Holds(s) =>
      \A l \in AList!Lists : /\ AList!Nodes(l) = s[l]
                             /\ AList!Values(l) = [j \in 1 .. Len(s[l]) |-> node[s[l][j]].value]

LEMMA HeldThen == HeldAre
<1>1. SUFFICES ASSUME NEW s \in [AList!Lists -> Seq(Node)], node \in [Node -> NodeType], Holds(s),
                      NEW l \in AList!Lists
               PROVE  /\ AList!Nodes(l) = s[l]
                      /\ AList!Values(l) = [j \in 1 .. Len(s[l]) |-> node[s[l][j]].value]
  BY DEF HeldAre
<1>2. PICK r : r = s[l]
  OBVIOUS
<1>3. r \in Seq(Node) /\ Chain(node, r) /\ Header(hdr[l], r)
  BY <1>1, <1>2 DEF Holds
<1>4. AList!Nodes(l) = r
  BY <1>1, <1>3, NodesAre
<1>5. DOMAIN r = 1 .. Len(r) /\ \A j \in 1 .. Len(r) : r[j] # AList!Null
  BY <1>3, NodeIs, AtIs
<1>6. AList!Values(l) = [j \in 1 .. Len(r) |-> node[r[j]].value]
  BY <1>4, <1>5 DEF AList!Values
<1>7. QED BY <1>2, <1>4, <1>6

LEMMA HeldNow == HeldAre'
BY HeldThen, PTL

\* What a call makes of the list l: the nodes t; the other is as it was.
Becomes(l, t) ==
  /\ AList!Nodes(l)' = t
  /\ AList!Values(l)' = [j \in 1 .. Len(t) |-> node'[t[j]].value]
  /\ \A m \in AList!Lists : m # l => /\ AList!Nodes(m)' = AList!Nodes(m)
                                     /\ AList!Values(m)' = AList!Values(m)

\* A call changes one list at most: l, whose nodes were s[l] and now are t.
Changes(s, l, t) ==
  /\ node' \in [Node -> NodeType] /\ made' \subseteq AList!Lists /\ used' \subseteq Node
  /\ hdr' \in [AList!Lists -> HeaderType]
  /\ OneTime(t) /\ Chain(node, t)' /\ Header(hdr'[l], t) /\ (l \notin made' => t = <<>>)
  /\ \A m \in AList!Lists : m # l => hdr'[m] = hdr[m] /\ (m \in made' <=> m \in made)
  /\ \A y \in Node :
       /\ In(y, t) => In(y, s[l]) \/ y \notin used
       /\ y \in used' <=> In(y, t) \/ (y \in used /\ ~In(y, s[l]))
       /\ ~In(y, t) => node'[y] = IF In(y, s[l]) THEN AList!Blank ELSE node[y]

LEMMA OneChanges ==
  ASSUME AListInv, NEW s \in [AList!Lists -> Seq(Node)], Holds(s), NEW l \in AList!Lists,
         NEW t \in Seq(Node), Changes(s, l, t)
  PROVE  AListInv' /\ Becomes(l, t)
<1>1. PICK u : u = [s EXCEPT ![l] = t]
  OBVIOUS
<1>2. /\ u \in [AList!Lists -> Seq(Node)] /\ u[l] = t
      /\ \A m \in AList!Lists : m # l => u[m] = s[m]
  BY <1>1
<1>3. \A m \in AList!Lists : m # l => \A y \in Node : In(y, s[m]) => ~In(y, t) /\ ~In(y, s[l])
  <2>1. SUFFICES ASSUME NEW m \in AList!Lists, m # l, NEW y \in Node, In(y, s[m])
                 PROVE  ~In(y, t) /\ ~In(y, s[l])
    OBVIOUS
  <2>2. ~In(y, s[l]) /\ y \in used
    BY <2>1 DEF Holds
  <2>3. QED BY <2>2 DEF Changes
<1>4. ASSUME NEW m \in AList!Lists
      PROVE  /\ OneTime(u[m]) /\ Chain(node, u[m])' /\ Header(hdr'[m], u[m])
             /\ m \notin made' => u[m] = <<>>
  <2>1. CASE m = l
    BY <1>2, <2>1 DEF Changes
  <2>2. CASE m # l
    <3>1. /\ OneTime(s[m]) /\ Chain(node, s[m]) /\ Header(hdr[m], s[m])
          /\ m \notin made => s[m] = <<>>
      BY DEF Holds
    <3>2. hdr'[m] = hdr[m] /\ (m \in made' <=> m \in made)
      BY <2>2 DEF Changes
    <3>3. \A j \in 1 .. Len(s[m]) : node'[s[m][j]] = node[s[m][j]]
      <4>1. SUFFICES ASSUME NEW j \in 1 .. Len(s[m])
                     PROVE  node'[s[m][j]] = node[s[m][j]]
        OBVIOUS
      <4>2. s[m] \in Seq(Node) /\ s[m][j] \in Node /\ In(s[m][j], s[m])
        BY DEF In
      <4>3. ~In(s[m][j], t) /\ ~In(s[m][j], s[l])
        BY <1>3, <2>2, <4>2
      <4>4. QED BY <4>2, <4>3 DEF Changes
    <3>4. Chain(node', s[m])
      BY <3>1, <3>3 DEF Chain
    <3>5. u[m] = s[m]
      BY <1>2, <2>2
    <3>6. QED BY <3>1, <3>2, <3>4, <3>5
  <2>3. QED BY <2>1, <2>2
<1>5. ASSUME NEW k \in AList!Lists, NEW m \in AList!Lists, NEW y \in Node, In(y, u[k]), In(y, u[m])
      PROVE  k = m
  <2>1. CASE k = l \/ m = l
    BY <1>2, <1>3, <1>5, <2>1
  <2>2. CASE k # l /\ m # l
    BY <1>2, <1>5, <2>2 DEF Holds
  <2>3. QED BY <2>1, <2>2
<1>6. ASSUME NEW y \in Node
      PROVE  y \in used' <=> \E m \in AList!Lists : In(y, u[m])
  <2>1. y \in used <=> \E m \in AList!Lists : In(y, s[m])
    BY DEF Holds
  <2>2. y \in used' <=> In(y, t) \/ (y \in used /\ ~In(y, s[l]))
    BY DEF Changes
  <2>3. ASSUME y \in used'
        PROVE  \E m \in AList!Lists : In(y, u[m])
    <3>1. CASE In(y, t)
      BY <1>2, <3>1
    <3>2. CASE y \in used /\ ~In(y, s[l])
      <4>1. PICK m \in AList!Lists : In(y, s[m])
        BY <2>1, <3>2
      <4>2. m # l /\ u[m] = s[m]
        BY <1>2, <3>2, <4>1
      <4>3. QED BY <4>1, <4>2
    <3>3. QED BY <2>2, <2>3, <3>1, <3>2
  <2>4. ASSUME NEW m \in AList!Lists, In(y, u[m])
        PROVE  y \in used'
    <3>1. CASE m = l
      BY <1>2, <2>2, <2>4, <3>1
    <3>2. CASE m # l
      BY <1>2, <1>3, <2>1, <2>2, <2>4, <3>2
    <3>3. QED BY <3>1, <3>2
  <2>5. QED BY <2>3, <2>4
<1>7. ASSUME NEW y \in Node \ used'
      PROVE  node'[y] = AList!Blank
  <2>1. ~In(y, t) /\ (y \in used => In(y, s[l]))
    BY DEF Changes
  <2>2. node'[y] = IF In(y, s[l]) THEN AList!Blank ELSE node[y]
    BY <2>1 DEF Changes
  <2>3. QED BY <2>1, <2>2 DEF Holds
<1>8. Holds(u)'
  BY <1>4, <1>5, <1>6, <1>7 DEF Holds
<1>9. AListInv'
  BY <1>2, <1>8 DEF AListInv, Changes
<1>10. node \in [Node -> NodeType] /\ (node \in [Node -> NodeType])'
  BY DEF AListInv, Changes
<1>11. \A m \in AList!Lists :
         /\ AList!Nodes(m)' = u[m]
         /\ AList!Values(m)' = [j \in 1 .. Len(u[m]) |-> node'[u[m][j]].value]
  BY <1>2, <1>8, <1>10, HeldNow DEF HeldAre
<1>12. \A m \in AList!Lists :
         /\ AList!Nodes(m) = s[m]
         /\ AList!Values(m) = [j \in 1 .. Len(s[m]) |-> node[s[m][j]].value]
  BY <1>10, HeldThen DEF HeldAre
<1>13. ASSUME NEW m \in AList!Lists, m # l, NEW j \in 1 .. Len(s[m])
       PROVE  node'[s[m][j]] = node[s[m][j]]
  <2>1. s[m] \in Seq(Node) /\ s[m][j] \in Node /\ In(s[m][j], s[m])
    BY <1>13 DEF In
  <2>2. ~In(s[m][j], t) /\ ~In(s[m][j], s[l])
    BY <1>3, <1>13, <2>1
  <2>3. QED BY <2>1, <2>2 DEF Changes
<1>14. ASSUME NEW m \in AList!Lists, m # l
       PROVE  AList!Nodes(m)' = AList!Nodes(m) /\ AList!Values(m)' = AList!Values(m)
  <2>1. PICK r : r = s[m]
    OBVIOUS
  <2>2. u[m] = r /\ AList!Nodes(m)' = r /\ AList!Nodes(m) = r
    BY <1>2, <1>11, <1>12, <1>14, <2>1
  <2>3. /\ AList!Values(m)' = [j \in 1 .. Len(r) |-> node'[r[j]].value]
        /\ AList!Values(m) = [j \in 1 .. Len(r) |-> node[r[j]].value]
    BY <1>11, <1>12, <2>1, <2>2
  <2>4. \A j \in 1 .. Len(r) : node'[r[j]] = node[r[j]]
    BY <1>13, <1>14, <2>1
  <2>5. QED BY <2>2, <2>3, <2>4
<1>15. Becomes(l, t)
  BY <1>2, <1>11, <1>14 DEF Becomes
<1>16. QED BY <1>9, <1>15

LEMMA NewIs ==
  ASSUME used \subseteq Node, used # Node
  PROVE  AList!NewNode \in Node \ used
<1>1. Node \ used # {} /\ Node \ used \subseteq Nat
  BY NodeIs
<1>2. \E x \in Node \ used : \A y \in Node \ used : x <= y
  BY <1>1, LeastNumber
<1>3. AList!NewNode = CHOOSE x \in Node \ used : \A y \in Node \ used : x <= y
  BY DEF AList!NewNode, AList!Min, Node
<1>4. QED BY <1>2, <1>3

LEMMA HeaderInserted ==
  ASSUME NEW s \in Seq(Node), NEW x \in Node, NEW p \in 1 .. Len(s) + 1, NEW h,
         h.len = Len(s) + 1, h.head = (IF p = 1 THEN x ELSE At(s, 1)),
         h.tail = (IF p = Len(s) + 1 THEN x ELSE At(s, Len(s)))
  PROVE  Header(h, Inserted(s, p, x))
<1>1. Len(s) \in Nat /\ Len(Inserted(s, p, x)) = Len(s) + 1 /\ 1 \in Int /\ Len(s) + 1 \in Int
  BY InsertedIs
<1>2. At(Inserted(s, p, x), 1) = IF 1 < p THEN At(s, 1) ELSE IF 1 = p THEN x ELSE At(s, 1 - 1)
  BY AtInserted
<1>3. At(Inserted(s, p, x), Len(s) + 1)
        = IF Len(s) + 1 < p THEN At(s, Len(s) + 1)
          ELSE IF Len(s) + 1 = p THEN x ELSE At(s, (Len(s) + 1) - 1)
  BY <1>1, AtInserted
<1>4. (p = 1 <=> ~(1 < p)) /\ ~(Len(s) + 1 < p) /\ (Len(s) + 1) - 1 = Len(s)
  BY <1>1
<1>5. QED BY <1>1, <1>2, <1>3, <1>4 DEF Header

\* The node x with the value v comes in at the place p of the list l.
Adds(r, l, x, p, v) ==
  /\ node' = Joined(node, x, At(r, p - 1), At(r, p), v)
  /\ used' = used \cup {x} /\ made' = made
  /\ \E h \in HeaderType :
       /\ hdr' = [hdr EXCEPT ![l] = h]
       /\ h.len = Len(r) + 1 /\ h.head = (IF p = 1 THEN x ELSE At(r, 1))
       /\ h.tail = (IF p = Len(r) + 1 THEN x ELSE At(r, Len(r)))

\* The call's own list with x at the place p, as its user sees it.
AddedAt(l, p, x, v) ==
  /\ x \in Node \ used /\ p \in 1 .. Len(AList!Nodes(l)) + 1
  /\ Becomes(l, Inserted(AList!Nodes(l), p, x))
  /\ node'[x].value = v /\ \A y \in Node \ {x} : node'[y].value = node[y].value

LEMMA AddsAt ==
  ASSUME AListInv, NEW s \in [AList!Lists -> Seq(Node)], Holds(s), NEW l \in made,
         NEW x \in Node \ used, NEW p \in 1 .. Len(s[l]) + 1, NEW v \in Value,
         Adds(s[l], l, x, p, v)
  PROVE  AListInv' /\ AddedAt(l, p, x, v)
<1>1. /\ l \in AList!Lists /\ node \in [Node -> NodeType] /\ x \in Node
      /\ hdr \in [AList!Lists -> HeaderType]
  BY DEF AListInv
<1>2. PICK r : r = s[l]
  OBVIOUS
<1>3. r \in Seq(Node) /\ OneTime(r) /\ Chain(node, r) /\ p \in 1 .. Len(r) + 1
  BY <1>1, <1>2 DEF Holds
<1>4. ~In(x, r)
  BY <1>1, <1>2 DEF Holds
<1>5. At(r, p - 1) \in Pointer /\ At(r, p) \in Pointer
  BY <1>3, AtIs
<1>6. PICK c : c = node'
  OBVIOUS
<1>7. c = Joined(node, x, At(r, p - 1), At(r, p), v)
  BY <1>2, <1>6 DEF Adds
<1>8. c \in [Node -> NodeType] /\ JoinedIs(c, node, x, At(r, p - 1), At(r, p), v)
  BY <1>1, <1>5, <1>7, LinkedIn
<1>9. PICK t : t = Inserted(r, p, x)
  OBVIOUS
<1>10. Chain(c, t) /\ \A y \in Node : y # x /\ ~In(y, r) => c[y] = node[y]
  <2>1. Chain(c, Inserted(r, p, x)) /\ \A y \in Node : y # x /\ ~In(y, r) => c[y] = node[y]
    <3>1. r \in Seq(Node) /\ OneTime(r) /\ Chain(node, r) /\ x \in Node /\ ~In(x, r)
      BY <1>1, <1>3, <1>4
    <3>2. /\ p \in 1 .. Len(r) + 1 /\ node \in [Node -> NodeType] /\ c \in [Node -> NodeType]
          /\ JoinedIs(c, node, x, At(r, p - 1), At(r, p), v)
      BY <1>1, <1>3, <1>8
    <3>3. QED BY <3>1, <3>2, InsertChain
  <2>2. QED BY <1>9, <2>1
<1>11. t \in Seq(Node) /\ OneTime(t) /\ \A y : In(y, t) <=> y = x \/ In(y, r)
  BY <1>1, <1>3, <1>4, <1>9, InsertedIs
<1>12. PICK h \in HeaderType :
         /\ hdr' = [hdr EXCEPT ![l] = h]
         /\ h.len = Len(r) + 1 /\ h.head = (IF p = 1 THEN x ELSE At(r, 1))
         /\ h.tail = (IF p = Len(r) + 1 THEN x ELSE At(r, Len(r)))
  BY <1>2 DEF Adds
<1>13. Changes(s, l, t)
  <2>1. /\ hdr' \in [AList!Lists -> HeaderType] /\ hdr'[l] = h
        /\ \A m \in AList!Lists : m # l => hdr'[m] = hdr[m]
    BY <1>1, <1>12
  <2>6. Header(h, t)
    BY <1>1, <1>3, <1>9, <1>12, HeaderInserted
  <2>2. Chain(node, t)'
    BY <1>6, <1>10 DEF Chain
  <2>3. made' = made /\ used' = used \cup {x} /\ used' \subseteq Node /\ made' \subseteq AList!Lists /\ l \in made'
    BY DEF AListInv, Adds
  <2>4. ASSUME NEW y \in Node
        PROVE  /\ In(y, t) => In(y, s[l]) \/ y \notin used
               /\ y \in used' <=> In(y, t) \/ (y \in used /\ ~In(y, s[l]))
               /\ ~In(y, t) => node'[y] = IF In(y, s[l]) THEN AList!Blank ELSE node[y]
    <3>1. In(y, s[l]) => y \in used
      BY <1>1 DEF Holds
    <3>2. QED BY <1>2, <1>6, <1>10, <1>11, <2>3, <3>1
  <2>5. QED BY <1>6, <1>8, <1>11, <2>1, <2>2, <2>3, <2>4, <2>6 DEF Changes
<1>14. AListInv' /\ Becomes(l, t)
  BY <1>1, <1>11, <1>13, OneChanges
<1>15. AList!Nodes(l) = r
  BY <1>1, <1>2, HeldThen DEF HeldAre
<1>16. node'[x].value = v /\ \A y \in Node \ {x} : node'[y].value = node[y].value
  BY <1>1, <1>6, <1>8 DEF JoinedIs
<1>17. QED BY <1>3, <1>9, <1>14, <1>15, <1>16 DEF AddedAt

LEMMA AddHeadKeeps ==
  ASSUME AListInv, NEW l \in AList!Lists, NEW v \in Value, AList!AddNodeHead(l, v)
  PROVE  AListInv' /\ \E x \in Node : AddedAt(l, 1, x, v)
<1>1. PICK s \in [AList!Lists -> Seq(Node)] : Holds(s)
  BY DEF AListInv
<1>2. l \in made /\ used # Node /\ made' = made
  BY DEF AList!AddNodeHead, Node
<1>3. PICK x \in Node \ used : x = AList!NewNode
  BY <1>2, NewIs DEF AListInv
<1>4. PICK q : q = IF hdr[l].len = 0 THEN AList!Null ELSE hdr[l].head
  OBVIOUS
<1>5. PICK h : h = [head |-> x, len |-> hdr[l].len + 1,
                    tail |-> IF hdr[l].len = 0 THEN x ELSE hdr[l].tail]
  OBVIOUS
<1>6. /\ used' = used \cup {x} /\ hdr' = [hdr EXCEPT ![l] = h]
      /\ node' = AList!Put([node EXCEPT ![x] = [prev |-> AList!Null, next |-> q, value |-> v]],
                           q, "prev", x)
  BY <1>3, <1>4, <1>5 DEF AList!AddNodeHead
<1>7. PICK r : r = s[l]
  OBVIOUS
<1>8. r \in Seq(Node) /\ Len(r) \in Nat /\ Header(hdr[l], r)
  BY <1>1, <1>7 DEF Holds
<1>9. q = At(r, 1) /\ At(r, 0) = 0 /\ 1 - 1 = 0 /\ AList!Null = 0
  BY <1>4, <1>8, NodeIs DEF Header, At
<1>10. node' = Joined(node, x, At(r, 1 - 1), At(r, 1), v)
  BY <1>6, <1>9 DEF Joined, AList!Put
<1>11. h.len = Len(r) + 1 /\ h.head = x /\ h.tail = IF Len(r) = 0 THEN x ELSE At(r, Len(r))
  BY <1>5, <1>8 DEF Header
<1>12. h \in HeaderType
  <2>1. x \in Pointer /\ At(r, Len(r)) \in Pointer
    BY <1>8, AtIs, NodeIs
  <2>2. (IF hdr[l].len = 0 THEN x ELSE hdr[l].tail) \in Pointer /\ hdr[l].len + 1 \in Nat
    BY <1>8, <2>1 DEF Header
  <2>3. QED BY <1>5, <2>1, <2>2 DEF HeaderType
<1>13. 1 \in 1 .. Len(r) + 1 /\ (1 = Len(r) + 1 <=> Len(r) = 0)
  BY <1>8
<1>14. h.tail = IF 1 = Len(r) + 1 THEN x ELSE At(r, Len(r))
  BY <1>11, <1>13
<1>15. Adds(r, l, x, 1, v)
  BY <1>2, <1>6, <1>10, <1>11, <1>12, <1>14 DEF Adds
<1>16. AListInv' /\ AddedAt(l, 1, x, v)
  BY <1>1, <1>2, <1>7, <1>13, <1>15, AddsAt
<1>17. QED BY <1>16

LEMMA AddTailKeeps ==
  ASSUME AListInv, NEW l \in AList!Lists, NEW v \in Value, AList!AddNodeTail(l, v)
  PROVE  AListInv' /\ \E x \in Node : AddedAt(l, Len(AList!Nodes(l)) + 1, x, v)
<1>1. PICK s \in [AList!Lists -> Seq(Node)] : Holds(s)
  BY DEF AListInv
<1>2. l \in made /\ used # Node /\ made' = made
  BY DEF AList!AddNodeTail, Node
<1>3. PICK x \in Node \ used : x = AList!NewNode
  BY <1>2, NewIs DEF AListInv
<1>4. PICK q : q = IF hdr[l].len = 0 THEN AList!Null ELSE hdr[l].tail
  OBVIOUS
<1>5. PICK h : h = [tail |-> x, len |-> hdr[l].len + 1,
                    head |-> IF hdr[l].len = 0 THEN x ELSE hdr[l].head]
  OBVIOUS
<1>6. /\ used' = used \cup {x} /\ hdr' = [hdr EXCEPT ![l] = h]
      /\ node' = AList!Put([node EXCEPT ![x] = [prev |-> q, next |-> AList!Null, value |-> v]],
                           q, "next", x)
  BY <1>3, <1>4, <1>5 DEF AList!AddNodeTail
<1>7. PICK r : r = s[l]
  OBVIOUS
<1>8. r \in Seq(Node) /\ Len(r) \in Nat /\ Header(hdr[l], r)
  BY <1>1, <1>7 DEF Holds
<1>9. PICK p : p = Len(r) + 1
  OBVIOUS
<1>10. p \in 1 .. Len(r) + 1 /\ p - 1 = Len(r) /\ p \notin 1 .. Len(r) /\ (p = 1 <=> Len(r) = 0)
  BY <1>8, <1>9
<1>11. q = At(r, p - 1) /\ At(r, p) = 0 /\ AList!Null = 0
  BY <1>4, <1>8, <1>10, NodeIs DEF Header, At
<1>12. node' = Joined(node, x, At(r, p - 1), At(r, p), v)
  BY <1>6, <1>11 DEF Joined, AList!Put
<1>13. /\ h.len = Len(r) + 1 /\ h.tail = (IF p = Len(r) + 1 THEN x ELSE At(r, Len(r)))
       /\ h.head = IF p = 1 THEN x ELSE At(r, 1)
  BY <1>5, <1>8, <1>9, <1>10 DEF Header
<1>14. h \in HeaderType
  <2>1. x \in Pointer /\ At(r, 1) \in Pointer
    BY <1>8, AtIs, NodeIs
  <2>2. (IF hdr[l].len = 0 THEN x ELSE hdr[l].head) \in Pointer /\ hdr[l].len + 1 \in Nat
    BY <1>8, <2>1 DEF Header
  <2>3. QED BY <1>5, <2>1, <2>2 DEF HeaderType
<1>15. Adds(r, l, x, p, v)
  BY <1>2, <1>6, <1>12, <1>13, <1>14 DEF Adds
<1>16. AListInv' /\ AddedAt(l, p, x, v)
  BY <1>1, <1>2, <1>7, <1>10, <1>15, AddsAt
<1>17. p = Len(AList!Nodes(l)) + 1
  BY <1>1, <1>7, <1>9, HeldThen DEF HeldAre, AListInv
<1>18. QED BY <1>16, <1>17

LEMMA InsertKeeps ==
  ASSUME AListInv, NEW l \in AList!Lists, NEW old, NEW v \in Value, NEW after \in BOOLEAN,
         AList!InsertNode(l, old, v, after)
  PROVE  /\ AListInv'
         /\ \E x \in Node : \E j \in 1 .. Len(AList!Nodes(l)) :
              /\ AList!Nodes(l)[j] = old
              /\ AddedAt(l, IF after THEN j + 1 ELSE j, x, v)
<1>1. PICK s \in [AList!Lists -> Seq(Node)] : Holds(s)
  BY DEF AListInv
<1>2. AList!Within(old, l) /\ used # Node /\ made' = made
  BY DEF AList!InsertNode, Node
<1>3. PICK x \in Node \ used : x = AList!NewNode
  BY <1>2, NewIs DEF AListInv
<1>4. PICK r : r = s[l]
  OBVIOUS
<1>5. /\ r \in Seq(Node) /\ Len(r) \in Nat /\ OneTime(r) /\ Chain(node, r) /\ Header(hdr[l], r)
      /\ node \in [Node -> NodeType] /\ (l \notin made => r = <<>>)
  BY <1>1, <1>4 DEF Holds, AListInv
<1>6. PICK j \in 1 .. Len(r) : r[j] = old
  BY <1>2, <1>5, NodesAre DEF In
<1>7. l \in made
  BY <1>5, <1>6
<1>8. PICK p : p = IF after THEN j + 1 ELSE j
  OBVIOUS
<1>9. /\ p \in 1 .. Len(r) + 1 /\ (after => p - 1 = j /\ p # 1 /\ (p = Len(r) + 1 <=> j = Len(r)))
      /\ (~after => p = j /\ (p = 1 <=> j = 1) /\ p # Len(r) + 1)
  BY <1>5, <1>8
<1>10. old = At(r, j) /\ node[old].next = At(r, j + 1) /\ node[old].prev = At(r, j - 1)
  BY <1>5, <1>6 DEF At, Chain
<1>11. /\ At(r, p - 1) = (IF after THEN old ELSE node[old].prev)
       /\ At(r, p) = (IF after THEN node[old].next ELSE old)
  BY <1>8, <1>9, <1>10
<1>12. PICK h : h = AList!Ends(hdr[l], old, x, after)
  OBVIOUS
<1>13. hdr' = [hdr EXCEPT ![l] = h]
  BY <1>3, <1>12 DEF AList!InsertNode
<1>14. used' = used \cup {x} /\ node' = Joined(node, x, At(r, p - 1), At(r, p), v)
  BY <1>3, <1>11 DEF AList!InsertNode, Joined
<1>15. (hdr[l].head = old <=> j = 1) /\ (hdr[l].tail = old <=> j = Len(r))
  <2>1. r[j] = At(r, 1) <=> j = 1
    BY <1>5, AtOnce
  <2>2. r[j] = At(r, Len(r)) <=> j = Len(r)
    BY <1>5, AtOnce
  <2>3. QED BY <1>5, <1>6, <2>1, <2>2 DEF Header
<1>16. /\ h.len = Len(r) + 1 /\ h.tail = (IF p = Len(r) + 1 THEN x ELSE At(r, Len(r)))
       /\ h.head = IF p = 1 THEN x ELSE At(r, 1)
  BY <1>5, <1>9, <1>12, <1>15 DEF Header, AList!Ends
<1>17. h \in HeaderType
  <2>1. x \in Pointer /\ At(r, 1) \in Pointer /\ At(r, Len(r)) \in Pointer
    BY <1>5, AtIs, NodeIs
  <2>2. h.head \in Pointer /\ h.tail \in Pointer /\ h.len \in Nat
    BY <1>5, <1>16, <2>1
  <2>3. h = [head |-> h.head, tail |-> h.tail, len |-> h.len]
    BY <1>12 DEF AList!Ends
  <2>4. QED BY <2>2, <2>3 DEF HeaderType
<1>18. Adds(r, l, x, p, v)
  BY <1>2, <1>13, <1>14, <1>16, <1>17 DEF Adds
<1>19. AListInv' /\ AddedAt(l, p, x, v)
  BY <1>1, <1>4, <1>7, <1>9, <1>18, AddsAt
<1>20. AList!Nodes(l) = r
  BY <1>1, <1>4, HeldThen DEF HeldAre, AListInv
<1>21. QED BY <1>6, <1>8, <1>19, <1>20

LEMMA HeaderRemoved ==
  ASSUME NEW s \in Seq(Node), NEW p \in 1 .. Len(s), OneTime(s), NEW h,
         h.len = Len(s) - 1, h.head = (IF At(s, p - 1) = 0 THEN At(s, p + 1) ELSE At(s, 1)),
         h.tail = (IF At(s, p + 1) = 0 THEN At(s, p - 1) ELSE At(s, Len(s)))
  PROVE  Header(h, Removed(s, p))
<1>1. /\ Len(s) \in Nat /\ Len(Removed(s, p)) = Len(s) - 1 /\ 1 \in Int /\ Len(s) - 1 \in Int
      /\ p - 1 \in Int /\ p + 1 \in Int
  BY RemovedIs
<1>2. At(Removed(s, p), 1) = IF 1 < p THEN At(s, 1) ELSE At(s, 1 + 1)
  BY AtRemoved
<1>3. At(Removed(s, p), Len(s) - 1)
        = IF Len(s) - 1 < p THEN At(s, Len(s) - 1) ELSE At(s, (Len(s) - 1) + 1)
  BY <1>1, AtRemoved
<1>4. At(s, p - 1) = 0 <=> p - 1 \notin 1 .. Len(s)
  BY AtIs
<1>5. At(s, p + 1) = 0 <=> p + 1 \notin 1 .. Len(s)
  BY AtIs
<1>6. /\ (p - 1 \notin 1 .. Len(s) <=> ~(1 < p)) /\ (~(1 < p) => p + 1 = 1 + 1)
      /\ (p + 1 \notin 1 .. Len(s) <=> Len(s) - 1 < p) /\ (Len(s) - 1 < p => Len(s) - 1 = p - 1)
      /\ (Len(s) - 1) + 1 = Len(s)
  BY <1>1
<1>7. QED BY <1>1, <1>2, <1>3, <1>4, <1>5, <1>6 DEF Header

\* The call's own list without its place p.
RemovedAt(l, p) ==
  /\ p \in 1 .. Len(AList!Nodes(l))
  /\ Becomes(l, Removed(AList!Nodes(l), p))
  /\ \A y \in Node : y # AList!Nodes(l)[p] => node'[y].value = node[y].value

LEMMA DelKeeps ==
  ASSUME AListInv, NEW l \in AList!Lists, NEW x, AList!DelNode(l, x)
  PROVE  AListInv' /\ \E p : AList!Nodes(l)[p] = x /\ RemovedAt(l, p)
<1>1. PICK s \in [AList!Lists -> Seq(Node)] : Holds(s)
  BY DEF AListInv
<1>2. AList!Within(x, l) /\ made' = made /\ used' = used \ {x}
  BY DEF AList!DelNode
<1>3. PICK r : r = s[l]
  OBVIOUS
<1>4. /\ r \in Seq(Node) /\ Len(r) \in Nat /\ OneTime(r) /\ Chain(node, r) /\ Header(hdr[l], r)
      /\ node \in [Node -> NodeType] /\ (l \notin made => r = <<>>)
      /\ hdr \in [AList!Lists -> HeaderType]
  BY <1>1, <1>3 DEF Holds, AListInv
<1>5. PICK p \in 1 .. Len(r) : r[p] = x
  BY <1>2, <1>4, NodesAre DEF In
<1>6. node[x].next = At(r, p + 1) /\ node[x].prev = At(r, p - 1) /\ x \in Node /\ AList!Null = 0
  BY <1>4, <1>5, NodeIs, AtIs DEF Chain
<1>7. PICK b : b = Closed(node, At(r, p - 1), At(r, p + 1))
  OBVIOUS
<1>8. PICK c : c = Freed(b, r[p])
  OBVIOUS
<1>9. node' = c
  BY <1>5, <1>6, <1>7, <1>8 DEF AList!DelNode, Closed, Freed
<1>10. PICK t : t = Removed(r, p)
  OBVIOUS
<1>11. /\ c \in [Node -> NodeType] /\ Chain(c, Removed(r, p)) /\ c[r[p]] = AList!Blank
       /\ \A y \in Node : ~In(y, r) => c[y] = node[y] /\ b[y] = node[y]
       /\ \A y \in Node : y # r[p] => c[y].value = node[y].value
  BY <1>4, <1>7, <1>8, RemoveChain
<1>12. t \in Seq(Node) /\ OneTime(t) /\ \A y : In(y, t) <=> y # x /\ In(y, r)
  BY <1>4, <1>5, <1>10, RemovedIs
<1>13. PICK h : h = [head |-> IF At(r, p - 1) = 0 THEN At(r, p + 1) ELSE hdr[l].head,
                     tail |-> IF At(r, p + 1) = 0 THEN At(r, p - 1) ELSE hdr[l].tail,
                     len |-> hdr[l].len - 1]
  OBVIOUS
<1>14. hdr' = [hdr EXCEPT ![l] = h]
  BY <1>6, <1>13 DEF AList!DelNode
<1>15. Header(h, t)
  <2>1. /\ h.len = Len(r) - 1 /\ h.head = (IF At(r, p - 1) = 0 THEN At(r, p + 1) ELSE At(r, 1))
        /\ h.tail = (IF At(r, p + 1) = 0 THEN At(r, p - 1) ELSE At(r, Len(r)))
    BY <1>4, <1>13 DEF Header
  <2>2. QED BY <1>4, <1>10, <2>1, HeaderRemoved
<1>16. h \in HeaderType
  <2>1. h.len = Len(t) /\ h.head = At(t, 1) /\ h.tail = At(t, Len(t))
    BY <1>15 DEF Header
  <2>2. h.len \in Nat /\ h.head \in Pointer /\ h.tail \in Pointer
    BY <1>12, <2>1, AtIs
  <2>3. h = [head |-> h.head, tail |-> h.tail, len |-> h.len]
    BY <1>13
  <2>4. QED BY <2>2, <2>3 DEF HeaderType
<1>17. Changes(s, l, t)
  <2>1. /\ hdr' \in [AList!Lists -> HeaderType] /\ hdr'[l] = h
        /\ \A m \in AList!Lists : m # l => hdr'[m] = hdr[m]
    BY <1>4, <1>14, <1>16
  <2>2. Chain(node, t)'
    BY <1>9, <1>10, <1>11 DEF Chain
  <2>3. used' \subseteq Node /\ made' \subseteq AList!Lists /\ l \in made'
    BY <1>2, <1>4, <1>5 DEF AListInv
  <2>4. ASSUME NEW y \in Node
        PROVE  /\ In(y, t) => In(y, s[l]) \/ y \notin used
               /\ y \in used' <=> In(y, t) \/ (y \in used /\ ~In(y, s[l]))
               /\ ~In(y, t) => node'[y] = IF In(y, s[l]) THEN AList!Blank ELSE node[y]
    <3>1. In(y, s[l]) => y \in used
      BY <1>1 DEF Holds
    <3>2. In(x, r)
      BY <1>5 DEF In
    <3>3. c[x] = AList!Blank
      BY <1>5, <1>11
    <3>4. QED BY <1>2, <1>3, <1>9, <1>11, <1>12, <3>1, <3>2, <3>3
  <2>5. QED BY <1>2, <1>9, <1>11, <1>12, <1>15, <2>1, <2>2, <2>3, <2>4 DEF Changes
<1>18. AListInv' /\ Becomes(l, t)
  BY <1>1, <1>12, <1>17, OneChanges
<1>19. AList!Nodes(l) = r
  BY <1>1, <1>3, <1>4, HeldThen DEF HeldAre
<1>20. \A y \in Node : y # r[p] => node'[y].value = node[y].value
  BY <1>9, <1>11
<1>21. RemovedAt(l, p)
  BY <1>10, <1>18, <1>19, <1>20 DEF RemovedAt
<1>22. QED BY <1>5, <1>18, <1>19, <1>21

\* Nothing changes of what a user sees.
SameLists ==
  \A m \in AList!Lists : AList!Nodes(m)' = AList!Nodes(m) /\ AList!Values(m)' = AList!Values(m)

LEMMA CreateKeeps ==
  ASSUME AListInv, NEW l \in AList!Lists, AList!ListCreate(l)
  PROVE  AListInv' /\ SameLists
<1>1. PICK s \in [AList!Lists -> Seq(Node)] : Holds(s)
  BY DEF AListInv
<1>2. /\ l \notin made /\ made' = made \cup {l} /\ hdr' = [hdr EXCEPT ![l] = AList!NoList]
      /\ node' = node /\ used' = used
  BY DEF AList!ListCreate
<1>3. s[l] = <<>>
  BY <1>1, <1>2 DEF Holds
<1>4. /\ <<>> \in Seq(Node) /\ OneTime(<<>>) /\ Chain(node', <<>>) /\ \A y : ~In(y, <<>>)
  BY DEF OneTime, Chain, In
<1>5. Header(AList!NoList, <<>>) /\ AList!NoList \in HeaderType
  BY NodeIs DEF Header, At, AList!NoList, HeaderType
<1>6. Changes(s, l, <<>>)
  <2>1. /\ hdr' \in [AList!Lists -> HeaderType] /\ hdr'[l] = AList!NoList
        /\ \A m \in AList!Lists : m # l => hdr'[m] = hdr[m]
    BY <1>2, <1>5 DEF AListInv
  <2>2. Chain(node, <<>>)'
    BY <1>4 DEF Chain
  <2>3. QED BY <1>2, <1>3, <1>4, <1>5, <2>1, <2>2 DEF Changes, AListInv
<1>7. AListInv' /\ Becomes(l, <<>>)
  BY <1>1, <1>4, <1>6, OneChanges
<1>8. AList!Nodes(l) = s[l] /\ AList!Values(l) = [j \in 1 .. Len(s[l]) |-> node[s[l][j]].value]
  BY <1>1, HeldThen DEF HeldAre, AListInv
<1>9. /\ AList!Nodes(l)' = s[l]
      /\ AList!Values(l)' = [j \in 1 .. Len(s[l]) |-> node[s[l][j]].value]
  BY <1>2, <1>3, <1>7 DEF Becomes
<1>10. SameLists
  BY <1>7, <1>8, <1>9 DEF SameLists, Becomes
<1>11. QED BY <1>7, <1>10

LEMMA ReleaseKeeps ==
  ASSUME AListInv, NEW l \in AList!Lists, AList!ListRelease(l)
  PROVE  AListInv' /\ Becomes(l, <<>>)
<1>1. PICK s \in [AList!Lists -> Seq(Node)] : Holds(s)
  BY DEF AListInv
<1>2. PICK r : r = s[l]
  OBVIOUS
<1>3. /\ r \in Seq(Node) /\ Chain(node, r) /\ Header(hdr[l], r)
      /\ node \in [Node -> NodeType] /\ hdr \in [AList!Lists -> HeaderType]
  BY <1>1, <1>2 DEF Holds, AListInv
<1>4. /\ made' = made \ {l} /\ hdr' = [hdr EXCEPT ![l] = AList!NoList]
      /\ used' = used \ AList!ToSet(AList!Nodes(l))
      /\ node' = [y \in Node |-> IF AList!Within(y, l) THEN AList!Blank ELSE node[y]]
  BY DEF AList!ListRelease, Node
<1>5. \A y : (AList!Within(y, l) <=> In(y, r)) /\ (y \in AList!ToSet(AList!Nodes(l)) <=> In(y, r))
  <2>1. \A y : AList!Within(y, l) <=> In(y, r)
    BY <1>3, NodesAre
  <2>2. QED BY <2>1 DEF AList!Within
<1>6. /\ <<>> \in Seq(Node) /\ OneTime(<<>>) /\ Chain(node', <<>>) /\ \A y : ~In(y, <<>>)
  BY DEF OneTime, Chain, In
<1>7. Header(AList!NoList, <<>>) /\ AList!NoList \in HeaderType
  BY NodeIs DEF Header, At, AList!NoList, HeaderType
<1>8. Changes(s, l, <<>>)
  <2>1. /\ hdr' \in [AList!Lists -> HeaderType] /\ hdr'[l] = AList!NoList
        /\ \A m \in AList!Lists : m # l => hdr'[m] = hdr[m]
    BY <1>3, <1>4, <1>7
  <2>2. Chain(node, <<>>)'
    BY <1>6 DEF Chain
  <2>3. /\ node' \in [Node -> NodeType]
        /\ \A y \in Node : node'[y] = IF In(y, r) THEN AList!Blank ELSE node[y]
    BY <1>3, <1>4, <1>5, NodeIs
  <2>4. used' \subseteq Node /\ made' \subseteq AList!Lists /\ \A y : y \in used' <=> y \in used /\ ~In(y, r)
    BY <1>4, <1>5 DEF AListInv
  <2>5. \A m \in AList!Lists : m # l => (m \in made' <=> m \in made)
    BY <1>4
  <2>6. QED BY <1>2, <1>6, <1>7, <2>1, <2>2, <2>3, <2>4, <2>5 DEF Changes
<1>9. QED BY <1>1, <1>6, <1>8, OneChanges

\* The last place comes first.
Rotated(s) == [j \in 1 .. Len(s) |-> IF j = 1 THEN s[Len(s)] ELSE s[j - 1]]

LEMMA RotateKeeps ==
  ASSUME AListInv, NEW l \in AList!Lists, AList!ListRotate(l)
  PROVE  /\ AListInv' /\ Becomes(l, Rotated(AList!Nodes(l)))
         /\ \A y \in Node : node'[y].value = node[y].value
<1>1. PICK s \in [AList!Lists -> Seq(Node)] : Holds(s)
  BY DEF AListInv
<1>2. PICK r : r = s[l]
  OBVIOUS
<1>3. /\ r \in Seq(Node) /\ Len(r) \in Nat /\ OneTime(r) /\ Chain(node, r) /\ Header(hdr[l], r)
      /\ node \in [Node -> NodeType] /\ hdr \in [AList!Lists -> HeaderType] /\ l \in made
  <2>1. l \in made
    BY DEF AList!ListRotate
  <2>2. QED BY <1>1, <1>2, <2>1 DEF Holds, AListInv
<1>4. PICK k : k = Len(r)
  OBVIOUS
<1>5. k \in Nat /\ k > 1 /\ 1 \in 1 .. k /\ k \in 1 .. k /\ k - 1 \in 1 .. k /\ k - 1 # k /\ 1 # k
  BY <1>3, <1>4 DEF AList!ListRotate, Header
<1>6. r[1] \in Node /\ r[k] \in Node /\ r[k - 1] \in Node /\ r[k] # 0 /\ r[1] # 0 /\ r[k - 1] # 0
  BY <1>3, <1>4, <1>5, NodeIs, AtIs
<1>7. hdr[l].head = r[1] /\ hdr[l].tail = r[k] /\ node[r[k]].prev = r[k - 1] /\ hdr[l].len = k
  BY <1>3, <1>4, <1>5 DEF Header, Chain, At
<1>8. r[1] # r[k] /\ r[k - 1] # r[k]
  BY <1>3, <1>4, <1>5 DEF OneTime
<1>9. PICK a : a = AList!Put(node, r[k - 1], "next", 0)
  OBVIOUS
<1>10. PICK b : b = AList!Put(a, r[1], "prev", r[k])
  OBVIOUS
<1>11. PICK c : c = AList!Put(b, r[k], "prev", 0)
  OBVIOUS
<1>12. PICK d : d = AList!Put(c, r[k], "next", r[1])
  OBVIOUS
<1>13. node' = d
  BY <1>7, <1>9, <1>10, <1>11, <1>12, NodeIs DEF AList!ListRotate, AList!LinkBack
<1>14. r[1] \in Pointer /\ r[k] \in Pointer /\ r[k - 1] \in Pointer /\ 0 \in Pointer
  BY <1>6, NodeIs
<1>15. /\ a \in [Node -> NodeType]
       /\ \A y \in Node : /\ a[y].value = node[y].value /\ a[y].prev = node[y].prev
                          /\ a[y].next = IF y = r[k - 1] THEN 0 ELSE node[y].next
  BY <1>3, <1>9, <1>14, PutIs
<1>16. /\ b \in [Node -> NodeType]
       /\ \A y \in Node : /\ b[y].value = a[y].value /\ b[y].next = a[y].next
                          /\ b[y].prev = IF y = r[1] THEN r[k] ELSE a[y].prev
  BY <1>10, <1>14, <1>15, PutIs
<1>17. /\ c \in [Node -> NodeType]
       /\ \A y \in Node : /\ c[y].value = b[y].value /\ c[y].next = b[y].next
                          /\ c[y].prev = IF y = r[k] THEN 0 ELSE b[y].prev
  BY <1>11, <1>14, <1>16, PutIs
<1>18. /\ d \in [Node -> NodeType]
       /\ \A y \in Node : /\ d[y].value = c[y].value /\ d[y].prev = c[y].prev
                          /\ d[y].next = IF y = r[k] THEN r[1] ELSE c[y].next
  BY <1>12, <1>14, <1>17, PutIs
<1>19. \A y \in Node :
         /\ d[y].value = node[y].value
         /\ d[y].next = IF y = r[k] THEN r[1] ELSE IF y = r[k - 1] THEN 0 ELSE node[y].next
         /\ d[y].prev = IF y = r[k] THEN 0 ELSE IF y = r[1] THEN r[k] ELSE node[y].prev
  BY <1>15, <1>16, <1>17, <1>18
<1>20. PICK t : t = [j \in 1 .. k |-> IF j = 1 THEN r[k] ELSE r[j - 1]]
  OBVIOUS
<1>21. /\ \A j \in 1 .. k : t[j] = IF j = 1 THEN r[k] ELSE r[j - 1]
       /\ t \in Seq(Node) /\ Len(t) = k
  <2>1. \A j \in 1 .. k : j # 1 => j - 1 \in 1 .. k
    BY <1>5
  <2>2. \A j \in 1 .. k : (IF j = 1 THEN r[k] ELSE r[j - 1]) \in Node
    BY <1>3, <1>4, <1>6, <2>1
  <2>3. t \in [1 .. k -> Node]
    BY <1>20, <2>2
  <2>4. QED BY <1>5, <1>20, <2>3
<1>22. \A j \in 1 .. k : j # 1 => j - 1 \in 1 .. k /\ j - 1 # k
  BY <1>5
<1>23. \A i1, j1 \in 1 .. k : r[i1] = r[j1] => i1 = j1
  BY <1>3, <1>4 DEF OneTime
<1>24. OneTime(t)
  <2>1. SUFFICES ASSUME NEW i1 \in 1 .. k, NEW j1 \in 1 .. k, t[i1] = t[j1]
                 PROVE  i1 = j1
    BY <1>21 DEF OneTime
  <2>2. CASE i1 = 1
    BY <1>5, <1>21, <1>22, <1>23, <2>1, <2>2
  <2>3. CASE j1 = 1
    BY <1>5, <1>21, <1>22, <1>23, <2>1, <2>3
  <2>4. CASE i1 # 1 /\ j1 # 1
    <3>1. r[i1 - 1] = r[j1 - 1]
      BY <1>21, <2>1, <2>4
    <3>2. i1 - 1 = j1 - 1
      BY <1>22, <1>23, <2>4, <3>1
    <3>3. QED BY <3>2
  <2>5. QED BY <2>2, <2>3, <2>4
<1>25. \A y : In(y, t) <=> In(y, r)
  <2>1. SUFFICES ASSUME NEW y PROVE In(y, t) <=> In(y, r)
    OBVIOUS
  <2>2. ASSUME In(y, t) PROVE In(y, r)
    <3>1. PICK j \in 1 .. k : t[j] = y
      BY <1>21, <2>2 DEF In
    <3>2. QED BY <1>4, <1>5, <1>21, <1>22, <3>1 DEF In
  <2>3. ASSUME In(y, r) PROVE In(y, t)
    <3>1. PICK j \in 1 .. k : r[j] = y
      BY <1>4, <2>3 DEF In
    <3>2. CASE j = k
      BY <1>5, <1>21, <3>1, <3>2 DEF In
    <3>3. CASE j # k
      <4>1. j + 1 \in 1 .. k /\ j + 1 # 1 /\ (j + 1) - 1 = j
        BY <1>5, <3>3
      <4>2. QED BY <1>21, <3>1, <4>1 DEF In
    <3>4. QED BY <3>2, <3>3
  <2>4. QED BY <2>2, <2>3
<1>26. ASSUME NEW j \in 1 .. k
       PROVE  d[t[j]].next = At(t, j + 1) /\ d[t[j]].prev = At(t, j - 1)
  <2>1. CASE j = 1
    <3>1. t[j] = r[k] /\ At(t, j - 1) = 0
      BY <1>21, <2>1 DEF At
    <3>2. j + 1 \in 1 .. k /\ j + 1 # 1 /\ (j + 1) - 1 = 1
      BY <1>5, <2>1
    <3>3. At(t, j + 1) = r[1]
      BY <1>21, <3>2 DEF At
    <3>4. QED BY <1>6, <1>19, <3>1, <3>3
  <2>2. CASE j # 1
    <3>1. PICK q : q = j - 1
      OBVIOUS
    <3>2. /\ q \in 1 .. k /\ q # k /\ q + 1 = j /\ q = j - 1 /\ q + 1 \in 1 .. k
          /\ (q # k - 1 => j + 1 \in 1 .. k /\ j + 1 # 1 /\ (j + 1) - 1 = q + 1)
          /\ (q = k - 1 => j + 1 \notin 1 .. k)
          /\ (q # 1 => q - 1 \in 1 .. k) /\ (q = 1 <=> j - 1 = 1) /\ j - 1 \in 1 .. k
      BY <1>5, <2>2, <3>1
    <3>3. t[j] = r[q] /\ r[q] \in Node /\ r[q] # r[k] /\ (r[q] = r[k - 1] <=> q = k - 1)
          /\ (r[q] = r[1] <=> q = 1)
      BY <1>3, <1>4, <1>5, <1>21, <1>23, <2>2, <3>1, <3>2
    <3>4. node[r[q]].next = r[q + 1] /\ (q # 1 => node[r[q]].prev = r[q - 1])
      BY <1>3, <1>4, <3>2 DEF Chain, At
    <3>5. At(t, j + 1) = IF q = k - 1 THEN 0 ELSE r[q + 1]
      BY <1>21, <3>2 DEF At
    <3>6. At(t, j - 1) = IF q = 1 THEN r[k] ELSE r[q - 1]
      BY <1>21, <3>1, <3>2 DEF At
    <3>7. d[r[q]].next = IF q = k - 1 THEN 0 ELSE r[q + 1]
      BY <1>19, <3>3, <3>4
    <3>8. d[r[q]].prev = IF q = 1 THEN r[k] ELSE r[q - 1]
      BY <1>19, <3>3, <3>4
    <3>9. QED BY <3>3, <3>5, <3>6, <3>7, <3>8
  <2>3. QED BY <2>1, <2>2
<1>27. PICK h : h = [[hdr[l] EXCEPT !.tail = r[k - 1]] EXCEPT !.head = r[k]]
  OBVIOUS
<1>28. hdr' = [hdr EXCEPT ![l] = h]
  BY <1>3, <1>7, <1>27 DEF AList!ListRotate
<1>29. h \in HeaderType /\ h.len = k /\ h.head = r[k] /\ h.tail = r[k - 1]
  BY <1>3, <1>7, <1>14, <1>27 DEF HeaderType
<1>30. Header(h, t)
  BY <1>5, <1>21, <1>29 DEF Header, At
<1>31. Changes(s, l, t)
  <2>1. /\ hdr' \in [AList!Lists -> HeaderType] /\ hdr'[l] = h
        /\ \A m \in AList!Lists : m # l => hdr'[m] = hdr[m]
    BY <1>3, <1>28, <1>29
  <2>2. Chain(node, t)'
    BY <1>13, <1>21, <1>26 DEF Chain
  <2>3. made' = made /\ used' = used /\ used' \subseteq Node /\ made' \subseteq AList!Lists /\ l \in made'
    BY <1>3 DEF AListInv, AList!ListRotate
  <2>4. ASSUME NEW y \in Node
        PROVE  /\ In(y, t) => In(y, s[l]) \/ y \notin used
               /\ y \in used' <=> In(y, t) \/ (y \in used /\ ~In(y, s[l]))
               /\ ~In(y, t) => node'[y] = IF In(y, s[l]) THEN AList!Blank ELSE node[y]
    <3>1. In(y, s[l]) => y \in used
      BY <1>1 DEF Holds
    <3>2. ASSUME ~In(y, r)
          PROVE  d[y] = node[y]
      <4>1. y # r[k] /\ y # r[1] /\ y # r[k - 1]
        BY <1>4, <1>5, <3>2 DEF In
      <4>2. d[y].prev = node[y].prev /\ d[y].next = node[y].next /\ d[y].value = node[y].value
        BY <1>19, <4>1
      <4>3. d[y] \in NodeType /\ node[y] \in NodeType
        BY <1>3, <1>18
      <4>4. QED BY <4>2, <4>3, SameNode
    <3>3. QED BY <1>2, <1>13, <1>25, <2>3, <3>1, <3>2
  <2>5. QED BY <1>13, <1>18, <1>24, <1>30, <2>1, <2>2, <2>3, <2>4 DEF Changes
<1>32. AListInv' /\ Becomes(l, t)
  BY <1>1, <1>21, <1>31, OneChanges
<1>33. AList!Nodes(l) = r
  BY <1>1, <1>2, <1>3, HeldThen DEF HeldAre, AListInv
<1>34. t = Rotated(AList!Nodes(l))
  BY <1>4, <1>20, <1>33 DEF Rotated
<1>35. QED BY <1>13, <1>19, <1>32, <1>34

LEMMA CardinalityIs ==
  ASSUME NEW S
  PROVE  AList!Cardinality(S) = Cardinality(S)
BY DEF AList!Cardinality, Cardinality

\* malloc, asked once for each node of a copy.
LEMMA SetToSeqIs ==
  ASSUME NEW S, S \subseteq Node
  PROVE  /\ Cardinality(S) \in Nat
         /\ AList!SetToSeq(S) \in [1 .. Cardinality(S) -> S]
         /\ \A j, k \in 1 .. Cardinality(S) :
              AList!SetToSeq(S)[j] = AList!SetToSeq(S)[k] => j = k
<1>1. IsFiniteSet(S)
  <2>1. IsFiniteSet(1 .. MaxNodes)
    BY NodeIs, FS_Interval
  <2>2. QED BY <2>1, NodeIs, FS_Subset
<1>2. Cardinality(S) \in Nat /\ ExistsBijection(1 .. Cardinality(S), S)
  BY <1>1, FS_CardinalityType
<1>3. PICK f \in [1 .. Cardinality(S) -> S] : AList!IsInjective(f)
  BY <1>2 DEF ExistsBijection, Bijection, Injection, IsInjective, AList!IsInjective
<1>4. AList!SetToSeq(S) = CHOOSE g \in [1 .. Cardinality(S) -> S] : AList!IsInjective(g)
  BY CardinalityIs DEF AList!SetToSeq
<1>5. AList!SetToSeq(S) \in [1 .. Cardinality(S) -> S] /\ AList!IsInjective(AList!SetToSeq(S))
  BY <1>3, <1>4
<1>6. PICK w : w = AList!SetToSeq(S)
  OBVIOUS
<1>7. QED BY <1>2, <1>5, <1>6 DEF AList!IsInjective

\* The node y of the k nodes that are the copy.
CopyOf(new, k, y) ==
  LET Nth(j) == IF j \in 1 .. k THEN new[j] ELSE AList!Null
      e == CHOOSE j \in 1 .. k : new[j] = y
  IN  [prev |-> Nth(e - 1), next |-> Nth(e + 1), value |-> AList!Values("orig")[e]]

\* The copy is of other nodes, with the same values.
CopiedTo(t) ==
  /\ Becomes("copy", t) /\ Len(t) = Len(AList!Nodes("orig"))
  /\ \A j \in 1 .. Len(t) : node'[t[j]].value = AList!Values("orig")[j]

LEMMA DupKeeps ==
  ASSUME AListInv, AList!ListDup
  PROVE  AListInv' /\ \E t : CopiedTo(t)
<1>1. PICK s \in [AList!Lists -> Seq(Node)] : Holds(s)
  BY DEF AListInv
<1>2. "orig" \in AList!Lists /\ "copy" \in AList!Lists /\ "orig" # "copy"
      /\ AList!Lists = {"orig", "copy"}
  BY DEF AList!Lists
<1>3. PICK r : r = s["orig"]
  OBVIOUS
<1>4. /\ r \in Seq(Node) /\ Len(r) \in Nat /\ Chain(node, r) /\ Header(hdr["orig"], r)
      /\ node \in [Node -> NodeType] /\ hdr \in [AList!Lists -> HeaderType]
      /\ used \subseteq Node /\ made \subseteq AList!Lists
  BY <1>1, <1>2, <1>3 DEF Holds, AListInv
<1>5. "copy" \notin made /\ "orig" \in made /\ made' = AList!Lists
      /\ AList!Cardinality(Node \ used) >= hdr["orig"].len
  BY DEF AList!ListDup, Node
<1>6. s["copy"] = <<>>
  BY <1>1, <1>2, <1>5 DEF Holds
<1>7. PICK k : k = Len(r)
  OBVIOUS
<1>8. hdr["orig"].len = k /\ k \in Nat /\ AList!Null = 0
  BY <1>4, <1>7, NodeIs DEF Header
<1>9. PICK w : w = AList!SetToSeq(Node \ used)
  OBVIOUS
<1>10. PICK c : c = Cardinality(Node \ used)
  OBVIOUS
<1>11. /\ c \in Nat /\ w \in [1 .. c -> Node \ used] /\ k <= c
       /\ \A j, m \in 1 .. c : w[j] = w[m] => j = m
  <2>1. Node \ used \subseteq Node
    OBVIOUS
  <2>2. c \in Nat /\ c >= k
    BY <1>5, <1>8, <1>10, <2>1, SetToSeqIs, CardinalityIs
  <2>3. w \in [1 .. c -> Node \ used] /\ \A j, m \in 1 .. c : w[j] = w[m] => j = m
    BY <1>9, <1>10, <2>1, SetToSeqIs
  <2>4. QED BY <1>8, <2>2, <2>3
<1>12. PICK t : t = SubSeq(w, 1, k)
  OBVIOUS
<1>13. /\ t \in Seq(Node) /\ Len(t) = k /\ OneTime(t)
       /\ \A j \in 1 .. k : t[j] \in Node \ used
  <2>1. w \in Seq(Node \ used) /\ Len(w) = c
    BY <1>11
  <2>2. t \in Seq(Node \ used) /\ Len(t) = k /\ \A j \in 1 .. k : t[j] = w[j]
    BY <1>8, <1>11, <1>12, <2>1
  <2>3. \A j \in 1 .. k : j \in 1 .. c
    BY <1>8, <1>11
  <2>4. OneTime(t)
    BY <1>11, <2>2, <2>3 DEF OneTime
  <2>5. \A j \in 1 .. k : t[j] \in Node \ used
    BY <1>11, <2>2, <2>3
  <2>6. t \in Seq(Node)
    BY <2>2
  <2>7. QED BY <2>2, <2>4, <2>5, <2>6
<1>14. AList!ToSet(t) = {t[j] : j \in 1 .. k} /\ \A y : y \in AList!ToSet(t) <=> In(y, t)
  BY <1>13 DEF AList!ToSet, In
<1>15. /\ used' = used \cup AList!ToSet(t)
       /\ hdr' = [hdr EXCEPT !["copy"] = [head |-> At(t, 1), tail |-> At(t, k), len |-> k]]
       /\ node' = [y \in Node |-> node'[y]]
       /\ \A y \in Node : y \notin AList!ToSet(t) => node'[y] = node[y]
       /\ \A y \in Node : y \in AList!ToSet(t) =>
            \E e : /\ e = CHOOSE j \in 1 .. k : t[j] = y
                   /\ node'[y] = [prev |-> At(t, e - 1), next |-> At(t, e + 1),
                                  value |-> AList!Values("orig")[e]]
  <2> DEFINE Nth(e) == IF e \in 1 .. k THEN t[e] ELSE AList!Null
  <2>1. \A e : Nth(e) = At(t, e)
    BY <1>8, <1>13 DEF At
  <2>2. hdr["orig"].len = k /\ SubSeq(AList!SetToSeq(Node \ used), 1, k) = t
    BY <1>8, <1>9, <1>12
  <2>3. /\ used' = used \cup AList!ToSet(t)
        /\ hdr' = [hdr EXCEPT !["copy"] = [head |-> Nth(1), tail |-> Nth(k), len |-> k]]
    BY <2>2 DEF AList!ListDup, Node
  <2>4. node' = [y \in Node |->
            IF y \notin AList!ToSet(SubSeq(AList!SetToSeq(Node \ used), 1, hdr["orig"].len))
            THEN node[y]
            ELSE CopyOf(SubSeq(AList!SetToSeq(Node \ used), 1, hdr["orig"].len), hdr["orig"].len, y)]
    BY DEF AList!ListDup, CopyOf, Node
  <2> HIDE DEF Nth
  <2>5. /\ node' = [y \in Node |-> node'[y]]
        /\ \A y \in Node : node'[y] = IF y \notin AList!ToSet(t) THEN node[y] ELSE CopyOf(t, k, y)
    BY <2>2, <2>4
  <2>6. ASSUME NEW y \in Node, y \in AList!ToSet(t), NEW e, e = CHOOSE j \in 1 .. k : t[j] = y
        PROVE  node'[y] = [prev |-> At(t, e - 1), next |-> At(t, e + 1),
                           value |-> AList!Values("orig")[e]]
    <3>1. node'[y] = CopyOf(t, k, y)
      BY <2>5, <2>6
    <3>2. CopyOf(t, k, y) = [prev |-> Nth(e - 1), next |-> Nth(e + 1),
                             value |-> AList!Values("orig")[e]]
      BY <2>6 DEF CopyOf, Nth
    <3>3. QED BY <2>1, <3>1, <3>2
  <2>7. QED BY <2>1, <2>3, <2>5, <2>6
<1>16. \A j \in 1 .. k : AList!Values("orig")[j] \in Value \cup {0}
  <2>1. AList!Nodes("orig") = r
    BY <1>4, NodesAre
  <2>2. \A j \in 1 .. k : AList!Values("orig")[j] = IF r[j] = 0 THEN 0 ELSE node[r[j]].value
    BY <1>4, <1>7, <1>8, <2>1 DEF AList!Values
  <2>3. \A j \in 1 .. k : r[j] \in Node
    BY <1>4, <1>7
  <2>4. QED BY <1>4, <2>2, <2>3 DEF NodeType
<1>17. ASSUME NEW j \in 1 .. k
       PROVE  /\ node'[t[j]] \in NodeType
              /\ node'[t[j]].next = At(t, j + 1) /\ node'[t[j]].prev = At(t, j - 1)
              /\ node'[t[j]].value = AList!Values("orig")[j]
  <2>1. PICK y : y = t[j]
    OBVIOUS
  <2>2. y \in Node /\ In(y, t) /\ y \in AList!ToSet(t)
    BY <1>13, <1>14, <2>1 DEF In
  <2>3. (CHOOSE m \in 1 .. k : t[m] = y) = j
    BY <1>13, <2>1 DEF OneTime
  <2>4. node'[y] = [prev |-> At(t, j - 1), next |-> At(t, j + 1), value |-> AList!Values("orig")[j]]
    <3>1. PICK e : /\ e = CHOOSE m \in 1 .. k : t[m] = y
                   /\ node'[y] = [prev |-> At(t, e - 1), next |-> At(t, e + 1),
                                  value |-> AList!Values("orig")[e]]
      BY <1>15, <2>2
    <3>2. QED BY <2>3, <3>1
  <2>5. At(t, j - 1) \in Pointer /\ At(t, j + 1) \in Pointer
    BY <1>13, AtIs
  <2>6. QED BY <1>16, <2>1, <2>4, <2>5 DEF NodeType
<1>18. \A y \in Node : ~In(y, t) => node'[y] = node[y]
  BY <1>14, <1>15
<1>19. node' \in [Node -> NodeType]
  <2>1. \A y \in Node : node'[y] \in NodeType
    <3>1. SUFFICES ASSUME NEW y \in Node PROVE node'[y] \in NodeType
      OBVIOUS
    <3>2. CASE In(y, t)
      BY <1>13, <1>17, <3>2 DEF In
    <3>3. CASE ~In(y, t)
      BY <1>4, <1>18, <3>3
    <3>4. QED BY <3>2, <3>3
  <2>2. node' = [y \in Node |-> node'[y]]
    BY <1>15
  <2>3. QED BY <2>1, <2>2
<1>20. PICK h : h = [head |-> At(t, 1), tail |-> At(t, k), len |-> k]
  OBVIOUS
<1>21. h \in HeaderType /\ Header(h, t)
  BY <1>8, <1>13, <1>20, AtIs DEF HeaderType, Header
<1>22. Changes(s, "copy", t)
  <2>1. /\ hdr' \in [AList!Lists -> HeaderType] /\ hdr'["copy"] = h
        /\ \A m \in AList!Lists : m # "copy" => hdr'[m] = hdr[m]
    BY <1>2, <1>4, <1>15, <1>20, <1>21
  <2>2. Chain(node, t)'
    BY <1>13, <1>17 DEF Chain
  <2>3. used' \subseteq Node /\ \A y : y \in used' <=> y \in used \/ In(y, t)
    BY <1>4, <1>13, <1>14, <1>15
  <2>4. \A y : In(y, t) => y \notin used
    BY <1>13 DEF In
  <2>5. \A y : ~In(y, s["copy"])
    BY <1>6 DEF In
  <2>6. \A m \in AList!Lists : m # "copy" => (m \in made' <=> m \in made)
    BY <1>2, <1>5
  <2>7. QED BY <1>2, <1>5, <1>13, <1>18, <1>19, <1>21, <2>1, <2>2, <2>3, <2>4, <2>5, <2>6 DEF Changes
<1>23. AListInv' /\ Becomes("copy", t)
  BY <1>1, <1>2, <1>13, <1>22, OneChanges
<1>24. AList!Nodes("orig") = r
  BY <1>4, NodesAre
<1>25. CopiedTo(t)
  BY <1>7, <1>13, <1>17, <1>23, <1>24 DEF CopiedTo
<1>26. QED BY <1>23, <1>25

----------------------------------------------------------------------------
LEMMA AListStart ==
  ASSUME AList!AInit
  PROVE  AListInv
<1>1. /\ made = {} /\ hdr = [l \in AList!Lists |-> AList!NoList]
      /\ node = [y \in Node |-> AList!Blank] /\ used = {}
  BY DEF AList!AInit, Node
<1>2. PICK s : s = [l \in AList!Lists |-> <<>>]
  OBVIOUS
<1>3. s \in [AList!Lists -> Seq(Node)] /\ \A l \in AList!Lists : s[l] = <<>>
  BY <1>2
<1>4. OneTime(<<>>) /\ Chain(node, <<>>) /\ \A y : ~In(y, <<>>)
  BY DEF OneTime, Chain, In
<1>5. Header(AList!NoList, <<>>) /\ AList!NoList \in HeaderType
  BY NodeIs DEF Header, At, AList!NoList, HeaderType
<1>6. Holds(s)
  BY <1>1, <1>3, <1>4, <1>5 DEF Holds
<1>7. QED BY <1>1, <1>3, <1>5, <1>6, NodeIs DEF AListInv

LEMMA AListStays ==
  ASSUME AListInv, UNCHANGED <<made, hdr, node, used>>
  PROVE  AListInv' /\ SameLists
<1>1. PICK s \in [AList!Lists -> Seq(Node)] : Holds(s)
  BY DEF AListInv
<1>2. Holds(s)'
  BY <1>1 DEF Holds, Chain
<1>3. AListInv'
  BY <1>2 DEF AListInv
<1>4. \A m \in AList!Lists :
        /\ AList!Nodes(m) = s[m]
        /\ AList!Values(m) = [j \in 1 .. Len(s[m]) |-> node[s[m][j]].value]
  BY <1>1, HeldThen DEF HeldAre, AListInv
<1>5. \A m \in AList!Lists :
        /\ AList!Nodes(m)' = s[m]
        /\ AList!Values(m)' = [j \in 1 .. Len(s[m]) |-> node'[s[m][j]].value]
  BY <1>2, <1>3, HeldNow DEF HeldAre, AListInv
<1>6. node' = node
  OBVIOUS
<1>7. SameLists
  BY <1>4, <1>5, <1>6 DEF SameLists
<1>8. QED BY <1>3, <1>7

LEMMA AListKeeps ==
  ASSUME AListInv, AList!ANext
  PROVE  AListInv'
<1>1. ASSUME NEW l \in AList!Lists, AList!ListCall(l)
      PROVE  AListInv'
  BY <1>1, CreateKeeps, ReleaseKeeps, RotateKeeps, AddHeadKeeps, AddTailKeeps, DelKeeps,
     InsertKeeps DEF AList!ListCall
<1>2. ASSUME AList!Iteration
      PROVE  AListInv'
  <2>1. UNCHANGED <<made, hdr, node, used>>
    BY <1>2 DEF AList!Iteration, AList!GetIterator, AList!ListNext, AList!ReleaseIterator
  <2>2. QED BY <2>1, AListStays
<1>3. QED BY <1>1, <1>2, DupKeeps DEF AList!ANext

----------------------------------------------------------------------------
(* The ring of links: the entries of each head, as a sequence.              *)

Link == List!Link

\* Before the first place and after the last is the head.
Place(h, s, j) == IF j \in 1 .. Len(s) THEN s[j] ELSE h
Circle(nx, pv, h, s) ==
  \A j \in 0 .. Len(s) : /\ nx[Place(h, s, j)] = Place(h, s, j + 1)
                         /\ pv[Place(h, s, j + 1)] = Place(h, s, j)

LEMMA LinkIs ==
  /\ Link = Heads \cup Entries /\ Heads \cap Entries = {} /\ Nil \notin Link
  /\ IsFiniteSet(Link)
BY ContainersAssumption, FS_Union DEF Link, List!Link

LEMMA PlaceIs ==
  ASSUME NEW h \in Heads, NEW s \in Seq(Entries)
  PROVE  /\ Len(s) \in Nat
         /\ \A j \in 1 .. Len(s) : Place(h, s, j) = s[j] /\ s[j] \in Entries /\ s[j] # h
         /\ \A j : j \notin 1 .. Len(s) => Place(h, s, j) = h
         /\ \A j : Place(h, s, j) \in Link
<1>1. Len(s) \in Nat /\ \A j \in 1 .. Len(s) : s[j] \in Entries
  OBVIOUS
<1>2. QED BY <1>1, LinkIs DEF Place

LEMMA PlaceOnce ==
  ASSUME NEW h \in Heads, NEW s \in Seq(Entries), OneTime(s),
         NEW j \in 0 .. Len(s) + 1, NEW k \in 0 .. Len(s) + 1, Place(h, s, j) = Place(h, s, k)
  PROVE  j = k \/ (j = 0 /\ k = Len(s) + 1) \/ (j = Len(s) + 1 /\ k = 0)
<1>1. Len(s) \in Nat
  OBVIOUS
<1>2. CASE j \in 1 .. Len(s) /\ k \in 1 .. Len(s)
  BY <1>2, PlaceIs DEF OneTime
<1>3. CASE j \in 1 .. Len(s) /\ k \notin 1 .. Len(s)
  BY <1>3, PlaceIs
<1>4. CASE j \notin 1 .. Len(s) /\ k \in 1 .. Len(s)
  BY <1>4, PlaceIs
<1>5. CASE j \notin 1 .. Len(s) /\ k \notin 1 .. Len(s)
  BY <1>1, <1>5
<1>6. QED BY <1>2, <1>3, <1>4, <1>5

LEMMA PlaceInserted ==
  ASSUME NEW h \in Heads, NEW s \in Seq(Entries), NEW x \in Entries, NEW p \in 1 .. Len(s) + 1,
         NEW j \in Int
  PROVE  Place(h, Inserted(s, p, x), j)
           = IF j < p THEN Place(h, s, j) ELSE IF j = p THEN x ELSE Place(h, s, j - 1)
<1>1. /\ Len(s) \in Nat /\ Len(Inserted(s, p, x)) = Len(s) + 1
      /\ \A k \in 1 .. Len(s) + 1 :
           Inserted(s, p, x)[k] = IF k < p THEN s[k] ELSE IF k = p THEN x ELSE s[k - 1]
  BY InsertedIs
<1>2. CASE j \in 1 .. Len(s) + 1
  <2>1. Place(h, Inserted(s, p, x), j) = IF j < p THEN s[j] ELSE IF j = p THEN x ELSE s[j - 1]
    BY <1>1, <1>2 DEF Place
  <2>2. (j < p => j \in 1 .. Len(s)) /\ (~(j < p) /\ j # p => j - 1 \in 1 .. Len(s))
    BY <1>1, <1>2
  <2>3. QED BY <2>1, <2>2 DEF Place
<1>3. CASE j \notin 1 .. Len(s) + 1
  <2>1. Place(h, Inserted(s, p, x), j) = h
    BY <1>1, <1>3 DEF Place
  <2>2. j # p /\ (j < p => j \notin 1 .. Len(s)) /\ (~(j < p) => j - 1 \notin 1 .. Len(s))
    BY <1>1, <1>3
  <2>3. QED BY <2>1, <2>2 DEF Place
<1>4. QED BY <1>2, <1>3

LEMMA PlaceRemoved ==
  ASSUME NEW h \in Heads, NEW s \in Seq(Entries), NEW p \in 1 .. Len(s), OneTime(s), NEW j \in Int
  PROVE  Place(h, Removed(s, p), j) = IF j < p THEN Place(h, s, j) ELSE Place(h, s, j + 1)
<1>1. /\ Len(s) \in Nat /\ Len(Removed(s, p)) = Len(s) - 1
      /\ \A k \in 1 .. Len(s) - 1 : Removed(s, p)[k] = IF k < p THEN s[k] ELSE s[k + 1]
  BY RemovedIs
<1>2. CASE j \in 1 .. Len(s) - 1
  <2>1. Place(h, Removed(s, p), j) = IF j < p THEN s[j] ELSE s[j + 1]
    BY <1>1, <1>2 DEF Place
  <2>2. j \in 1 .. Len(s) /\ j + 1 \in 1 .. Len(s)
    BY <1>1, <1>2
  <2>3. QED BY <2>1, <2>2 DEF Place
<1>3. CASE j \notin 1 .. Len(s) - 1
  <2>1. Place(h, Removed(s, p), j) = h
    BY <1>1, <1>3 DEF Place
  <2>2. (j < p => j \notin 1 .. Len(s)) /\ (~(j < p) => j + 1 \notin 1 .. Len(s))
    BY <1>1, <1>3
  <2>3. QED BY <2>1, <2>2 DEF Place
<1>4. QED BY <1>2, <1>3

\* The links of x between two others, and those of two others without x.
IsBetween(nx2, pv2, nx, pv, x, b, a) ==
  \A y \in Link : /\ nx2[y] = IF y = b THEN x ELSE IF y = x THEN a ELSE nx[y]
                  /\ pv2[y] = IF y = x THEN b ELSE IF y = a THEN x ELSE pv[y]
IsOut(nx2, pv2, nx, pv, x, b, a) ==
  \A y \in Link : y # x => /\ nx2[y] = IF y = b THEN a ELSE nx[y]
                           /\ pv2[y] = IF y = a THEN b ELSE pv[y]

LEMMA CircleInsert ==
  ASSUME NEW h \in Heads, NEW s \in Seq(Entries), OneTime(s), NEW x \in Entries, ~In(x, s),
         NEW p \in 1 .. Len(s) + 1, NEW nx, NEW pv, NEW nx2, NEW pv2, Circle(nx, pv, h, s),
         IsBetween(nx2, pv2, nx, pv, x, Place(h, s, p - 1), Place(h, s, p))
  PROVE  Circle(nx2, pv2, h, Inserted(s, p, x))
<1> DEFINE P(j) == Place(h, s, j)
           t == Inserted(s, p, x)
<1>1. Len(s) \in Nat /\ p \in Nat /\ Len(t) = Len(s) + 1
  BY InsertedIs
<1>2. \A j : P(j) \in Link /\ P(j) # x
  BY PlaceIs, LinkIs DEF In, Place
<1>3. \A j \in 0 .. Len(s) : nx[P(j)] = P(j + 1) /\ pv[P(j + 1)] = P(j)
  BY DEF Circle
<1>4. x \in Link /\ \A y \in Link :
         /\ nx2[y] = IF y = P(p - 1) THEN x ELSE IF y = x THEN P(p) ELSE nx[y]
         /\ pv2[y] = IF y = x THEN P(p - 1) ELSE IF y = P(p) THEN x ELSE pv[y]
  BY LinkIs DEF IsBetween
<1>5. \A j \in Int : Place(h, t, j) = IF j < p THEN P(j) ELSE IF j = p THEN x ELSE P(j - 1)
  BY PlaceInserted
<1>6. \A j, k \in 0 .. Len(s) + 1 :
        P(j) = P(k) => j = k \/ (j = 0 /\ k = Len(s) + 1) \/ (j = Len(s) + 1 /\ k = 0)
  BY PlaceOnce
<1> HIDE DEF P, t
<1>7. ASSUME NEW j \in 0 .. Len(s) + 1
      PROVE  nx2[Place(h, t, j)] = Place(h, t, j + 1) /\ pv2[Place(h, t, j + 1)] = Place(h, t, j)
  <2>1. j \in Int /\ j + 1 \in Int /\ p - 1 \in 0 .. Len(s) + 1 /\ p \in 0 .. Len(s) + 1
    BY <1>1
  <2>2. CASE j = p - 1
    <3>1. j < p /\ ~(j + 1 < p) /\ j + 1 = p
      BY <1>1, <2>2
    <3>2. Place(h, t, j) = P(p - 1) /\ Place(h, t, j + 1) = x
      BY <1>5, <2>1, <2>2, <3>1
    <3>3. QED BY <1>2, <1>4, <3>2
  <2>3. CASE j = p
    <3>1. ~(j < p) /\ ~(j + 1 < p) /\ j + 1 # p /\ (j + 1) - 1 = p
      BY <1>1, <2>3
    <3>2. Place(h, t, j) = x /\ Place(h, t, j + 1) = P(p)
      BY <1>5, <2>1, <2>3, <3>1
    <3>3. QED BY <1>2, <1>4, <3>2
  <2>4. CASE j < p - 1
    <3>1. /\ j < p /\ j + 1 < p /\ j \in 0 .. Len(s) /\ j \in 0 .. Len(s) + 1 /\ j # Len(s) + 1
          /\ p - 1 # Len(s) + 1 /\ j + 1 \in 0 .. Len(s) + 1 /\ j + 1 # p /\ j + 1 # 0 /\ p # 0
          /\ j # p - 1
      BY <1>1, <2>4
    <3>2. Place(h, t, j) = P(j) /\ Place(h, t, j + 1) = P(j + 1)
      BY <1>5, <2>1, <3>1
    <3>3. P(j) # P(p - 1) /\ P(j + 1) # P(p)
      BY <1>6, <2>1, <3>1
    <3>4. QED BY <1>2, <1>3, <1>4, <3>1, <3>2, <3>3
  <2>5. CASE j > p
    <3>1. PICK k : k = j - 1
      OBVIOUS
    <3>2. /\ k \in 0 .. Len(s) /\ k \in 0 .. Len(s) + 1 /\ k # p - 1 /\ k # 0 /\ k # Len(s) + 1
          /\ k + 1 \in 0 .. Len(s) + 1 /\ k + 1 # p /\ k + 1 # 0 /\ p # 0
          /\ ~(j < p) /\ j # p /\ j - 1 = k /\ ~(j + 1 < p) /\ j + 1 # p /\ (j + 1) - 1 = k + 1
      BY <1>1, <2>5, <3>1
    <3>3. Place(h, t, j) = P(k) /\ Place(h, t, j + 1) = P(k + 1)
      BY <1>5, <2>1, <3>2
    <3>4. P(k) # P(p - 1) /\ P(k + 1) # P(p)
      BY <1>6, <2>1, <3>2
    <3>5. QED BY <1>2, <1>3, <1>4, <3>2, <3>3, <3>4
  <2>6. QED BY <1>1, <2>2, <2>3, <2>4, <2>5
<1>8. QED BY <1>1, <1>7 DEF Circle, t

LEMMA CircleRemove ==
  ASSUME NEW h \in Heads, NEW s \in Seq(Entries), OneTime(s), NEW p \in 1 .. Len(s),
         NEW nx, NEW pv, NEW nx2, NEW pv2, Circle(nx, pv, h, s),
         IsOut(nx2, pv2, nx, pv, s[p], Place(h, s, p - 1), Place(h, s, p + 1))
  PROVE  Circle(nx2, pv2, h, Removed(s, p))
<1> DEFINE P(j) == Place(h, s, j)
           t == Removed(s, p)
<1>1. Len(s) \in Nat /\ p \in Nat /\ Len(t) = Len(s) - 1 /\ P(p) = s[p]
  BY RemovedIs, PlaceIs
<1>2. \A j : P(j) \in Link
  BY PlaceIs
<1>3. \A j \in 0 .. Len(s) : nx[P(j)] = P(j + 1) /\ pv[P(j + 1)] = P(j)
  BY DEF Circle
<1>4. \A y \in Link : y # P(p) => /\ nx2[y] = IF y = P(p - 1) THEN P(p + 1) ELSE nx[y]
                                  /\ pv2[y] = IF y = P(p + 1) THEN P(p - 1) ELSE pv[y]
  BY <1>1 DEF IsOut
<1>5. \A j \in Int : Place(h, t, j) = IF j < p THEN P(j) ELSE P(j + 1)
  BY PlaceRemoved
<1>6. \A j, k \in 0 .. Len(s) + 1 :
        P(j) = P(k) => j = k \/ (j = 0 /\ k = Len(s) + 1) \/ (j = Len(s) + 1 /\ k = 0)
  BY PlaceOnce
<1> HIDE DEF P, t
<1>7. ASSUME NEW j \in 0 .. Len(s) - 1
      PROVE  nx2[Place(h, t, j)] = Place(h, t, j + 1) /\ pv2[Place(h, t, j + 1)] = Place(h, t, j)
  <2>1. /\ j \in Int /\ j + 1 \in Int /\ p - 1 \in 0 .. Len(s) + 1 /\ p \in 0 .. Len(s) + 1
        /\ p + 1 \in 0 .. Len(s) + 1 /\ p # 0 /\ p # Len(s) + 1
    BY <1>1
  <2>2. CASE j = p - 1
    <3>1. j < p /\ ~(j + 1 < p) /\ (j + 1) + 1 = p + 1 /\ p - 1 # p /\ p + 1 # p
      BY <1>1, <2>2
    <3>2. Place(h, t, j) = P(p - 1) /\ Place(h, t, j + 1) = P(p + 1)
      BY <1>5, <2>1, <2>2, <3>1
    <3>3. P(p - 1) # P(p) /\ P(p + 1) # P(p)
      BY <1>6, <2>1, <3>1
    <3>4. QED BY <1>2, <1>4, <3>2, <3>3
  <2>3. CASE j < p - 1
    <3>1. /\ j < p /\ j + 1 < p /\ j \in 0 .. Len(s) /\ j \in 0 .. Len(s) + 1 /\ j # Len(s) + 1
          /\ p - 1 # Len(s) + 1 /\ j + 1 \in 0 .. Len(s) + 1 /\ j + 1 # p /\ j + 1 # 0
          /\ j # p - 1 /\ j # p /\ j + 1 # p + 1 /\ p + 1 # 0
      BY <1>1, <2>3
    <3>2. Place(h, t, j) = P(j) /\ Place(h, t, j + 1) = P(j + 1)
      BY <1>5, <2>1, <3>1
    <3>3. P(j) # P(p - 1) /\ P(j) # P(p) /\ P(j + 1) # P(p + 1) /\ P(j + 1) # P(p)
      BY <1>6, <2>1, <3>1
    <3>4. QED BY <1>2, <1>3, <1>4, <3>1, <3>2, <3>3
  <2>4. CASE j > p - 1
    <3>1. PICK k : k = j + 1
      OBVIOUS
    <3>2. /\ k \in 0 .. Len(s) /\ k \in 0 .. Len(s) + 1 /\ k # p - 1 /\ k # 0 /\ k # Len(s) + 1
          /\ k + 1 \in 0 .. Len(s) + 1 /\ k + 1 # p + 1 /\ k + 1 # 0 /\ p + 1 # 0 /\ k # p
          /\ k + 1 # p /\ ~(j < p) /\ j + 1 = k /\ ~(j + 1 < p) /\ (j + 1) + 1 = k + 1
      BY <1>1, <2>4, <3>1
    <3>3. Place(h, t, j) = P(k) /\ Place(h, t, j + 1) = P(k + 1)
      BY <1>5, <2>1, <3>2
    <3>4. P(k) # P(p - 1) /\ P(k + 1) # P(p + 1) /\ P(k) # P(p) /\ P(k + 1) # P(p)
      BY <1>6, <2>1, <3>2
    <3>5. QED BY <1>2, <1>3, <1>4, <3>2, <3>3, <3>4
  <2>5. QED BY <1>1, <2>2, <2>3, <2>4
<1>8. QED BY <1>1, <1>7 DEF Circle, t

\* A pointer to v in x.
Told(f, x, v) == List!With(f, [e \in {x} |-> v])

IsTold(g, f, x, v) ==
  /\ g \in [Link -> Link \cup {Nil}]
  /\ \A y \in Link : g[y] = IF y = x THEN v ELSE f[y]
IsToldBoth(g, f, x, v, y, w) ==
  /\ g \in [Link -> Link \cup {Nil}]
  /\ \A z \in Link : g[z] = IF z = y THEN w ELSE IF z = x THEN v ELSE f[z]

LEMMA ToldIs ==
  ASSUME NEW f \in [Link -> Link \cup {Nil}], NEW x, NEW v \in Link \cup {Nil}
  PROVE  IsTold(Told(f, x, v), f, x, v)
<1>1. Told(f, x, v) = [y \in Link |-> IF y \in {x} THEN v ELSE f[y]]
  BY DEF Told, List!With, Link
<1>2. PICK w : w = Told(f, x, v)
  OBVIOUS
<1>3. QED BY <1>1, <1>2 DEF IsTold

LEMMA BothTold ==
  ASSUME NEW f \in [Link -> Link \cup {Nil}], NEW x, NEW v \in Link \cup {Nil},
         NEW y, NEW w \in Link \cup {Nil}
  PROVE  IsToldBoth(Told(Told(f, x, v), y, w), f, x, v, y, w)
<1>1. PICK g : g = Told(f, x, v)
  OBVIOUS
<1>2. IsTold(g, f, x, v)
  BY <1>1, ToldIs
<1>3. g \in [Link -> Link \cup {Nil}]
  BY <1>2 DEF IsTold
<1>4. IsTold(Told(g, y, w), g, y, w)
  BY <1>3, ToldIs
<1>5. IsToldBoth(Told(g, y, w), f, x, v, y, w)
  BY <1>2, <1>4 DEF IsTold, IsToldBoth
<1>6. QED BY <1>1, <1>5

\* The walk along next, as far as there can be entries.
Runs(g, x, h, m) ==
  /\ g = [j \in 1 .. m |-> g[j]]
  /\ \A j \in 1 .. m :
       g[j] = IF j = 1 THEN x ELSE IF g[j - 1] \in {h, Nil} THEN h ELSE next[g[j - 1]]

LEMMA ListCardinality ==
  ASSUME NEW S
  PROVE  List!Cardinality(S) = Cardinality(S)
BY DEF List!Cardinality, Cardinality

\* As much of it as there is before the head.
Upto(g, h, m) == SubSeq(g, 1, Cardinality({j \in 1 .. m : g[j] # h}))

LEMMA RunIs ==
  ASSUME NEW x, NEW h, NEW m \in Nat, m = Cardinality(Link) + 1, NEW g, Runs(g, x, h, m)
  PROVE  List!Ring(x, h) = Upto(g, h, m)
<1> DEFINE B(f) == [j \in 1 .. m |->
                      IF j = 1 THEN x ELSE IF f[j - 1] \in {h, Nil} THEN h ELSE next[f[j - 1]]]
           at == CHOOSE f : f = B(f)
<1>1. g = B(g)
  BY DEF Runs
<1>2. at = B(at)
  BY <1>1
<1>3. List!Ring(x, h) = SubSeq(at, 1, List!Cardinality({j \in DOMAIN at : at[j] # h}))
  <2>1. List!Cardinality(List!Link) + 1 = m
    BY ListCardinality DEF Link
  <2>2. QED BY <2>1 DEF List!Ring
<1> HIDE DEF at
<1>4. DOMAIN at = 1 .. m /\ at = [j \in 1 .. m |-> at[j]] /\ \A j \in 1 .. m :
        at[j] = IF j = 1 THEN x ELSE IF at[j - 1] \in {h, Nil} THEN h ELSE next[at[j - 1]]
  BY <1>2
<1> DEFINE H == {j \in 0 .. m : j = 0 \/ at[j] = g[j]}
<1>5. \A j \in 0 .. m : j \in H
  <2>1. 0 \in H
    OBVIOUS
  <2>2. ASSUME NEW j \in 1 .. m, j - 1 \in H
        PROVE  j \in H
    <3>1. j = 1 \/ at[j - 1] = g[j - 1]
      BY <2>2
    <3>2. /\ at[j] = IF j = 1 THEN x ELSE IF at[j - 1] \in {h, Nil} THEN h ELSE next[at[j - 1]]
          /\ g[j] = IF j = 1 THEN x ELSE IF g[j - 1] \in {h, Nil} THEN h ELSE next[g[j - 1]]
      BY <1>4 DEF Runs
    <3>3. CASE j = 1
      BY <3>2, <3>3
    <3>4. CASE at[j - 1] = g[j - 1]
      BY <3>2, <3>4
    <3>5. QED BY <3>1, <3>3, <3>4
  <2> HIDE DEF H
  <2>3. QED BY <2>1, <2>2, UpTo
<1>6. \A j \in 1 .. m : at[j] = g[j]
  <2>1. ASSUME NEW j \in 1 .. m PROVE at[j] = g[j]
    <3>1. j \in 0 .. m /\ j # 0
      OBVIOUS
    <3>2. j \in H
      BY <1>5, <3>1
    <3>3. QED BY <3>1, <3>2
  <2>2. QED BY <2>1
<1>7. at = g
  BY <1>4, <1>6 DEF Runs
<1>8. QED BY <1>3, <1>4, <1>7, ListCardinality DEF Upto

LEMMA NoMore ==
  ASSUME NEW s \in Seq(Entries), OneTime(s)
  PROVE  Cardinality(Link) \in Nat /\ Len(s) <= Cardinality(Link)
<1>1. IsFiniteSet(Link)
  BY LinkIs
<1>2. Len(s) \in Nat /\ s \in [1 .. Len(s) -> Link]
  BY LinkIs
<1>3. s \in Injection(1 .. Len(s), Link)
  BY <1>2 DEF OneTime, Injection, IsInjective
<1>4. Cardinality(1 .. Len(s)) <= Cardinality(Link)
  BY <1>1, <1>3, FS_Injection
<1>5. Cardinality(1 .. Len(s)) = Len(s)
  BY <1>2, FS_Interval
<1>6. QED BY <1>1, <1>4, <1>5, FS_CardinalityType

\* From a place of the ring, or from the head, the walk goes on along it.
LEMMA RingFrom ==
  ASSUME NEW h \in Heads, NEW s \in Seq(Entries), OneTime(s), Circle(next, prev, h, s),
         NEW p \in 1 .. Len(s) + 1
  PROVE  List!Ring(Place(h, s, p), h) = [j \in 1 .. (Len(s) - p) + 1 |-> Place(h, s, (p + j) - 1)]
<1>1. PICK m : m = Cardinality(Link) + 1
  OBVIOUS
<1>2. m \in Nat /\ Len(s) \in Nat /\ Len(s) < m
  BY <1>1, NoMore
<1>3. PICK g : g = [j \in 1 .. m |-> Place(h, s, (p + j) - 1)]
  OBVIOUS
<1>4. /\ \A j \in 0 .. Len(s) : next[Place(h, s, j)] = Place(h, s, j + 1)
      /\ \A j \in 1 .. Len(s) : Place(h, s, j) = s[j] /\ s[j] \in Entries /\ s[j] # h /\ s[j] # Nil
      /\ \A j : j \notin 1 .. Len(s) => Place(h, s, j) = h
  BY PlaceIs, LinkIs DEF Circle
<1>5. ASSUME NEW j \in 1 .. m
      PROVE  g[j] = IF j = 1 THEN Place(h, s, p)
                    ELSE IF g[j - 1] \in {h, Nil} THEN h ELSE next[g[j - 1]]
  <2>1. CASE j = 1
    <3>1. (p + j) - 1 = p
      BY <1>2, <2>1
    <3>2. QED BY <1>3, <2>1, <3>1
  <2>2. CASE j # 1
    <3>1. PICK q : q = (p + (j - 1)) - 1
      OBVIOUS
    <3>2. /\ j - 1 \in 1 .. m /\ q \in Nat /\ q >= 1 /\ (p + j) - 1 = q + 1
          /\ g[j - 1] = Place(h, s, q) /\ g[j] = Place(h, s, q + 1)
      BY <1>2, <1>3, <2>2, <3>1
    <3>3. CASE q \in 1 .. Len(s)
      <4>1. q \in 0 .. Len(s)
        BY <3>3
      <4>2. next[Place(h, s, q)] = Place(h, s, q + 1)
        BY <1>4, <4>1
      <4>3. QED BY <1>4, <2>2, <3>2, <3>3, <4>2
    <3>4. CASE q \notin 1 .. Len(s)
      <4>1. q + 1 \notin 1 .. Len(s)
        BY <1>2, <3>2, <3>4
      <4>2. g[j - 1] = h /\ g[j] = h
        BY <1>4, <3>2, <3>4, <4>1
      <4>3. QED BY <2>2, <4>2
    <3>5. QED BY <3>3, <3>4
  <2>3. QED BY <2>1, <2>2
<1>6. Runs(g, Place(h, s, p), h, m)
  BY <1>3, <1>5 DEF Runs
<1>7. List!Ring(Place(h, s, p), h) = Upto(g, h, m)
  BY <1>1, <1>2, <1>6, RunIs
<1>8. PICK k : k = (Len(s) - p) + 1
  OBVIOUS
<1>9. k \in Nat /\ k < m /\ \A j \in 1 .. m : (p + j) - 1 \in 1 .. Len(s) <=> j \in 1 .. k
  BY <1>2, <1>8
<1>10. {j \in 1 .. m : g[j] # h} = 1 .. k
  <2>1. \A j \in 1 .. m : g[j] # h <=> j \in 1 .. k
    BY <1>3, <1>4, <1>9
  <2>2. \A j \in 1 .. k : j \in 1 .. m
    BY <1>2, <1>9
  <2>3. QED BY <2>1, <2>2
<1>11. Upto(g, h, m) = SubSeq(g, 1, k)
  <2>1. 1 \in Int /\ k \in Int
    BY <1>9
  <2>2. Cardinality(1 .. k) = k
    BY <1>9, <2>1, FS_Interval
  <2>3. QED BY <1>10, <2>2 DEF Upto
<1>12. g \in Seq(Link) /\ Len(g) = m
  BY <1>2, <1>3, PlaceIs
<1>13. SubSeq(g, 1, k) = [j \in 1 .. k |-> g[j]]
  BY <1>2, <1>9, <1>12
<1>14. \A j \in 1 .. k : g[j] = Place(h, s, (p + j) - 1)
  BY <1>2, <1>3, <1>9
<1>15. QED BY <1>7, <1>8, <1>11, <1>13, <1>14

LEMMA RingIs ==
  ASSUME NEW h \in Heads, NEW s \in Seq(Entries), OneTime(s), Circle(next, prev, h, s)
  PROVE  List!Ring(next[h], h) = s
<1>1. PICK k : k = Len(s)
  OBVIOUS
<1>2. k \in Nat /\ 1 \in 1 .. k + 1 /\ 0 \in 0 .. k /\ 0 + 1 = 1 /\ 0 \notin 1 .. k /\ (k - 1) + 1 = k
      /\ \A j \in 1 .. k : (1 + j) - 1 = j
  BY <1>1
<1>3. next[h] = Place(h, s, 1)
  BY <1>1, <1>2 DEF Circle, Place
<1>4. List!Ring(Place(h, s, 1), h) = [j \in 1 .. (k - 1) + 1 |-> Place(h, s, (1 + j) - 1)]
  BY <1>1, <1>2, RingFrom
<1>5. \A j \in 1 .. k : Place(h, s, (1 + j) - 1) = s[j]
  BY <1>1, <1>2 DEF Place
<1>6. s = [j \in 1 .. k |-> s[j]]
  BY <1>1
<1>7. QED BY <1>2, <1>3, <1>4, <1>5, <1>6

\* s[h] are the entries of the head h, in order; a head that was spliced into
\* another list and not initialised since has none.
Stood(nx, pv, spl, h, s) == IF h \in spl THEN s = <<>> ELSE Circle(nx, pv, h, s)
Stand(nx, pv, spl, s) ==
  /\ \A h \in Heads : OneTime(s[h]) /\ Stood(nx, pv, spl, h, s[h])
  /\ \A g, h \in Heads, y \in Entries : In(y, s[g]) /\ In(y, s[h]) => g = h

RingInv ==
  /\ next \in [Link -> Link \cup {Nil}] /\ prev \in [Link -> Link \cup {Nil}]
  /\ spliced \subseteq Heads
  /\ \E s \in [Heads -> Seq(Entries)] : Stand(next, prev, spliced, s)

LEMMA ListContains ==
  ASSUME NEW s \in Seq(Entries), NEW y
  PROVE  /\ List!Contains(s, y) <=> In(y, s)
         /\ List!ToSet(s) = {s[j] : j \in 1 .. Len(s)}
         /\ y \in List!ToSet(s) <=> In(y, s)
<1>1. List!Contains(s, y) <=> In(y, s)
  BY DEF List!Contains, In
<1>2. List!ToSet(s) = {s[j] : j \in 1 .. Len(s)}
  BY DEF List!ToSet
<1>3. QED BY <1>1, <1>2 DEF In

LEMMA OnIs ==
  ASSUME NEW s \in [Heads -> Seq(Entries)], Stand(next, prev, spliced, s)
  PROVE  /\ \A h \in Heads : List!On(h) = s[h]
         /\ \A y : List!Listed(y) <=> \E h \in Heads : In(y, s[h])
<1>1. ASSUME NEW h \in Heads
      PROVE  List!On(h) = s[h]
  <2>1. s[h] \in Seq(Entries) /\ OneTime(s[h])
    BY DEF Stand, Stood
  <2>2. CASE h \in spliced
    BY <2>2 DEF Stand, Stood, List!On
  <2>3. CASE h \notin spliced
    <3>1. Circle(next, prev, h, s[h])
      BY <2>3 DEF Stand, Stood
    <3>2. QED BY <2>1, <2>3, <3>1, RingIs DEF List!On
  <2>4. QED BY <2>2, <2>3
<1>2. ASSUME NEW y
      PROVE  List!Listed(y) <=> \E h \in Heads : In(y, s[h])
  <2>1. \A h \in Heads : List!Contains(List!On(h), y) <=> In(y, s[h])
    BY <1>1, ListContains
  <2>2. \A h \in Heads : h \in spliced => ~In(y, s[h])
    <3>1. ASSUME NEW h \in Heads, h \in spliced
          PROVE  ~In(y, s[h])
      <4>1. s[h] = <<>>
        BY <3>1 DEF Stand, Stood
      <4>2. QED BY <4>1 DEF In
    <3>2. QED BY <3>1
  <2>3. QED BY <2>1, <2>2 DEF List!Listed
<1>3. QED BY <1>1, <1>2

\* What lies on each head, before a call and after it.
Lying == [h \in Heads |-> List!On(h)]
LyingAre ==
  \A s \in [Heads -> Seq(Entries)] : Stand(next, prev, spliced, s) => Lying = s

LEMMA LyingThen == LyingAre
BY OnIs DEF LyingAre, Lying

LEMMA LyingNow == LyingAre'
BY LyingThen, PTL

----------------------------------------------------------------------------
\* What a call may do to a head, and what it must leave alone.
IsWith(u, s, h, t) ==
  /\ u \in [Heads -> Seq(Entries)] /\ u[h] = t
  /\ \A g \in Heads : g # h => u[g] = s[g]
Elsewhere(nx2, pv2, spl2, nx, pv, spl, s, h) ==
  \A g \in Heads : g # h =>
    /\ g \in spl2 <=> g \in spl
    /\ \A y \in Link : y = g \/ In(y, s[g]) => nx2[y] = nx[y] /\ pv2[y] = pv[y]
Nowhere(y, s) == \A h \in Heads : ~In(y, s[h])
Brings(s, h, t) == \A y \in Entries : In(y, t) => In(y, s[h]) \/ Nowhere(y, s)

LEMMA WithOne ==
  ASSUME NEW s \in [Heads -> Seq(Entries)], NEW h \in Heads, NEW t \in Seq(Entries)
  PROVE  \E u \in [Heads -> Seq(Entries)] : IsWith(u, s, h, t)
<1>1. PICK u : u = [s EXCEPT ![h] = t]
  OBVIOUS
<1>2. IsWith(u, s, h, t)
  BY <1>1 DEF IsWith
<1>3. QED BY <1>2 DEF IsWith

LEMMA SameCircle ==
  ASSUME NEW g \in Heads, NEW s \in Seq(Entries), NEW nx, NEW pv, NEW nx2, NEW pv2,
         Circle(nx, pv, g, s),
         \A y \in Link : y = g \/ In(y, s) => nx2[y] = nx[y] /\ pv2[y] = pv[y]
  PROVE  Circle(nx2, pv2, g, s)
<1>1. \A j : Place(g, s, j) \in Link /\ (Place(g, s, j) = g \/ In(Place(g, s, j), s))
  BY PlaceIs DEF Place, In
<1>2. QED BY <1>1 DEF Circle

LEMMA HeadChanges ==
  ASSUME NEW nx, NEW pv, NEW nx2, NEW pv2, NEW spl, NEW spl2,
         NEW s \in [Heads -> Seq(Entries)], Stand(nx, pv, spl, s),
         NEW h \in Heads, NEW t \in Seq(Entries), OneTime(t), Stood(nx2, pv2, spl2, h, t),
         Elsewhere(nx2, pv2, spl2, nx, pv, spl, s, h), Brings(s, h, t),
         NEW u, IsWith(u, s, h, t)
  PROVE  Stand(nx2, pv2, spl2, u)
<1>1. ASSUME NEW g \in Heads
      PROVE  OneTime(u[g]) /\ Stood(nx2, pv2, spl2, g, u[g])
  <2>1. CASE g = h
    BY <2>1 DEF IsWith
  <2>2. CASE g # h
    <3>1. u[g] = s[g] /\ OneTime(s[g]) /\ Stood(nx, pv, spl, g, s[g]) /\ s[g] \in Seq(Entries)
      BY <2>2 DEF IsWith, Stand
    <3>2. /\ g \in spl2 <=> g \in spl
          /\ \A y \in Link : y = g \/ In(y, s[g]) => nx2[y] = nx[y] /\ pv2[y] = pv[y]
      BY <2>2 DEF Elsewhere
    <3>3. Circle(nx, pv, g, s[g]) => Circle(nx2, pv2, g, s[g])
      BY <3>1, <3>2, SameCircle
    <3>4. QED BY <3>1, <3>2, <3>3 DEF Stood
  <2>3. QED BY <2>1, <2>2
<1>2. ASSUME NEW f \in Heads, NEW g \in Heads, NEW y \in Entries, In(y, u[f]), In(y, u[g])
      PROVE  f = g
  <2>1. \A k \in Heads : k # h /\ In(y, u[k]) => In(y, s[k]) /\ ~In(y, t)
    BY DEF IsWith, Brings, Nowhere, Stand
  <2>2. u[h] = t
    BY DEF IsWith
  <2>3. CASE f = h \/ g = h
    BY <1>2, <2>1, <2>2, <2>3
  <2>4. CASE f # h /\ g # h
    BY <1>2, <2>1, <2>4 DEF Stand
  <2>5. QED BY <2>3, <2>4
<1>3. QED BY <1>1, <1>2 DEF Stand

\* The places of one head are none of another's.
LEMMA Apart ==
  ASSUME NEW nx, NEW pv, NEW spl, NEW s \in [Heads -> Seq(Entries)], Stand(nx, pv, spl, s),
         NEW h \in Heads, NEW g \in Heads, g # h, NEW y \in Link, y = g \/ In(y, s[g])
  PROVE  \A j : y # Place(h, s[h], j)
<1>1. SUFFICES ASSUME NEW j, y = Place(h, s[h], j) PROVE FALSE
  OBVIOUS
<1>2. s[h] \in Seq(Entries) /\ s[g] \in Seq(Entries)
  OBVIOUS
<1>3. CASE j \in 1 .. Len(s[h])
  <2>1. y \in Entries /\ y \notin Heads /\ In(y, s[h])
    BY <1>1, <1>2, <1>3, PlaceIs, LinkIs DEF In
  <2>2. In(y, s[g])
    BY <2>1
  <2>3. QED BY <2>1, <2>2 DEF Stand
<1>4. CASE j \notin 1 .. Len(s[h])
  <2>1. y = h
    BY <1>1, <1>2, <1>4, PlaceIs
  <2>2. ~In(y, s[g])
    BY <1>2, <2>1, PlaceIs, LinkIs DEF In
  <2>3. QED BY <2>1, <2>2
<1>5. QED BY <1>3, <1>4

LEMMA PuttingIn ==
  ASSUME NEW nx, NEW pv, NEW nx2, NEW pv2, NEW spl, NEW s \in [Heads -> Seq(Entries)],
         Stand(nx, pv, spl, s), NEW h \in Heads, h \notin spl, NEW x \in Entries, Nowhere(x, s),
         NEW p \in 1 .. Len(s[h]) + 1,
         IsBetween(nx2, pv2, nx, pv, x, Place(h, s[h], p - 1), Place(h, s[h], p)),
         NEW u, IsWith(u, s, h, Inserted(s[h], p, x))
  PROVE  Stand(nx2, pv2, spl, u)
<1>1. s[h] \in Seq(Entries) /\ OneTime(s[h]) /\ Circle(nx, pv, h, s[h]) /\ ~In(x, s[h])
  BY DEF Stand, Stood, Nowhere
<1>2. PICK t : t = Inserted(s[h], p, x)
  OBVIOUS
<1>3. t \in Seq(Entries) /\ OneTime(t) /\ \A y : In(y, t) <=> y = x \/ In(y, s[h])
  BY <1>1, <1>2, InsertedIs
<1>4. Circle(nx2, pv2, h, t)
  BY <1>1, <1>2, CircleInsert
<1>5. Stood(nx2, pv2, spl, h, t)
  BY <1>4 DEF Stood
<1>6. Brings(s, h, t)
  BY <1>3 DEF Brings
<1>7. ASSUME NEW g \in Heads, g # h, NEW y \in Link, y = g \/ In(y, s[g])
      PROVE  nx2[y] = nx[y] /\ pv2[y] = pv[y]
  <2>1. y # Place(h, s[h], p - 1) /\ y # Place(h, s[h], p)
    BY <1>7, Apart
  <2>2. y # x
    BY <1>7, LinkIs DEF Nowhere
  <2>3. QED BY <2>1, <2>2 DEF IsBetween
<1>8. Elsewhere(nx2, pv2, spl, nx, pv, spl, s, h)
  BY <1>7 DEF Elsewhere
<1>9. IsWith(u, s, h, t)
  BY <1>2
<1>10. QED BY <1>3, <1>5, <1>6, <1>8, <1>9, HeadChanges

LEMMA TakingOut ==
  ASSUME NEW nx, NEW pv, NEW nx2, NEW pv2, NEW spl, NEW s \in [Heads -> Seq(Entries)],
         Stand(nx, pv, spl, s), NEW h \in Heads, h \notin spl, NEW p \in 1 .. Len(s[h]),
         IsOut(nx2, pv2, nx, pv, s[h][p], Place(h, s[h], p - 1), Place(h, s[h], p + 1)),
         NEW u, IsWith(u, s, h, Removed(s[h], p))
  PROVE  Stand(nx2, pv2, spl, u) /\ Nowhere(s[h][p], u)
<1>1. s[h] \in Seq(Entries) /\ OneTime(s[h]) /\ Circle(nx, pv, h, s[h])
  BY DEF Stand, Stood
<1>2. PICK t : t = Removed(s[h], p)
  OBVIOUS
<1>3. t \in Seq(Entries) /\ OneTime(t) /\ \A y : In(y, t) <=> y # s[h][p] /\ In(y, s[h])
  BY <1>1, <1>2, RemovedIs
<1>4. Circle(nx2, pv2, h, t)
  BY <1>1, <1>2, CircleRemove
<1>5. Stood(nx2, pv2, spl, h, t)
  BY <1>4 DEF Stood
<1>6. Brings(s, h, t)
  BY <1>3 DEF Brings
<1>7. s[h][p] = Place(h, s[h], p) /\ In(s[h][p], s[h]) /\ s[h][p] \in Entries
  BY <1>1, PlaceIs DEF In
<1>8. ASSUME NEW g \in Heads, g # h, NEW y \in Link, y = g \/ In(y, s[g])
      PROVE  nx2[y] = nx[y] /\ pv2[y] = pv[y]
  <2>1. y # Place(h, s[h], p - 1) /\ y # Place(h, s[h], p + 1) /\ y # Place(h, s[h], p)
    BY <1>8, Apart
  <2>2. QED BY <1>7, <2>1 DEF IsOut
<1>9. Elsewhere(nx2, pv2, spl, nx, pv, spl, s, h)
  BY <1>8 DEF Elsewhere
<1>10. IsWith(u, s, h, t)
  BY <1>2
<1>11. Stand(nx2, pv2, spl, u)
  BY <1>3, <1>5, <1>6, <1>9, <1>10, HeadChanges
<1>12. ASSUME NEW g \in Heads
       PROVE  ~In(s[h][p], u[g])
  <2>1. CASE g = h
    BY <1>3, <1>10, <2>1 DEF IsWith
  <2>2. CASE g # h
    <3>1. u[g] = s[g]
      BY <1>10, <2>2 DEF IsWith
    <3>2. ~In(s[h][p], s[g])
      BY <1>7, <2>2 DEF Stand
    <3>3. QED BY <3>1, <3>2
  <2>3. QED BY <2>1, <2>2
<1>13. QED BY <1>11, <1>12 DEF Nowhere

\* One sequence after another that has nothing in common with it.
LEMMA Concatenated ==
  ASSUME NEW T, NEW a \in Seq(T), NEW b \in Seq(T), OneTime(a), OneTime(b),
         \A y : ~(In(y, a) /\ In(y, b))
  PROVE  /\ a \o b \in Seq(T) /\ OneTime(a \o b) /\ Len(a \o b) = Len(a) + Len(b)
         /\ \A y : In(y, a \o b) <=> In(y, a) \/ In(y, b)
<1>1. PICK t : t = a \o b
  OBVIOUS
<1>2. /\ Len(a) \in Nat /\ Len(b) \in Nat /\ t \in Seq(T) /\ Len(t) = Len(a) + Len(b)
      /\ \A j \in 1 .. Len(a) + Len(b) : t[j] = IF j <= Len(a) THEN a[j] ELSE b[j - Len(a)]
  BY <1>1
<1>3. \A j \in 1 .. Len(t) : \/ j \in 1 .. Len(a) /\ t[j] = a[j]
                             \/ j - Len(a) \in 1 .. Len(b) /\ t[j] = b[j - Len(a)]
  <2>1. SUFFICES ASSUME NEW j \in 1 .. Len(t)
                 PROVE  \/ j \in 1 .. Len(a) /\ t[j] = a[j]
                        \/ j - Len(a) \in 1 .. Len(b) /\ t[j] = b[j - Len(a)]
    OBVIOUS
  <2>2. (j <= Len(a) => j \in 1 .. Len(a)) /\ (~(j <= Len(a)) => j - Len(a) \in 1 .. Len(b))
    BY <1>2
  <2>3. QED BY <1>2, <2>2
<1>4. \A y : In(y, t) <=> In(y, a) \/ In(y, b)
  <2>1. ASSUME NEW j \in 1 .. Len(a) PROVE j \in 1 .. Len(t) /\ t[j] = a[j]
    BY <1>2
  <2>2. ASSUME NEW j \in 1 .. Len(b) PROVE \E k \in 1 .. Len(t) : t[k] = b[j]
    <3>1. PICK k : k = j + Len(a)
      OBVIOUS
    <3>2. k \in 1 .. Len(a) + Len(b) /\ ~(k <= Len(a)) /\ k - Len(a) = j
      BY <1>2, <3>1
    <3>3. QED BY <1>2, <3>2
  <2>3. QED BY <1>3, <2>1, <2>2 DEF In
<1>5. OneTime(t)
  <2>1. SUFFICES ASSUME NEW j \in 1 .. Len(t), NEW k \in 1 .. Len(t), t[j] = t[k]
                 PROVE  j = k
    BY DEF OneTime
  <2>2. CASE j \in 1 .. Len(a) /\ t[j] = a[j] /\ k \in 1 .. Len(a) /\ t[k] = a[k]
    BY <2>1, <2>2 DEF OneTime
  <2>3. CASE j - Len(a) \in 1 .. Len(b) /\ t[j] = b[j - Len(a)]
             /\ k - Len(a) \in 1 .. Len(b) /\ t[k] = b[k - Len(a)]
    <3>1. j - Len(a) = k - Len(a)
      BY <2>1, <2>3 DEF OneTime
    <3>2. QED BY <1>2, <2>1, <3>1
  <2>4. CASE \/ j \in 1 .. Len(a) /\ t[j] = a[j] /\ k - Len(a) \in 1 .. Len(b) /\ t[k] = b[k - Len(a)]
             \/ k \in 1 .. Len(a) /\ t[k] = a[k] /\ j - Len(a) \in 1 .. Len(b) /\ t[j] = b[j - Len(a)]
    BY <2>1, <2>4 DEF In
  <2>5. QED BY <1>3, <2>2, <2>3, <2>4
<1>6. QED BY <1>1, <1>2, <1>4, <1>5

LEMMA PlaceConcatenated ==
  ASSUME NEW h \in Heads, NEW l \in Heads, NEW a \in Seq(Entries), NEW b \in Seq(Entries),
         NEW j \in Int, j >= 0
  PROVE  Place(h, a \o b, j) = IF j = 0 THEN h
                               ELSE IF j <= Len(a) THEN Place(l, a, j)
                               ELSE Place(h, b, j - Len(a))
<1>1. PICK t : t = a \o b
  OBVIOUS
<1>2. /\ Len(a) \in Nat /\ Len(b) \in Nat /\ Len(t) = Len(a) + Len(b)
      /\ \A k \in 1 .. Len(a) + Len(b) : t[k] = IF k <= Len(a) THEN a[k] ELSE b[k - Len(a)]
  BY <1>1
<1>3. CASE j = 0
  BY <1>1, <1>2, <1>3 DEF Place
<1>4. CASE j # 0 /\ j <= Len(a)
  <2>1. j \in 1 .. Len(t) /\ j \in 1 .. Len(a) /\ j \in 1 .. Len(a) + Len(b)
    BY <1>2, <1>4
  <2>2. QED BY <1>1, <1>2, <1>4, <2>1 DEF Place
<1>5. CASE ~(j <= Len(a))
  <2>1. j # 0 /\ (j \in 1 .. Len(a) + Len(b) <=> j - Len(a) \in 1 .. Len(b))
    BY <1>2, <1>5
  <2>2. QED BY <1>1, <1>2, <1>5, <2>1 DEF Place
<1>6. QED BY <1>3, <1>4, <1>5

\* What hangs on l, between h and the entry after it.
IsSpliced(nx2, pv2, nx, pv, l, h) ==
  \A y \in Link : /\ nx2[y] = IF y = pv[l] THEN nx[h] ELSE IF y = h THEN nx[l] ELSE nx[y]
                  /\ pv2[y] = IF y = nx[h] THEN pv[l] ELSE IF y = nx[l] THEN h ELSE pv[y]

LEMMA CircleSpliced ==
  ASSUME NEW h \in Heads, NEW l \in Heads, NEW a \in Seq(Entries), NEW b \in Seq(Entries),
         OneTime(a), OneTime(b), NEW nx, NEW pv, NEW nx2, NEW pv2, a # <<>>,
         Circle(nx, pv, l, a), Circle(nx, pv, h, b),
         \A j, k : Place(l, a, j) # Place(h, b, k), IsSpliced(nx2, pv2, nx, pv, l, h)
  PROVE  Circle(nx2, pv2, h, a \o b)
<1> DEFINE A(j) == Place(l, a, j)
           B(j) == Place(h, b, j)
           t == a \o b
<1>1. PICK m : m = Len(a)
  OBVIOUS
<1>2. PICK k : k = Len(b)
  OBVIOUS
<1>3. m \in Nat /\ k \in Nat /\ Len(t) = m + k /\ m # 0
  BY <1>1, <1>2
<1>4. /\ \A j \in 0 .. m : nx[A(j)] = A(j + 1) /\ pv[A(j + 1)] = A(j)
      /\ \A j \in 0 .. k : nx[B(j)] = B(j + 1) /\ pv[B(j + 1)] = B(j)
  BY <1>1, <1>2 DEF Circle
<1>5. A(0) = l /\ A(m + 1) = l /\ B(0) = h
  <2>1. 0 \notin 1 .. Len(a) /\ m + 1 \notin 1 .. Len(a) /\ 0 \notin 1 .. Len(b)
    BY <1>1, <1>3
  <2>2. QED BY <2>1 DEF Place
<1>6. nx[l] = A(1) /\ pv[l] = A(m) /\ nx[h] = B(1)
  <2>1. 0 \in 0 .. m /\ m \in 0 .. m /\ 0 \in 0 .. k /\ 0 + 1 = 1
    BY <1>3
  <2>2. QED BY <1>4, <1>5, <2>1
<1>7. \A j : A(j) \in Link /\ B(j) \in Link
  BY PlaceIs
<1>8. \A y \in Link : /\ nx2[y] = IF y = A(m) THEN B(1) ELSE IF y = h THEN A(1) ELSE nx[y]
                      /\ pv2[y] = IF y = B(1) THEN A(m) ELSE IF y = A(1) THEN h ELSE pv[y]
  BY <1>6 DEF IsSpliced
<1>9. \A i1, i2 \in 0 .. m + 1 :
        A(i1) = A(i2) => i1 = i2 \/ (i1 = 0 /\ i2 = m + 1) \/ (i1 = m + 1 /\ i2 = 0)
  BY <1>1, PlaceOnce
<1>10. \A i1, i2 \in 0 .. k + 1 :
         B(i1) = B(i2) => i1 = i2 \/ (i1 = 0 /\ i2 = k + 1) \/ (i1 = k + 1 /\ i2 = 0)
  BY <1>2, PlaceOnce
<1>11. \A j \in Int : j >= 0 =>
         Place(h, t, j) = IF j = 0 THEN h ELSE IF j <= m THEN A(j) ELSE B(j - m)
  BY <1>1, PlaceConcatenated
<1>12. \A i1, i2 : A(i1) # B(i2)
  OBVIOUS
<1> HIDE DEF A, B, t
<1>13. ASSUME NEW j \in 0 .. m + k
       PROVE  nx2[Place(h, t, j)] = Place(h, t, j + 1) /\ pv2[Place(h, t, j + 1)] = Place(h, t, j)
  <2>1. j \in Int /\ j >= 0 /\ j + 1 \in Int /\ j + 1 >= 0 /\ j + 1 # 0
    BY <1>3
  <2>2. CASE j = 0
    <3>1. j + 1 <= m /\ j + 1 = 1
      BY <1>3, <2>2
    <3>2. Place(h, t, j) = B(0) /\ Place(h, t, j + 1) = A(1)
      BY <1>5, <1>11, <2>1, <2>2, <3>1
    <3>3. QED BY <1>5, <1>7, <1>8, <1>12, <3>2
  <2>3. CASE j # 0 /\ j < m
    <3>1. /\ j <= m /\ j + 1 <= m /\ j \in 0 .. m /\ j \in 0 .. m + 1 /\ j + 1 \in 0 .. m + 1
          /\ m \in 0 .. m + 1 /\ 1 \in 0 .. m + 1 /\ j # m /\ j + 1 # 1 /\ m # m + 1 /\ 1 # 0
      BY <1>3, <2>3
    <3>2. Place(h, t, j) = A(j) /\ Place(h, t, j + 1) = A(j + 1)
      BY <1>11, <2>1, <2>3, <3>1
    <3>3. A(j) # A(m) /\ A(j + 1) # A(1) /\ A(j) # h /\ A(j + 1) # B(1)
      <4>1. A(j) # A(m)
        BY <1>3, <1>9, <2>3, <3>1
      <4>2. A(j + 1) # A(1)
        BY <1>9, <2>1, <3>1
      <4>3. QED BY <1>5, <1>12, <4>1, <4>2
    <3>4. QED BY <1>4, <1>7, <1>8, <3>1, <3>2, <3>3
  <2>4. CASE j = m
    <3>1. j # 0 /\ j <= m /\ ~(j + 1 <= m) /\ (j + 1) - m = 1
      BY <1>3, <2>4
    <3>2. Place(h, t, j) = A(m) /\ Place(h, t, j + 1) = B(1)
      BY <1>11, <2>1, <2>4, <3>1
    <3>3. QED BY <1>7, <1>8, <3>2
  <2>5. CASE j > m
    <3>1. PICK e : e = j - m
      OBVIOUS
    <3>2. /\ e \in 0 .. k /\ e \in 0 .. k + 1 /\ e # 0 /\ e # k + 1 /\ e + 1 # 1 /\ e + 1 # 0
          /\ e + 1 \in 0 .. k + 1 /\ 1 \in 0 .. k + 1 /\ 0 \in 0 .. k + 1
          /\ j # 0 /\ ~(j <= m) /\ ~(j + 1 <= m) /\ (j + 1) - m = e + 1
      BY <1>3, <2>5, <3>1
    <3>3. Place(h, t, j) = B(e) /\ Place(h, t, j + 1) = B(e + 1)
      BY <1>11, <2>1, <3>1, <3>2
    <3>4. B(e) # B(0) /\ B(e + 1) # B(1)
      <4>1. B(e) # B(0)
        BY <1>10, <3>2
      <4>2. B(e + 1) # B(1)
        BY <1>10, <3>2
      <4>3. QED BY <4>1, <4>2
    <3>5. QED BY <1>4, <1>5, <1>7, <1>8, <1>12, <3>2, <3>3, <3>4
  <2>6. QED BY <1>3, <2>2, <2>3, <2>4, <2>5
<1>14. Circle(nx2, pv2, h, t)
  BY <1>3, <1>13 DEF Circle
<1>15. QED BY <1>14 DEF t

\* The lists of l and h as one, and the others as they were.
IsJoined(u, s, l, h) ==
  /\ u[l] = <<>> /\ u[h] = s[l] \o s[h]
  /\ \A g \in Heads \ {l, h} : u[g] = s[g]

LEMMA Splicing ==
  ASSUME NEW nx, NEW pv, NEW nx2, NEW pv2, NEW spl, NEW s \in [Heads -> Seq(Entries)],
         Stand(nx, pv, spl, s), NEW l \in Heads \ spl, NEW h \in Heads \ spl, l # h, nx[l] # l,
         IsSpliced(nx2, pv2, nx, pv, l, h)
  PROVE  \E u \in [Heads -> Seq(Entries)] :
           Stand(nx2, pv2, spl \cup {l}, u) /\ IsJoined(u, s, l, h)
<1>1. PICK a : a = s[l]
  OBVIOUS
<1>2. PICK b : b = s[h]
  OBVIOUS
<1>3. /\ a \in Seq(Entries) /\ OneTime(a) /\ Circle(nx, pv, l, a)
      /\ b \in Seq(Entries) /\ OneTime(b) /\ Circle(nx, pv, h, b)
  BY <1>1, <1>2 DEF Stand, Stood
<1>4. a # <<>>
  <2>1. SUFFICES ASSUME a = <<>> PROVE FALSE
    OBVIOUS
  <2>2. Len(a) = 0 /\ 0 \in 0 .. Len(a) /\ 0 \notin 1 .. Len(a) /\ 0 + 1 \notin 1 .. Len(a)
    BY <2>1
  <2>3. nx[l] = l
    BY <1>3, <2>2 DEF Circle, Place
  <2>4. QED BY <2>3
<1>5. \A j, k : Place(l, a, j) # Place(h, b, k)
  <2>1. \A j : Place(l, a, j) \in Link /\ (Place(l, a, j) = l \/ In(Place(l, a, j), a))
    BY <1>3, PlaceIs DEF Place, In
  <2>2. QED BY <1>1, <1>2, <2>1, Apart
<1>6. PICK t : t = a \o b
  OBVIOUS
<1>7. Circle(nx2, pv2, h, t)
  <2>1. Circle(nx2, pv2, h, a \o b)
    BY <1>3, <1>4, <1>5, CircleSpliced
  <2>2. QED BY <1>6, <2>1
<1>8. \A y : ~(In(y, a) /\ In(y, b))
  <2>1. \A y : In(y, a) => y \in Entries
    BY <1>3, PlaceIs DEF In
  <2>2. QED BY <1>1, <1>2, <2>1 DEF Stand
<1>9. t \in Seq(Entries) /\ OneTime(t) /\ \A y : In(y, t) <=> In(y, a) \/ In(y, b)
  BY <1>3, <1>6, <1>8, Concatenated
<1>10. PICK none : none = <<>>
  OBVIOUS
<1>11. none \in Seq(Entries) /\ OneTime(none) /\ \A y : ~In(y, none)
  BY <1>10 DEF OneTime, In
\* First l is emptied, then h gets what it had.
<1>12. PICK v \in [Heads -> Seq(Entries)] : IsWith(v, s, l, none)
  BY <1>11, WithOne
<1>13. Stand(nx, pv, spl \cup {l}, v)
  <2>1. Stood(nx, pv, spl \cup {l}, l, none)
    BY <1>10 DEF Stood
  <2>2. Elsewhere(nx, pv, spl \cup {l}, nx, pv, spl, s, l)
    BY DEF Elsewhere
  <2>3. Brings(s, l, none)
    BY <1>11 DEF Brings
  <2>4. QED BY <1>11, <1>12, <2>1, <2>2, <2>3, HeadChanges
<1>14. PICK u \in [Heads -> Seq(Entries)] : IsWith(u, v, h, t)
  BY <1>9, WithOne
<1>15. v[l] = none /\ v[h] = b /\ \A g \in Heads : g # l => v[g] = s[g]
  BY <1>2, <1>12 DEF IsWith
<1>16. Stand(nx2, pv2, spl \cup {l}, u)
  <2>1. Stood(nx2, pv2, spl \cup {l}, h, t)
    BY <1>7 DEF Stood
  <2>2. ASSUME NEW g \in Heads, g # h, NEW y \in Link, y = g \/ In(y, v[g])
        PROVE  nx2[y] = nx[y] /\ pv2[y] = pv[y]
    <3>1. \A j : y # Place(h, b, j)
      BY <1>13, <1>15, <2>2, Apart
    <3>2. y # Place(l, a, 1) /\ y # Place(l, a, Len(a))
      <4>1. CASE g = l
        <5>1. y = l
          BY <1>11, <1>15, <2>2, <4>1
        <5>2. 1 \in 1 .. Len(a) /\ Len(a) \in 1 .. Len(a)
          BY <1>3, <1>4
        <5>3. \A j \in 1 .. Len(a) : Place(l, a, j) # l
          <6>1. l \in Heads /\ \A j \in 1 .. Len(a) : a[j] \in Entries
            BY <1>3
          <6>2. QED BY <6>1, LinkIs DEF Place
        <5>4. QED BY <5>1, <5>2, <5>3
      <4>2. CASE g # l
        <5>1. y = g \/ In(y, s[g])
          BY <1>15, <2>2, <4>2
        <5>2. \A j : y # Place(l, s[l], j)
          BY <2>2, <4>2, <5>1, Apart
        <5>3. QED BY <1>1, <5>2
      <4>3. QED BY <4>1, <4>2
    <3>3. nx[l] = Place(l, a, 1) /\ pv[l] = Place(l, a, Len(a)) /\ nx[h] = Place(h, b, 1)
          /\ h = Place(h, b, 0)
      <4>1. /\ 0 \in 0 .. Len(a) /\ Len(a) \in 0 .. Len(a) /\ 0 \in 0 .. Len(b) /\ 0 + 1 = 1
            /\ 0 \notin 1 .. Len(a) /\ Len(a) + 1 \notin 1 .. Len(a) /\ 0 \notin 1 .. Len(b)
        BY <1>3
      <4>2. Place(l, a, 0) = l /\ Place(l, a, Len(a) + 1) = l /\ Place(h, b, 0) = h
        BY <4>1 DEF Place
      <4>3. QED BY <1>3, <4>1, <4>2 DEF Circle
    <3>4. y # pv[l] /\ y # nx[l] /\ y # nx[h] /\ y # h
      BY <3>1, <3>2, <3>3
    <3>5. QED BY <3>4 DEF IsSpliced
  <2>3. Elsewhere(nx2, pv2, spl \cup {l}, nx, pv, spl \cup {l}, v, h)
    BY <2>2 DEF Elsewhere
  <2>4. Brings(v, h, t)
    <3>1. SUFFICES ASSUME NEW y \in Entries, In(y, t), ~In(y, b)
                   PROVE  Nowhere(y, v)
      BY <1>15 DEF Brings
    <3>2. In(y, s[l])
      BY <1>1, <1>9, <3>1
    <3>3. ASSUME NEW g \in Heads PROVE ~In(y, v[g])
      BY <1>11, <1>15, <3>2 DEF Stand
    <3>4. QED BY <3>3 DEF Nowhere
  <2>5. QED BY <1>9, <1>13, <1>14, <2>1, <2>3, <2>4, HeadChanges
<1>17. IsJoined(u, s, l, h)
  BY <1>1, <1>2, <1>6, <1>10, <1>14, <1>15 DEF IsWith, IsJoined
<1>18. QED BY <1>16, <1>17

\* A head and all that hangs on it, or did, is linked to itself.
IsFreed(nx2, pv2, nx, pv, h, s) ==
  \A y \in Link : /\ nx2[y] = IF y = h \/ In(y, s) THEN y ELSE nx[y]
                  /\ pv2[y] = IF y = h \/ In(y, s) THEN y ELSE pv[y]

LEMMA Emptying ==
  ASSUME NEW nx, NEW pv, NEW nx2, NEW pv2, NEW spl, NEW s \in [Heads -> Seq(Entries)],
         Stand(nx, pv, spl, s), NEW h \in Heads, IsFreed(nx2, pv2, nx, pv, h, s[h]),
         NEW u, IsWith(u, s, h, <<>>)
  PROVE  Stand(nx2, pv2, spl \ {h}, u)
<1>1. PICK none : none = <<>>
  OBVIOUS
<1>2. /\ none \in Seq(Entries) /\ OneTime(none) /\ (\A y : ~In(y, none)) /\ Len(none) = 0
      /\ IsWith(u, s, h, none)
  BY <1>1 DEF OneTime, In
<1>3. Circle(nx2, pv2, h, none)
  <2>1. h \in Link /\ nx2[h] = h /\ pv2[h] = h
    BY LinkIs DEF IsFreed
  <2>2. \A j : Place(h, none, j) = h
    BY <1>2 DEF Place
  <2>3. QED BY <2>1, <2>2 DEF Circle
<1>4. Stood(nx2, pv2, spl \ {h}, h, none)
  BY <1>3 DEF Stood
<1>5. ASSUME NEW g \in Heads, g # h, NEW y \in Link, y = g \/ In(y, s[g])
      PROVE  nx2[y] = nx[y] /\ pv2[y] = pv[y]
  <2>1. \A j : y # Place(h, s[h], j)
    BY <1>5, Apart
  <2>2. y # h
    <3>1. 0 \notin 1 .. Len(s[h])
      OBVIOUS
    <3>2. Place(h, s[h], 0) = h
      BY <3>1 DEF Place
    <3>3. QED BY <2>1, <3>2
  <2>3. ~In(y, s[h])
    BY <2>1 DEF Place, In
  <2>4. QED BY <2>2, <2>3 DEF IsFreed
<1>6. Elsewhere(nx2, pv2, spl \ {h}, nx, pv, spl, s, h)
  BY <1>5 DEF Elsewhere
<1>7. Brings(s, h, none)
  BY <1>2 DEF Brings
<1>8. QED BY <1>2, <1>4, <1>6, <1>7, HeadChanges

----------------------------------------------------------------------------
\* Rings, and what keeps them.
LEMMA RingsHold ==
  ASSUME RingInv
  PROVE  List!Rings
<1>1. PICK s \in [Heads -> Seq(Entries)] : Stand(next, prev, spliced, s)
  BY DEF RingInv
<1>2. \A h \in Heads : /\ List!On(h) = s[h] /\ s[h] \in Seq(Entries)
                       /\ \A y : y \in List!ToSet(List!On(h)) <=> In(y, s[h])
  BY <1>1, OnIs, ListContains
<1>3. ASSUME NEW h \in Heads \ spliced, NEW e \in List!ToSet(List!On(h)) \cup {h}
      PROVE  /\ next[e] \in Link /\ prev[next[e]] = e
             /\ prev[e] \in Link /\ next[prev[e]] = e
             /\ e # h => e \in Entries
  <2>1. PICK r : r = s[h]
    OBVIOUS
  <2>2. r \in Seq(Entries) /\ Len(r) \in Nat /\ Circle(next, prev, h, r)
    BY <1>1, <2>1 DEF Stand, Stood
  <2>3. \A j \in 0 .. Len(r) : /\ next[Place(h, r, j)] = Place(h, r, j + 1)
                               /\ prev[Place(h, r, j + 1)] = Place(h, r, j)
    BY <2>2 DEF Circle
  <2>4. \A j : Place(h, r, j) \in Link
    BY <2>2, PlaceIs
  <2>5. PICK j \in 0 .. Len(r) : e = Place(h, r, j)
    <3>1. CASE e = h
      <4>1. 0 \in 0 .. Len(r) /\ 0 \notin 1 .. Len(r)
        BY <2>2
      <4>2. QED BY <3>1, <4>1 DEF Place
    <3>2. CASE e # h
      <4>1. In(e, r)
        BY <1>2, <1>3, <2>1, <3>2
      <4>2. PICK j \in 1 .. Len(r) : r[j] = e
        BY <4>1 DEF In
      <4>3. j \in 0 .. Len(r) /\ Place(h, r, j) = e
        BY <2>2, <4>2 DEF Place
      <4>4. QED BY <4>3
    <3>3. QED BY <3>1, <3>2
  <2>6. next[e] = Place(h, r, j + 1) /\ prev[Place(h, r, j + 1)] = e
    BY <2>3, <2>5
  <2>7. PICK k \in 0 .. Len(r) : e = Place(h, r, k + 1)
    <3>1. CASE j = 0
      <4>1. Len(r) \in 0 .. Len(r) /\ Len(r) + 1 \notin 1 .. Len(r) /\ 0 \notin 1 .. Len(r)
        BY <2>2
      <4>2. QED BY <2>5, <3>1, <4>1 DEF Place
    <3>2. CASE j # 0
      <4>1. j - 1 \in 0 .. Len(r) /\ (j - 1) + 1 = j
        BY <2>2, <3>2
      <4>2. QED BY <2>5, <4>1
    <3>3. QED BY <3>1, <3>2
  <2>8. prev[e] = Place(h, r, k) /\ next[Place(h, r, k)] = e
    BY <2>3, <2>7
  <2>9. e # h => e \in Entries
    BY <2>2, <2>5, PlaceIs
  <2>10. QED BY <2>4, <2>6, <2>8, <2>9
<1>4. ASSUME NEW g \in Heads, NEW h \in Heads, g # h
      PROVE  List!ToSet(List!On(g)) \cap List!ToSet(List!On(h)) = {}
  <2>1. SUFFICES ASSUME NEW y, In(y, s[g]), In(y, s[h]) PROVE FALSE
    BY <1>2
  <2>2. y \in Entries
    BY <1>2, <2>1, PlaceIs DEF In
  <2>3. QED BY <1>1, <1>4, <2>1, <2>2 DEF Stand
<1>5. QED BY <1>3, <1>4 DEF List!Rings, Link

----------------------------------------------------------------------------
\* The calls of list.h.
LEMMA LinksAre ==
  ASSUME RingInv, NEW p \in Link, NEW b \in Link, NEW a \in Link, List!Links(p, b, a)
  PROVE  /\ next' \in [Link -> Link \cup {Nil}] /\ prev' \in [Link -> Link \cup {Nil}]
         /\ p # b => IsBetween(next', prev', next, prev, p, b, a)
<1>1. next \in [Link -> Link \cup {Nil}] /\ prev \in [Link -> Link \cup {Nil}]
  BY DEF RingInv
<1>2. PICK f : f = next
  OBVIOUS
<1>3. PICK q : q = prev
  OBVIOUS
<1>4. PICK f2 : f2 = next'
  OBVIOUS
<1>5. PICK q2 : q2 = prev'
  OBVIOUS
<1>6. /\ f2 = Told(Told(f, p, a), b, p)
      /\ q2 = Told(Told(q, a, p), p, b)
  BY <1>2, <1>3, <1>4, <1>5 DEF List!Links, Told
<1>7. /\ f \in [Link -> Link \cup {Nil}] /\ q \in [Link -> Link \cup {Nil}]
      /\ p \in Link \cup {Nil} /\ a \in Link \cup {Nil} /\ b \in Link \cup {Nil}
  BY <1>1, <1>2, <1>3
<1>8. /\ f2 \in [Link -> Link \cup {Nil}]
      /\ \A z \in Link : f2[z] = IF z = b THEN p ELSE IF z = p THEN a ELSE f[z]
  <2>1. IsToldBoth(f2, f, p, a, b, p)
    BY <1>6, <1>7, BothTold
  <2>2. QED BY <2>1 DEF IsToldBoth
<1>9. /\ q2 \in [Link -> Link \cup {Nil}]
      /\ \A z \in Link : q2[z] = IF z = p THEN b ELSE IF z = a THEN p ELSE q[z]
  <2>1. IsToldBoth(q2, q, a, p, p, b)
    BY <1>6, <1>7, BothTold
  <2>2. QED BY <2>1 DEF IsToldBoth
<1>10. IsBetween(f2, q2, f, q, p, b, a)
  BY <1>8, <1>9 DEF IsBetween
<1>11. QED BY <1>2, <1>3, <1>4, <1>5, <1>8, <1>9, <1>10

LEMMA UnlinksAre ==
  ASSUME RingInv, NEW p \in Link, NEW x \in Link \cup {Nil}, next[p] \in Link, prev[p] \in Link,
         List!Unlinks(p, x)
  PROVE  /\ next' \in [Link -> Link \cup {Nil}] /\ prev' \in [Link -> Link \cup {Nil}]
         /\ IsOut(next', prev', next, prev, p, prev[p], next[p])
<1>1. next \in [Link -> Link \cup {Nil}] /\ prev \in [Link -> Link \cup {Nil}]
  BY DEF RingInv
<1>2. PICK f : f = next
  OBVIOUS
<1>3. PICK q : q = prev
  OBVIOUS
<1>4. PICK f2 : f2 = next'
  OBVIOUS
<1>5. PICK q2 : q2 = prev'
  OBVIOUS
<1>6. PICK a : a = next[p]
  OBVIOUS
<1>7. PICK b : b = prev[p]
  OBVIOUS
<1>8. /\ q2 = Told(Told(q, a, b), p, x)
      /\ f2 = Told(Told(f, b, a), p, x)
  BY <1>2, <1>3, <1>4, <1>5, <1>6, <1>7 DEF List!Unlinks, Told
<1>9. /\ f \in [Link -> Link \cup {Nil}] /\ q \in [Link -> Link \cup {Nil}]
      /\ a \in Link \cup {Nil} /\ b \in Link \cup {Nil}
  BY <1>1, <1>2, <1>3, <1>6, <1>7
<1>10. /\ f2 \in [Link -> Link \cup {Nil}]
       /\ \A z \in Link : f2[z] = IF z = p THEN x ELSE IF z = b THEN a ELSE f[z]
  <2>1. IsToldBoth(f2, f, b, a, p, x)
    BY <1>8, <1>9, BothTold
  <2>2. QED BY <2>1 DEF IsToldBoth
<1>11. /\ q2 \in [Link -> Link \cup {Nil}]
       /\ \A z \in Link : q2[z] = IF z = p THEN x ELSE IF z = a THEN b ELSE q[z]
  <2>1. IsToldBoth(q2, q, a, b, p, x)
    BY <1>8, <1>9, BothTold
  <2>2. QED BY <2>1 DEF IsToldBoth
<1>12. IsOut(f2, q2, f, q, p, b, a)
  BY <1>10, <1>11 DEF IsOut
<1>13. QED BY <1>2, <1>3, <1>4, <1>5, <1>6, <1>7, <1>10, <1>11, <1>12

\* What is in a list has its place there; the head's is before the first and
\* after the last.
LEMMA PlaceOf ==
  ASSUME NEW s \in [Heads -> Seq(Entries)], Stand(next, prev, spliced, s), NEW y
  PROVE  /\ y \in Heads \ spliced \/ List!Listed(y) =>
              /\ \E h \in Heads \ spliced : \E j \in 0 .. Len(s[h]) : y = Place(h, s[h], j)
              /\ \E h \in Heads \ spliced : \E j \in 1 .. Len(s[h]) + 1 : y = Place(h, s[h], j)
         /\ List!Listed(y) => \E h \in Heads \ spliced : \E j \in 1 .. Len(s[h]) : y = s[h][j]
         /\ ~List!Listed(y) => Nowhere(y, s)
<1>1. List!Listed(y) <=> \E h \in Heads : In(y, s[h])
  BY OnIs
<1>2. List!Listed(y) => \E h \in Heads \ spliced : \E j \in 1 .. Len(s[h]) : y = s[h][j]
  <2>1. SUFFICES ASSUME NEW h \in Heads, In(y, s[h])
                 PROVE  h \notin spliced /\ \E j \in 1 .. Len(s[h]) : y = s[h][j]
    BY <1>1
  <2>2. h \in spliced => s[h] = <<>>
    BY DEF Stand, Stood
  <2>3. QED BY <2>1, <2>2 DEF In
<1>3. ASSUME NEW h \in Heads \ spliced, NEW j \in 1 .. Len(s[h]), y = s[h][j]
      PROVE  y = Place(h, s[h], j) /\ j \in 0 .. Len(s[h]) /\ j \in 1 .. Len(s[h]) + 1
  <2>1. s[h] \in Seq(Entries) /\ Len(s[h]) \in Nat
    OBVIOUS
  <2>2. QED BY <1>3, <2>1 DEF Place
<1>4. ASSUME y \in Heads \ spliced
      PROVE  /\ y = Place(y, s[y], 0) /\ 0 \in 0 .. Len(s[y])
             /\ y = Place(y, s[y], Len(s[y]) + 1) /\ Len(s[y]) + 1 \in 1 .. Len(s[y]) + 1
  <2>1. s[y] \in Seq(Entries)
    BY <1>4
  <2>2. Len(s[y]) \in Nat
    BY <2>1
  <2>3. QED BY <2>2 DEF Place
<1>5. QED BY <1>1, <1>2, <1>3, <1>4 DEF Nowhere

LEMMA RingStart ==
  ASSUME List!RInit
  PROVE  RingInv
<1>1. PICK s : s = [h \in Heads |-> <<>>]
  OBVIOUS
<1>2. s \in [Heads -> Seq(Entries)] /\ \A h \in Heads : s[h] = <<>>
  BY <1>1
<1>3. /\ next = [e \in Link |-> IF e \in Heads THEN e ELSE Nil]
      /\ prev = [e \in Link |-> IF e \in Heads THEN e ELSE Nil] /\ spliced = {}
  BY DEF List!RInit, Link
<1>4. \A h \in Heads : next[h] = h /\ prev[h] = h
  BY <1>3, LinkIs
<1>5. ASSUME NEW h \in Heads, NEW r, r = <<>>
      PROVE  OneTime(r) /\ Circle(next, prev, h, r) /\ \A y : ~In(y, r)
  <2>1. Len(r) = 0 /\ \A j : Place(h, r, j) = h
    BY <1>5 DEF Place
  <2>2. QED BY <1>4, <2>1 DEF OneTime, Circle, In
<1>6. Stand(next, prev, spliced, s)
  BY <1>2, <1>3, <1>5 DEF Stand, Stood
<1>7. next \in [Link -> Link \cup {Nil}] /\ prev \in [Link -> Link \cup {Nil}]
  BY <1>3, LinkIs
<1>8. QED BY <1>2, <1>3, <1>6, <1>7 DEF RingInv

\* The entries of the heads after p came in at the place k of h, and after the
\* one at the place k of h went.
Puts(was, is, h, k, p) ==
  h \in Heads /\ k \in 1 .. Len(was[h]) + 1 /\ IsWith(is, was, h, Inserted(was[h], k, p))
Takes(was, is, h, k) ==
  h \in Heads /\ k \in 1 .. Len(was[h]) /\ IsWith(is, was, h, Removed(was[h], k))

LEMMA EntryIn ==
  ASSUME RingInv, NEW p \in Entries, ~List!Listed(p), spliced' = spliced,
         NEW s \in [Heads -> Seq(Entries)], Stand(next, prev, spliced, s),
         NEW h \in Heads \ spliced, NEW k \in 1 .. Len(s[h]) + 1,
         List!Links(p, Place(h, s[h], k - 1), Place(h, s[h], k))
  PROVE  RingInv' /\ Puts(Lying, Lying', h, k, p)
<1>4. PICK r : r = s[h]
  OBVIOUS
<1>5. r \in Seq(Entries) /\ h \in Heads /\ h \notin spliced /\ Nowhere(p, s) /\ p \in Link
  BY <1>4, PlaceOf, LinkIs
<1>6. PICK b : b = Place(h, r, k - 1)
  OBVIOUS
<1>7. PICK a : a = Place(h, r, k)
  OBVIOUS
<1>8. b \in Link /\ a \in Link /\ b # p
  <2>1. ~In(p, r) /\ p # h
    BY <1>4, <1>5, LinkIs DEF Nowhere
  <2>2. QED BY <1>5, <1>6, <1>7, <2>1, PlaceIs DEF Place, In
<1>9. /\ next' \in [Link -> Link \cup {Nil}] /\ prev' \in [Link -> Link \cup {Nil}]
      /\ IsBetween(next', prev', next, prev, p, b, a)
  BY <1>4, <1>5, <1>6, <1>7, <1>8, LinksAre
<1>10. Inserted(r, k, p) \in Seq(Entries)
  BY <1>4, <1>5, InsertedIs
<1>11. PICK u \in [Heads -> Seq(Entries)] : IsWith(u, s, h, Inserted(r, k, p))
  BY <1>10, WithOne
<1>12. Stand(next', prev', spliced, u)
  BY <1>4, <1>5, <1>6, <1>7, <1>9, <1>11, PuttingIn
<1>13. RingInv'
  BY <1>9, <1>11, <1>12 DEF RingInv
<1>14. Lying = s /\ Lying' = u
  BY <1>12, LyingThen, LyingNow DEF LyingAre
<1>15. QED BY <1>4, <1>11, <1>13, <1>14 DEF Puts

LEMMA EntryAfter ==
  ASSUME RingInv, NEW p \in Entries, NEW at \in Link, ~List!Listed(p),
         at \in Heads \ spliced \/ List!Listed(at), List!Links(p, at, next[at]), spliced' = spliced
  PROVE  RingInv' /\ \E h, k : Puts(Lying, Lying', h, k, p) /\ (at \in Heads => h = at /\ k = 1)
<1>1. PICK s \in [Heads -> Seq(Entries)] : Stand(next, prev, spliced, s)
  BY DEF RingInv
<1>2. PICK h \in Heads \ spliced : \E j \in 0 .. Len(s[h]) : at = Place(h, s[h], j)
  BY <1>1, PlaceOf
<1>3. PICK j \in 0 .. Len(s[h]) : at = Place(h, s[h], j)
  BY <1>2
<1>4. next[at] = Place(h, s[h], j + 1)
  BY <1>1, <1>3 DEF Stand, Stood, Circle
<1>5. PICK k : k = j + 1
  OBVIOUS
<1>6. k \in 1 .. Len(s[h]) + 1 /\ k - 1 = j
  BY <1>5
<1>7. List!Links(p, Place(h, s[h], k - 1), Place(h, s[h], k))
  BY <1>3, <1>4, <1>5, <1>6
<1>8. at \in Heads => h = at /\ k = 1
  <2>1. ASSUME at \in Heads PROVE j \notin 1 .. Len(s[h])
    BY <1>3, <2>1, PlaceIs, LinkIs
  <2>2. QED BY <1>3, <1>5, <2>1 DEF Place
<1>9. QED BY <1>1, <1>6, <1>7, <1>8, EntryIn

LEMMA EntryBefore ==
  ASSUME RingInv, NEW p \in Entries, NEW at \in Link, ~List!Listed(p),
         at \in Heads \ spliced \/ List!Listed(at), List!Links(p, prev[at], at), spliced' = spliced
  PROVE  RingInv' /\ \E h, k : /\ Puts(Lying, Lying', h, k, p)
                               /\ at \in Heads => h = at /\ k = Len(Lying[h]) + 1
<1>1. PICK s \in [Heads -> Seq(Entries)] : Stand(next, prev, spliced, s)
  BY DEF RingInv
<1>2. PICK h \in Heads \ spliced : \E j \in 1 .. Len(s[h]) + 1 : at = Place(h, s[h], j)
  BY <1>1, PlaceOf
<1>3. PICK j \in 1 .. Len(s[h]) + 1 : at = Place(h, s[h], j)
  BY <1>2
<1>4. j - 1 \in 0 .. Len(s[h]) /\ (j - 1) + 1 = j
  OBVIOUS
<1>5. prev[at] = Place(h, s[h], j - 1)
  BY <1>1, <1>3, <1>4 DEF Stand, Stood, Circle
<1>6. List!Links(p, Place(h, s[h], j - 1), Place(h, s[h], j))
  BY <1>3, <1>5
<1>7. at \in Heads => h = at /\ j = Len(s[h]) + 1
  <2>1. ASSUME at \in Heads PROVE j \notin 1 .. Len(s[h])
    BY <1>3, <2>1, PlaceIs, LinkIs
  <2>2. QED BY <1>3, <2>1 DEF Place
<1>8. Lying = s
  BY <1>1, LyingThen DEF LyingAre
<1>9. QED BY <1>1, <1>6, <1>7, <1>8, EntryIn

LEMMA EntryOut ==
  ASSUME RingInv, NEW p \in Entries, NEW x \in Link \cup {Nil}, List!Listed(p),
         List!Unlinks(p, x), spliced' = spliced
  PROVE  RingInv' /\ \E h, k : Takes(Lying, Lying', h, k) /\ Lying[h][k] = p
<1>1. PICK s \in [Heads -> Seq(Entries)] : Stand(next, prev, spliced, s)
  BY DEF RingInv
<1>2. PICK h \in Heads \ spliced : \E k \in 1 .. Len(s[h]) : p = s[h][k]
  BY <1>1, PlaceOf
<1>3. PICK k \in 1 .. Len(s[h]) : p = s[h][k]
  BY <1>2
<1>4. PICK r : r = s[h]
  OBVIOUS
<1>5. r \in Seq(Entries) /\ OneTime(r) /\ Circle(next, prev, h, r) /\ h \notin spliced
  BY <1>1, <1>4 DEF Stand, Stood
<1>6. p = Place(h, r, k) /\ p \in Link /\ prev[p] = Place(h, r, k - 1) /\ next[p] = Place(h, r, k + 1)
  <2>1. p = Place(h, r, k)
    BY <1>3, <1>4 DEF Place
  <2>2. k \in 0 .. Len(r) /\ k - 1 \in 0 .. Len(r) /\ (k - 1) + 1 = k
    BY <1>4
  <2>3. QED BY <1>5, <2>1, <2>2, LinkIs DEF Circle
<1>7. next[p] \in Link /\ prev[p] \in Link
  BY <1>5, <1>6, PlaceIs
<1>8. /\ next' \in [Link -> Link \cup {Nil}] /\ prev' \in [Link -> Link \cup {Nil}]
      /\ IsOut(next', prev', next, prev, p, prev[p], next[p])
  BY <1>6, <1>7, UnlinksAre
<1>9. Removed(r, k) \in Seq(Entries)
  BY <1>4, <1>5, RemovedIs
<1>10. PICK u \in [Heads -> Seq(Entries)] : IsWith(u, s, h, Removed(r, k))
  BY <1>9, WithOne
<1>11. Stand(next', prev', spliced, u)
  <2>1. /\ IsOut(next', prev', next, prev, s[h][k], Place(h, s[h], k - 1), Place(h, s[h], k + 1))
        /\ IsWith(u, s, h, Removed(s[h], k))
    BY <1>3, <1>4, <1>6, <1>8, <1>10
  <2>2. QED BY <1>1, <1>3, <1>5, <1>10, <2>1, TakingOut
<1>12. RingInv'
  BY <1>8, <1>10, <1>11 DEF RingInv
<1>13. Lying = s /\ Lying' = u
  BY <1>1, <1>11, LyingThen, LyingNow DEF LyingAre
<1>14. Takes(Lying, Lying', h, k) /\ Lying[h][k] = p
  BY <1>3, <1>4, <1>10, <1>13 DEF Takes
<1>15. QED BY <1>12, <1>14

LEMMA ListedIn ==
  ASSUME NEW s \in [Heads -> Seq(Entries)], Stand(next, prev, spliced, s), NEW y, List!Listed(y)
  PROVE  \E g \in Heads \ spliced : \E k \in 1 .. Len(s[g]) : y = s[g][k]
BY PlaceOf

\* p leaves the list it is on and comes in at one end of h.
Moved(p, h, first) ==
  \E g, k, u, e :
    /\ Takes(Lying, u, g, k) /\ Lying[g][k] = p /\ Puts(u, Lying', h, e, p)
    /\ e = IF first THEN 1 ELSE Len(u[h]) + 1

LEMMA EntryMoves ==
  ASSUME RingInv, NEW p \in Entries, NEW h \in Heads, h \notin spliced, List!Listed(p),
         spliced' = spliced, NEW f1, NEW q1, NEW a, NEW b,
         f1 = Told(next, prev[p], next[p]), q1 = Told(prev, next[p], prev[p]),
         next' = Told(Told(f1, p, a), b, p), prev' = Told(Told(q1, a, p), p, b),
         NEW first \in BOOLEAN, first => b = h /\ a = f1[h], ~first => a = h /\ b = q1[h]
  PROVE  RingInv' /\ Moved(p, h, first)
<1>1. PICK s \in [Heads -> Seq(Entries)] : Stand(next, prev, spliced, s)
  BY DEF RingInv
<1>2. PICK g \in Heads \ spliced : \E k \in 1 .. Len(s[g]) : p = s[g][k]
  <2>1. List!Listed(p)
    OBVIOUS
  <2>2. Stand(next, prev, spliced, s)
    BY <1>1
  <2>3. QED BY <2>1, <2>2, ListedIn
<1>3. PICK k \in 1 .. Len(s[g]) : p = s[g][k]
  BY <1>2
<1>4. PICK r : r = s[g]
  OBVIOUS
<1>5. r \in Seq(Entries) /\ OneTime(r) /\ Circle(next, prev, g, r) /\ g \notin spliced
  BY <1>1, <1>4 DEF Stand, Stood
<1>6. p \in Link /\ prev[p] = Place(g, r, k - 1) /\ next[p] = Place(g, r, k + 1)
  <2>1. p = Place(g, r, k)
    BY <1>3, <1>4 DEF Place
  <2>2. k \in 0 .. Len(r) /\ k - 1 \in 0 .. Len(r) /\ (k - 1) + 1 = k
    BY <1>4
  <2>3. QED BY <1>5, <2>1, <2>2, LinkIs DEF Circle
<1>7. next[p] \in Link /\ prev[p] \in Link
  BY <1>5, <1>6, PlaceIs
<1>8. /\ f1 \in [Link -> Link \cup {Nil}] /\ q1 \in [Link -> Link \cup {Nil}]
      /\ IsOut(f1, q1, next, prev, p, prev[p], next[p])
  <2>1. next \in [Link -> Link \cup {Nil}] /\ prev \in [Link -> Link \cup {Nil}]
    BY DEF RingInv
  <2>2. /\ f1 \in [Link -> Link \cup {Nil}]
        /\ \A y \in Link : f1[y] = IF y = prev[p] THEN next[p] ELSE next[y]
    BY <1>7, <2>1, ToldIs DEF IsTold
  <2>3. /\ q1 \in [Link -> Link \cup {Nil}]
        /\ \A y \in Link : q1[y] = IF y = next[p] THEN prev[p] ELSE prev[y]
    BY <1>7, <2>1, ToldIs DEF IsTold
  <2>4. QED BY <2>2, <2>3 DEF IsOut
<1>9. Removed(r, k) \in Seq(Entries)
  BY <1>4, <1>5, RemovedIs
<1>10. PICK u \in [Heads -> Seq(Entries)] : IsWith(u, s, g, Removed(r, k))
  BY <1>9, WithOne
<1>11. Stand(f1, q1, spliced, u) /\ Nowhere(p, u)
  <2>1. /\ IsOut(f1, q1, next, prev, s[g][k], Place(g, s[g], k - 1), Place(g, s[g], k + 1))
        /\ IsWith(u, s, g, Removed(s[g], k))
    BY <1>3, <1>4, <1>6, <1>8, <1>10
  <2>2. Stand(f1, q1, spliced, u) /\ Nowhere(s[g][k], u)
    BY <1>1, <1>3, <1>5, <1>10, <2>1, TakingOut
  <2>3. QED BY <1>3, <2>2
\* It is out; now it comes in at one end of h.
<1>12. PICK t : t = u[h]
  OBVIOUS
<1>13. t \in Seq(Entries) /\ Len(t) \in Nat /\ Circle(f1, q1, h, t)
  BY <1>11, <1>12 DEF Stand, Stood
<1>14. PICK e \in 1 .. Len(t) + 1 : /\ b = Place(h, t, e - 1) /\ a = Place(h, t, e)
                                   /\ e = IF first THEN 1 ELSE Len(t) + 1
  <2>1. /\ 0 \in 0 .. Len(t) /\ Len(t) \in 0 .. Len(t) /\ 0 \notin 1 .. Len(t)
        /\ Len(t) + 1 \notin 1 .. Len(t) /\ 1 \in 1 .. Len(t) + 1
        /\ Len(t) + 1 \in 1 .. Len(t) + 1 /\ 1 - 1 = 0 /\ 0 + 1 = 1 /\ (Len(t) + 1) - 1 = Len(t)
    BY <1>13
  <2>2. Place(h, t, 0) = h /\ Place(h, t, Len(t) + 1) = h
    BY <2>1 DEF Place
  <2>3. f1[h] = Place(h, t, 1) /\ q1[h] = Place(h, t, Len(t))
    BY <1>13, <2>1, <2>2 DEF Circle
  <2>4. CASE first
    BY <2>1, <2>2, <2>3, <2>4
  <2>5. CASE ~first
    BY <2>1, <2>2, <2>3, <2>5
  <2>6. QED BY <2>4, <2>5
<1>15. a \in Link /\ b \in Link
  BY <1>13, <1>14, PlaceIs
<1>16. /\ next' \in [Link -> Link \cup {Nil}] /\ prev' \in [Link -> Link \cup {Nil}]
       /\ IsBetween(next', prev', f1, q1, p, b, a)
  <2>1. PICK f2 : f2 = next'
    OBVIOUS
  <2>2. PICK q2 : q2 = prev'
    OBVIOUS
  <2>3. p \in Link \cup {Nil} /\ a \in Link \cup {Nil} /\ b \in Link \cup {Nil}
    BY <1>6, <1>15
  <2>8. f2 = Told(Told(f1, p, a), b, p) /\ q2 = Told(Told(q1, a, p), p, b)
    BY <2>1, <2>2
  <2>4. /\ f2 \in [Link -> Link \cup {Nil}]
        /\ \A z \in Link : f2[z] = IF z = b THEN p ELSE IF z = p THEN a ELSE f1[z]
    <3>1. IsToldBoth(f2, f1, p, a, b, p)
      BY <1>8, <2>3, <2>8, BothTold
    <3>2. QED BY <3>1 DEF IsToldBoth
  <2>5. /\ q2 \in [Link -> Link \cup {Nil}]
        /\ \A z \in Link : q2[z] = IF z = p THEN b ELSE IF z = a THEN p ELSE q1[z]
    <3>1. IsToldBoth(q2, q1, a, p, p, b)
      BY <1>8, <2>3, <2>8, BothTold
    <3>2. QED BY <3>1 DEF IsToldBoth
  <2>6. IsBetween(f2, q2, f1, q1, p, b, a)
    BY <2>4, <2>5 DEF IsBetween
  <2>7. QED BY <2>1, <2>2, <2>4, <2>5, <2>6
<1>17. Inserted(t, e, p) \in Seq(Entries)
  BY <1>13, <1>14, InsertedIs
<1>18. PICK w \in [Heads -> Seq(Entries)] : IsWith(w, u, h, Inserted(t, e, p))
  BY <1>17, WithOne
<1>19. Stand(next', prev', spliced, w)
  <2>1. /\ IsBetween(next', prev', f1, q1, p, Place(h, u[h], e - 1), Place(h, u[h], e))
        /\ IsWith(w, u, h, Inserted(u[h], e, p)) /\ e \in 1 .. Len(u[h]) + 1
    BY <1>12, <1>14, <1>16, <1>18
  <2>2. QED BY <1>11, <1>18, <2>1, PuttingIn
<1>20. RingInv'
  BY <1>16, <1>18, <1>19 DEF RingInv
<1>21. Lying = s /\ Lying' = w
  BY <1>1, <1>19, LyingThen, LyingNow DEF LyingAre
<1>22. Takes(Lying, u, g, k) /\ Lying[g][k] = p
  BY <1>3, <1>4, <1>10, <1>21 DEF Takes
<1>23. Puts(u, Lying', h, e, p)
  BY <1>12, <1>14, <1>18, <1>21 DEF Puts
<1>24. QED BY <1>12, <1>14, <1>20, <1>22, <1>23 DEF Moved

LEMMA MovesKeep ==
  ASSUME RingInv, NEW p \in Entries, NEW h \in Heads,
         List!ListMove(p, h) \/ List!ListMoveTail(p, h)
  PROVE  /\ RingInv' /\ \E first \in BOOLEAN : Moved(p, h, first)
         /\ (List!ListMove(p, h) => Moved(p, h, TRUE)) /\ (List!ListMoveTail(p, h) => Moved(p, h, FALSE))
<1>1. List!Listed(p) /\ h \notin spliced /\ spliced' = spliced
  BY DEF List!ListMove, List!ListMoveTail, List!MayDel
<1>2. PICK f1 : f1 = Told(next, prev[p], next[p])
  OBVIOUS
<1>3. PICK q1 : q1 = Told(prev, next[p], prev[p])
  OBVIOUS
<1>4. List!Without(next, p, prev[p]) = f1 /\ List!Without(prev, p, next[p]) = q1
  BY <1>2, <1>3 DEF List!Without, Told
<1>5. ASSUME List!ListMove(p, h)
      PROVE  RingInv' /\ Moved(p, h, TRUE)
  <2>1. PICK a : a = f1[h]
    OBVIOUS
  <2>2. next' = Told(Told(f1, p, a), h, p) /\ prev' = Told(Told(q1, a, p), p, h)
    BY <1>4, <1>5, <2>1 DEF List!ListMove, Told
  <2>3. QED BY <1>1, <1>2, <1>3, <2>1, <2>2, EntryMoves
<1>6. ASSUME List!ListMoveTail(p, h)
      PROVE  RingInv' /\ Moved(p, h, FALSE)
  <2>1. PICK b : b = q1[h]
    OBVIOUS
  <2>2. next' = Told(Told(f1, p, h), b, p) /\ prev' = Told(Told(q1, h, p), p, b)
    BY <1>4, <1>6, <2>1 DEF List!ListMoveTail, Told
  <2>3. QED BY <1>1, <1>2, <1>3, <2>1, <2>2, EntryMoves
<1>7. QED BY <1>5, <1>6

LEMMA SplicesKeep ==
  ASSUME RingInv, NEW l \in Heads, NEW h \in Heads,
         List!ListSplice(l, h) \/ List!ListSpliceInit(l, h)
  PROVE  RingInv' /\ IsJoined(Lying', Lying, l, h)
<1>1. PICK s \in [Heads -> Seq(Entries)] : Stand(next, prev, spliced, s)
  BY DEF RingInv
<1>2. l \in Heads \ spliced /\ h \in Heads \ spliced /\ l # h /\ next[l] # l
  BY DEF List!ListSplice, List!ListSpliceInit, List!MaySplice
<1>3. /\ next \in [Link -> Link \cup {Nil}] /\ prev \in [Link -> Link \cup {Nil}]
      /\ spliced \subseteq Heads
  BY DEF RingInv
<1>4. l \in Link /\ h \in Link /\ \A g \in {l, h} : next[g] \in Link /\ prev[g] \in Link
  <2>1. ASSUME NEW g \in Heads \ spliced PROVE next[g] \in Link /\ prev[g] \in Link
    <3>1. s[g] \in Seq(Entries) /\ Len(s[g]) \in Nat /\ Circle(next, prev, g, s[g])
      BY <1>1 DEF Stand, Stood
    <3>2. 0 \in 0 .. Len(s[g]) /\ Len(s[g]) \in 0 .. Len(s[g])
          /\ 0 \notin 1 .. Len(s[g]) /\ Len(s[g]) + 1 \notin 1 .. Len(s[g])
      BY <3>1
    <3>3. Place(g, s[g], 0) = g /\ Place(g, s[g], Len(s[g]) + 1) = g
      BY <3>2 DEF Place
    <3>4. next[g] = Place(g, s[g], 0 + 1) /\ prev[g] = Place(g, s[g], Len(s[g]))
      BY <3>1, <3>2, <3>3 DEF Circle
    <3>5. QED BY <3>1, <3>4, PlaceIs
  <2>2. QED BY <1>2, <2>1, LinkIs
<1>5. PICK f1 : f1 = Told(Told(next, h, next[l]), prev[l], next[h])
  OBVIOUS
<1>6. PICK q1 : q1 = Told(Told(prev, next[l], h), next[h], prev[l])
  OBVIOUS
<1>7. /\ f1 \in [Link -> Link \cup {Nil}] /\ q1 \in [Link -> Link \cup {Nil}]
      /\ IsSpliced(f1, q1, next, prev, l, h)
  <2>1. PICK b : b = prev[l]
    OBVIOUS
  <2>2. PICK c : c = next[l]
    OBVIOUS
  <2>3. PICK d : d = next[h]
    OBVIOUS
  <2>4. b \in Link \cup {Nil} /\ c \in Link \cup {Nil} /\ d \in Link \cup {Nil} /\ h \in Link \cup {Nil}
    BY <1>4, <2>1, <2>2, <2>3
  <2>5. /\ f1 \in [Link -> Link \cup {Nil}]
        /\ \A z \in Link : f1[z] = IF z = b THEN d ELSE IF z = h THEN c ELSE next[z]
    <3>1. IsToldBoth(f1, next, h, c, b, d)
      BY <1>3, <1>5, <2>1, <2>2, <2>3, <2>4, BothTold
    <3>2. QED BY <3>1 DEF IsToldBoth
  <2>6. /\ q1 \in [Link -> Link \cup {Nil}]
        /\ \A z \in Link : q1[z] = IF z = d THEN b ELSE IF z = c THEN h ELSE prev[z]
    <3>1. IsToldBoth(q1, prev, c, h, d, b)
      BY <1>3, <1>6, <2>1, <2>2, <2>3, <2>4, BothTold
    <3>2. QED BY <3>1 DEF IsToldBoth
  <2>7. QED BY <2>1, <2>2, <2>3, <2>5, <2>6 DEF IsSpliced
<1>8. PICK u \in [Heads -> Seq(Entries)] :
        Stand(f1, q1, spliced \cup {l}, u) /\ IsJoined(u, s, l, h)
  BY <1>1, <1>2, <1>7, Splicing
<1>9. CASE List!ListSplice(l, h)
  <2>1. next' = f1 /\ prev' = q1 /\ spliced' = spliced \cup {l}
    BY <1>5, <1>6, <1>9 DEF List!ListSplice, List!JoinsIn, Told
  <2>2. Lying = s /\ Lying' = u
    BY <1>1, <1>8, <2>1, LyingThen, LyingNow DEF LyingAre
  <2>3. QED BY <1>3, <1>7, <1>8, <2>1, <2>2 DEF RingInv
<1>10. CASE List!ListSpliceInit(l, h)
  <2>1. next' = Told(f1, l, l) /\ prev' = Told(q1, l, l) /\ spliced' = spliced
    BY <1>5, <1>6, <1>10 DEF List!ListSpliceInit, Told
  <2>2. PICK f2 : f2 = next'
    OBVIOUS
  <2>3. PICK q2 : q2 = prev'
    OBVIOUS
  <2>4. /\ f2 \in [Link -> Link \cup {Nil}]
        /\ \A z \in Link : f2[z] = IF z = l THEN l ELSE f1[z]
    <3>1. l \in Link \cup {Nil} /\ f2 = Told(f1, l, l)
      BY <1>4, <2>1, <2>2
    <3>2. IsTold(f2, f1, l, l)
      BY <1>7, <3>1, ToldIs
    <3>3. QED BY <3>2 DEF IsTold
  <2>5. /\ q2 \in [Link -> Link \cup {Nil}]
        /\ \A z \in Link : q2[z] = IF z = l THEN l ELSE q1[z]
    <3>1. l \in Link \cup {Nil} /\ q2 = Told(q1, l, l)
      BY <1>4, <2>1, <2>3
    <3>2. IsTold(q2, q1, l, l)
      BY <1>7, <3>1, ToldIs
    <3>3. QED BY <3>2 DEF IsTold
  <2>6. \A y : ~In(y, u[l])
    <3>1. PICK none : none = <<>>
      OBVIOUS
    <3>2. \A y : ~In(y, none)
      BY <3>1 DEF In
    <3>3. QED BY <1>8, <3>1, <3>2 DEF IsJoined
  <2>7. IsFreed(f2, q2, f1, q1, l, u[l])
    BY <2>4, <2>5, <2>6 DEF IsFreed
  <2>8. IsWith(u, u, l, <<>>)
    BY <1>8 DEF IsWith, IsJoined
  <2>9. Stand(f2, q2, (spliced \cup {l}) \ {l}, u)
    BY <1>8, <2>7, <2>8, Emptying
  <2>10. (spliced \cup {l}) \ {l} = spliced
    BY <1>2
  <2>11. RingInv'
    BY <1>3, <2>1, <2>2, <2>3, <2>4, <2>5, <2>9, <2>10 DEF RingInv
  <2>12. Lying = s /\ Lying' = u
    BY <1>1, <2>1, <2>2, <2>3, <2>9, <2>10, LyingThen, LyingNow DEF LyingAre
  <2>13. QED BY <1>8, <2>11, <2>12
<1>11. QED BY <1>9, <1>10

LEMMA EmptyingKeeps ==
  ASSUME RingInv, NEW h \in Heads, List!InitListHead(h) \/ List!FreeList(h)
  PROVE  RingInv' /\ IsWith(Lying', Lying, h, <<>>)
<1>1. PICK s \in [Heads -> Seq(Entries)] : Stand(next, prev, spliced, s)
  BY DEF RingInv
<1>2. /\ next \in [Link -> Link \cup {Nil}] /\ prev \in [Link -> Link \cup {Nil}]
      /\ spliced \subseteq Heads
  BY DEF RingInv
<1>3. /\ spliced' = spliced \ {h}
      /\ next' = [y \in Link |-> IF y = h \/ In(y, s[h]) THEN y ELSE next[y]]
      /\ prev' = [y \in Link |-> IF y = h \/ In(y, s[h]) THEN y ELSE prev[y]]
  <2>1. CASE List!InitListHead(h)
    <3>1. \A y : ~In(y, s[h])
      <4>1. s[h] = <<>>
        BY <1>1, <2>1 DEF List!InitListHead, Stand, Stood
      <4>2. QED BY <4>1 DEF In
    <3>2. /\ next' = [next EXCEPT ![h] = h] /\ prev' = [prev EXCEPT ![h] = h]
          /\ spliced' = spliced \ {h}
      BY <2>1 DEF List!InitListHead
    <3>3. QED BY <1>2, <3>1, <3>2
  <2>2. CASE List!FreeList(h)
    <3>1. PICK gone : gone = List!ToSet(List!On(h)) \cup {h}
      OBVIOUS
    <3>2. /\ spliced' = spliced /\ h \notin spliced
          /\ next' = List!With(next, [e \in gone |-> e])
          /\ prev' = List!With(prev, [e \in gone |-> e])
      BY <2>2, <3>1 DEF List!FreeList
    <3>3. \A y : y \in gone <=> y = h \/ In(y, s[h])
      BY <1>1, <3>1, OnIs, ListContains
    <3>4. /\ next' = [y \in Link |-> IF y \in gone THEN y ELSE next[y]]
          /\ prev' = [y \in Link |-> IF y \in gone THEN y ELSE prev[y]]
      BY <3>2 DEF List!With, Link
    <3>5. QED BY <3>2, <3>3, <3>4
  <2>3. QED BY <2>1, <2>2
<1>4. /\ next' \in [Link -> Link \cup {Nil}] /\ prev' \in [Link -> Link \cup {Nil}]
      /\ IsFreed(next', prev', next, prev, h, s[h])
  BY <1>2, <1>3 DEF IsFreed
<1>5. PICK none : none = <<>>
  OBVIOUS
<1>6. none \in Seq(Entries)
  BY <1>5
<1>7. PICK u \in [Heads -> Seq(Entries)] : IsWith(u, s, h, none)
  BY <1>6, WithOne
<1>8. IsWith(u, s, h, <<>>)
  BY <1>5, <1>7
<1>9. Stand(next', prev', spliced \ {h}, u)
  BY <1>1, <1>4, <1>8, Emptying
<1>10. RingInv'
  BY <1>2, <1>3, <1>4, <1>7, <1>9 DEF RingInv
<1>11. Lying = s /\ Lying' = u
  BY <1>1, <1>3, <1>7, <1>9, LyingThen, LyingNow DEF LyingAre
<1>12. QED BY <1>8, <1>10, <1>11

LEMMA RingStays ==
  ASSUME RingInv, UNCHANGED <<next, prev, spliced>>
  PROVE  RingInv' /\ Lying' = Lying
<1>1. PICK s \in [Heads -> Seq(Entries)] : Stand(next, prev, spliced, s)
  BY DEF RingInv
<1>2. Lying = s /\ Lying' = s
  BY <1>1, LyingThen, LyingNow DEF LyingAre
<1>3. QED BY <1>2 DEF RingInv

LEMMA RingKeeps ==
  ASSUME RingInv, List!RNext
  PROVE  RingInv'
<1>1. ASSUME NEW p \in Entries, NEW at \in Link \ {p}, List!ListAdd(p, at) \/ List!ListAddTail(p, at)
      PROVE  RingInv'
  <2>1. /\ ~List!Listed(p) /\ (at \in Heads \ spliced \/ List!Listed(at)) /\ spliced' = spliced
        /\ List!Links(p, at, next[at]) \/ List!Links(p, prev[at], at)
    BY <1>1 DEF List!ListAdd, List!ListAddTail, List!MayAdd
  <2>2. QED BY <1>1, <2>1, EntryAfter, EntryBefore
<1>2. ASSUME NEW p \in Entries, List!ListDel(p) \/ List!ListDelInit(p)
      PROVE  RingInv'
  <2>1. /\ List!Listed(p) /\ spliced' = spliced
        /\ List!Unlinks(p, Nil) \/ List!Unlinks(p, p)
    BY <1>2 DEF List!ListDel, List!ListDelInit, List!MayDel
  <2>2. p \in Link
    BY LinkIs
  <2>3. QED BY <1>2, <2>1, <2>2, EntryOut
<1>3. ASSUME NEW p \in Entries, NEW h \in Heads, List!ListMove(p, h) \/ List!ListMoveTail(p, h)
      PROVE  RingInv'
  BY <1>3, MovesKeep
<1>4. ASSUME NEW l \in Heads, NEW h \in Heads, List!ListSplice(l, h) \/ List!ListSpliceInit(l, h)
      PROVE  RingInv'
  BY <1>4, SplicesKeep
<1>5. ASSUME NEW h \in Heads, List!InitListHead(h) \/ List!FreeList(h)
      PROVE  RingInv'
  BY <1>5, EmptyingKeeps
<1>6. ASSUME (\E h \in Heads : List!ForEach(h)) \/ List!ForEachNext \/ List!ForEachEnds
      PROVE  RingInv'
  <2>1. UNCHANGED <<next, prev, spliced>>
    BY <1>6 DEF List!ForEach, List!ForEachNext, List!ForEachEnds
  <2>2. QED BY <2>1, RingStays
<1>7. QED BY <1>1, <1>2, <1>3, <1>4, <1>5, <1>6 DEF List!RNext, Link

----------------------------------------------------------------------------
(* Going over a sequence while places of it come and go.                    *)

\* From the place p on, the sequence s has the elements of ds, in order: f says
\* where. At the place p is y; after the last place, the end.
Ahead(s, ds, p, f) ==
  /\ f \in [1 .. Len(ds) -> p .. Len(s)]
  /\ \A j \in 1 .. Len(ds) : s[f[j]] = ds[j] /\ \A k \in 1 .. Len(ds) : j < k => f[j] < f[k]
Comes(s, ds, y, end) ==
  \E p \in 1 .. Len(s) + 1 : y = Place(end, s, p) /\ \E f : Ahead(s, ds, p, f)

LEMMA AheadIs ==
  ASSUME NEW T, NEW s \in Seq(T), NEW ds \in Seq(T), NEW p \in 1 .. Len(s) + 1, NEW f,
         Ahead(s, ds, p, f)
  PROVE  /\ Len(s) \in Nat /\ Len(ds) \in Nat
         /\ \A j \in 1 .. Len(ds) : f[j] \in p .. Len(s) /\ f[j] \in 1 .. Len(s) /\ s[f[j]] = ds[j]
         /\ \A j, k \in 1 .. Len(ds) : j < k => f[j] < f[k]
<1>1. Len(s) \in Nat /\ Len(ds) \in Nat
  OBVIOUS
<1>2. \A j \in 1 .. Len(ds) : f[j] \in p .. Len(s)
  BY DEF Ahead
<1>3. \A j \in 1 .. Len(ds) : f[j] \in 1 .. Len(s)
  BY <1>1, <1>2
<1>4. QED BY <1>1, <1>2, <1>3 DEF Ahead

\* What goes from places of s to places of t, keeping their order and what is there.
Carry(s, t, end, D, g) ==
  /\ D \subseteq 1 .. Len(s) + 1 /\ g \in [D -> 1 .. Len(t) + 1]
  /\ \A j \in D : Place(end, t, g[j]) = Place(end, s, j) /\ (j <= Len(s) => g[j] <= Len(t))
  /\ \A j, k \in D : j < k => g[j] < g[k]

LEMMA ComesAlong ==
  ASSUME NEW T, NEW s \in Seq(T), NEW t \in Seq(T), NEW ds \in Seq(T), NEW end,
         NEW p \in 1 .. Len(s) + 1, NEW f, Ahead(s, ds, p, f),
         NEW D, NEW g, Carry(s, t, end, D, g), p \in D, \A j \in 1 .. Len(ds) : f[j] \in D
  PROVE  Comes(t, ds, Place(end, s, p), end)
<1>1. /\ Len(s) \in Nat /\ Len(ds) \in Nat /\ Len(t) \in Nat
      /\ \A j \in 1 .. Len(ds) : f[j] \in p .. Len(s) /\ f[j] \in 1 .. Len(s) /\ s[f[j]] = ds[j]
      /\ \A j, k \in 1 .. Len(ds) : j < k => f[j] < f[k]
  BY AheadIs
<1>2. PICK h : h = [j \in 1 .. Len(ds) |-> g[f[j]]]
  OBVIOUS
<1>3. g[p] \in 1 .. Len(t) + 1 /\ Place(end, t, g[p]) = Place(end, s, p)
  BY DEF Carry
<1>4. ASSUME NEW j \in 1 .. Len(ds)
      PROVE  h[j] \in g[p] .. Len(t) /\ t[h[j]] = ds[j]
  <2>1. h[j] = g[f[j]] /\ f[j] \in D /\ f[j] <= Len(s) /\ p <= f[j] /\ f[j] \in Int
    BY <1>1, <1>2
  <2>2. h[j] \in 1 .. Len(t) + 1 /\ h[j] <= Len(t) /\ Place(end, t, h[j]) = Place(end, s, f[j])
    BY <2>1 DEF Carry
  <2>3. g[p] <= h[j]
    <3>1. CASE p = f[j]
      BY <1>3, <2>1, <3>1
    <3>2. CASE p # f[j]
      <4>1. p < f[j]
        BY <2>1, <3>2
      <4>2. g[p] < h[j]
        BY <2>1, <4>1 DEF Carry
      <4>3. QED BY <1>3, <2>2, <4>2
    <3>3. QED BY <3>1, <3>2
  <2>4. h[j] \in 1 .. Len(t)
    BY <1>1, <2>2
  <2>5. t[h[j]] = s[f[j]]
    BY <1>1, <2>2, <2>4 DEF Place
  <2>6. QED BY <1>1, <1>3, <2>3, <2>4, <2>5
<1>5. ASSUME NEW j \in 1 .. Len(ds), NEW k \in 1 .. Len(ds), j < k
      PROVE  h[j] < h[k]
  <2>1. f[j] < f[k] /\ f[j] \in D /\ f[k] \in D /\ h[j] = g[f[j]] /\ h[k] = g[f[k]]
    BY <1>1, <1>2, <1>5
  <2>2. QED BY <2>1 DEF Carry
<1>6. h \in [1 .. Len(ds) -> g[p] .. Len(t)]
  BY <1>2, <1>4
<1>7. Ahead(t, ds, g[p], h)
  BY <1>4, <1>5, <1>6 DEF Ahead
<1>8. QED BY <1>3, <1>7 DEF Comes

LEMMA ComesInserted ==
  ASSUME NEW T, NEW s \in Seq(T), NEW ds \in Seq(T), NEW x \in T, NEW q \in 1 .. Len(s) + 1,
         NEW y, NEW end, Comes(s, ds, y, end)
  PROVE  Comes(Inserted(s, q, x), ds, y, end)
<1>1. PICK p \in 1 .. Len(s) + 1 : y = Place(end, s, p) /\ \E f : Ahead(s, ds, p, f)
  BY DEF Comes
<1>2. PICK f : Ahead(s, ds, p, f)
  BY <1>1
<1>3. PICK t : t = Inserted(s, q, x)
  OBVIOUS
<1>4. PICK k : k = Len(s)
  OBVIOUS
<1>5. /\ k \in Nat /\ t \in Seq(T) /\ Len(t) = k + 1
      /\ \A j \in 1 .. k + 1 : t[j] = IF j < q THEN s[j] ELSE IF j = q THEN x ELSE s[j - 1]
  <2>1. /\ Len(s) \in Nat /\ Inserted(s, q, x) \in Seq(T)
        /\ Len(Inserted(s, q, x)) = Len(s) + 1
    BY InsertedIs
  <2>2. \A j \in 1 .. Len(s) + 1 :
          Inserted(s, q, x)[j] = IF j < q THEN s[j] ELSE IF j = q THEN x ELSE s[j - 1]
    BY DEF Inserted
  <2>3. QED BY <1>3, <1>4, <2>1, <2>2
<1>6. PICK g : g = [j \in 1 .. k + 1 |-> IF j < q THEN j ELSE j + 1]
  OBVIOUS
<1>7. ASSUME NEW j \in 1 .. k + 1
      PROVE  /\ g[j] \in 1 .. Len(t) + 1 /\ Place(end, t, g[j]) = Place(end, s, j)
             /\ j <= k => g[j] <= Len(t)
  <2>1. CASE j < q
    <3>1. g[j] = j /\ j \in 1 .. k /\ j \in 1 .. k + 1
      BY <1>4, <1>5, <1>6, <2>1
    <3>2. t[j] = s[j]
      BY <1>5, <2>1, <3>1
    <3>3. QED BY <1>4, <1>5, <3>1, <3>2 DEF Place
  <2>2. CASE ~(j < q)
    <3>1. g[j] = j + 1 /\ ~(j + 1 < q) /\ j + 1 # q /\ (j + 1) - 1 = j
          /\ (j \in 1 .. k <=> j + 1 \in 1 .. k + 1) /\ j + 1 \in 1 .. (k + 1) + 1
          /\ (j <= k => j + 1 <= k + 1)
      BY <1>4, <1>5, <1>6, <2>2
    <3>2. j \in 1 .. k => t[j + 1] = s[j]
      BY <1>5, <3>1
    <3>3. Place(end, t, j + 1) = Place(end, s, j)
      BY <1>4, <1>5, <3>1, <3>2 DEF Place
    <3>4. QED BY <1>5, <3>1, <3>3
  <2>3. QED BY <2>1, <2>2
<1>8. \A j, m \in 1 .. k + 1 : j < m => g[j] < g[m]
  BY <1>4, <1>5, <1>6
<1>9. g \in [1 .. k + 1 -> 1 .. Len(t) + 1]
  BY <1>6, <1>7
<1>10. Carry(s, t, end, 1 .. k + 1, g)
  BY <1>4, <1>7, <1>8, <1>9 DEF Carry
<1>11. p \in 1 .. k + 1 /\ \A j \in 1 .. Len(ds) : f[j] \in 1 .. k + 1
  BY <1>2, <1>4, <1>5, AheadIs
<1>12. Comes(t, ds, Place(end, s, p), end)
  BY <1>2, <1>5, <1>10, <1>11, ComesAlong
<1>13. QED BY <1>1, <1>3, <1>12

LEMMA ComesRemoved ==
  ASSUME NEW T, NEW s \in Seq(T), OneTime(s), NEW ds \in Seq(T), NEW q \in 1 .. Len(s),
         NEW y, NEW end, Comes(s, ds, y, end), s[q] # y, ~In(s[q], ds)
  PROVE  Comes(Removed(s, q), ds, y, end)
<1>1. PICK p \in 1 .. Len(s) + 1 : y = Place(end, s, p) /\ \E f : Ahead(s, ds, p, f)
  BY DEF Comes
<1>2. PICK f : Ahead(s, ds, p, f)
  BY <1>1
<1>3. PICK t : t = Removed(s, q)
  OBVIOUS
<1>4. PICK k : k = Len(s)
  OBVIOUS
<1>5. /\ k \in Nat /\ t \in Seq(T) /\ Len(t) = k - 1
      /\ \A j \in 1 .. k - 1 : t[j] = IF j < q THEN s[j] ELSE s[j + 1]
  BY <1>3, <1>4, RemovedIs, SMTT(40)
<1>6. PICK D : D = (1 .. k + 1) \ {q}
  OBVIOUS
<1>7. PICK g : g = [j \in D |-> IF j < q THEN j ELSE j - 1]
  OBVIOUS
<1>8. ASSUME NEW j \in D
      PROVE  /\ g[j] \in 1 .. Len(t) + 1 /\ Place(end, t, g[j]) = Place(end, s, j)
             /\ j <= k => g[j] <= Len(t)
  <2>1. CASE j < q
    <3>1. g[j] = j /\ j \in 1 .. k /\ j \in 1 .. k - 1
      BY <1>4, <1>5, <1>6, <1>7, <2>1
    <3>2. t[j] = s[j]
      BY <1>5, <2>1, <3>1
    <3>3. QED BY <1>4, <1>5, <3>1, <3>2 DEF Place
  <2>2. CASE ~(j < q)
    <3>1. g[j] = j - 1 /\ ~(j - 1 < q) /\ (j - 1) + 1 = j
          /\ (j \in 1 .. k <=> j - 1 \in 1 .. k - 1) /\ j - 1 \in 1 .. (k - 1) + 1
          /\ (j <= k => j - 1 <= k - 1)
      BY <1>4, <1>5, <1>6, <1>7, <2>2
    <3>2. j \in 1 .. k => t[j - 1] = s[j]
      BY <1>5, <3>1
    <3>3. Place(end, t, j - 1) = Place(end, s, j)
      BY <1>4, <1>5, <3>1, <3>2 DEF Place
    <3>4. QED BY <1>5, <3>1, <3>3
  <2>3. QED BY <2>1, <2>2
<1>9. \A j, m \in D : j < m => g[j] < g[m]
  BY <1>4, <1>5, <1>6, <1>7
<1>10. g \in [D -> 1 .. Len(t) + 1]
  BY <1>7, <1>8
<1>11. Carry(s, t, end, D, g)
  BY <1>4, <1>6, <1>8, <1>9, <1>10 DEF Carry
<1>12. p # q
  BY <1>1 DEF Place
<1>13. ASSUME NEW j \in 1 .. Len(ds)
       PROVE  f[j] \in D
  <2>1. f[j] \in 1 .. k /\ s[f[j]] = ds[j]
    BY <1>2, <1>4, AheadIs
  <2>2. f[j] # q
    BY <2>1 DEF In
  <2>3. QED BY <1>5, <1>6, <2>1, <2>2
<1>14. p \in D
  BY <1>4, <1>6, <1>12
<1>15. Comes(t, ds, Place(end, s, p), end)
  BY <1>2, <1>5, <1>11, <1>13, <1>14, ComesAlong
<1>16. QED BY <1>1, <1>3, <1>15

LEMMA ComesFirst ==
  ASSUME NEW T, NEW s \in Seq(T), NEW end
  PROVE  Comes(s, s, Place(end, s, 1), end)
<1>1. PICK k : k = Len(s)
  OBVIOUS
<1>2. k \in Nat /\ 1 \in 1 .. k + 1
  BY <1>1
<1>3. PICK f : f = [j \in 1 .. k |-> j]
  OBVIOUS
<1>4. f \in [1 .. k -> 1 .. k] /\ \A j \in 1 .. k : f[j] = j
  BY <1>3
<1>5. Ahead(s, s, 1, f)
  BY <1>1, <1>4 DEF Ahead
<1>6. QED BY <1>1, <1>2, <1>5 DEF Comes

\* What is left when y was met.
Rest(ds, y) == IF ds # <<>> /\ Head(ds) = y THEN Tail(ds) ELSE ds

LEMMA ComesNext ==
  ASSUME NEW T, NEW s \in Seq(T), OneTime(s), NEW ds \in Seq(T), NEW y, NEW end,
         Comes(s, ds, y, end), y # end, end \notin T
  PROVE  \E p \in 1 .. Len(s) :
           /\ y = s[p] /\ Comes(s, Rest(ds, y), Place(end, s, p + 1), end)
           /\ y # Place(end, s, p + 1) /\ ~In(y, Rest(ds, y)) /\ Rest(ds, y) \in Seq(T)
<1>1. PICK p \in 1 .. Len(s) + 1 : y = Place(end, s, p) /\ \E f : Ahead(s, ds, p, f)
  BY DEF Comes
<1>2. PICK f : Ahead(s, ds, p, f)
  BY <1>1
<1>3. p \in 1 .. Len(s) /\ y = s[p]
  BY <1>1 DEF Place
<1>4. PICK rs : rs = Rest(ds, y)
  OBVIOUS
<1>5. /\ Len(s) \in Nat /\ Len(ds) \in Nat /\ y \in T
      /\ \A j \in 1 .. Len(ds) : f[j] \in p .. Len(s) /\ f[j] \in 1 .. Len(s) /\ s[f[j]] = ds[j]
      /\ \A j, k \in 1 .. Len(ds) : j < k => f[j] < f[k]
  BY <1>2, <1>3, AheadIs
<1>6. \A j \in 1 .. Len(ds) : ds[j] = y <=> f[j] = p
  BY <1>3, <1>5 DEF OneTime
<1>7. \A j \in 1 .. Len(ds) : j # 1 => f[j] # p
  <2>1. SUFFICES ASSUME NEW j \in 1 .. Len(ds), j # 1 PROVE f[j] # p
    OBVIOUS
  <2>2. 1 \in 1 .. Len(ds) /\ 1 < j
    BY <1>5, <2>1
  <2>3. f[1] < f[j] /\ f[1] \in p .. Len(s) /\ f[j] \in p .. Len(s)
    BY <1>5, <2>2
  <2>4. QED BY <2>3
<1>8. PICK d : d = IF ds # <<>> /\ Head(ds) = y THEN 1 ELSE 0
  OBVIOUS
<1>9. /\ d \in {0, 1} /\ rs \in Seq(T) /\ Len(rs) \in Nat /\ Len(rs) + d = Len(ds)
      /\ \A j \in 1 .. Len(rs) : j + d \in 1 .. Len(ds) /\ rs[j] = ds[j + d] /\ f[j + d] # p
  <2>1. CASE ds # <<>> /\ Head(ds) = y
    <3>1. rs = Tail(ds) /\ d = 1
      BY <1>4, <1>8, <2>1 DEF Rest
    <3>2. rs \in Seq(T) /\ Len(rs) + 1 = Len(ds) /\ \A j \in 1 .. Len(rs) : rs[j] = ds[j + 1]
      BY <2>1, <3>1
    <3>3. \A j \in 1 .. Len(rs) : j + 1 \in 1 .. Len(ds) /\ j + 1 # 1
      BY <1>5, <3>2
    <3>4. QED BY <1>7, <3>1, <3>2, <3>3
  <2>2. CASE ~(ds # <<>> /\ Head(ds) = y)
    <3>1. rs = ds /\ d = 0
      BY <1>4, <1>8, <2>2 DEF Rest
    <3>2. ASSUME NEW j \in 1 .. Len(ds) PROVE f[j] # p
      <4>1. CASE j = 1
        <5>1. ds # <<>> /\ Head(ds) = ds[1]
          BY <1>5, <3>2
        <5>2. ds[1] # y
          BY <2>2, <5>1
        <5>3. QED BY <1>6, <3>2, <4>1, <5>2
      <4>2. CASE j # 1
        BY <1>7, <3>2, <4>2
      <4>3. QED BY <4>1, <4>2
    <3>3. QED BY <1>5, <3>1, <3>2
  <2>3. QED BY <2>1, <2>2
<1>10. PICK h : h = [j \in 1 .. Len(rs) |-> f[j + d]]
  OBVIOUS
<1>11. ASSUME NEW j \in 1 .. Len(rs)
       PROVE  h[j] \in p + 1 .. Len(s) /\ s[h[j]] = rs[j] /\ rs[j] # y
  <2>1. j + d \in 1 .. Len(ds) /\ rs[j] = ds[j + d] /\ f[j + d] # p /\ h[j] = f[j + d]
    BY <1>9, <1>10
  <2>2. f[j + d] \in p .. Len(s) /\ s[f[j + d]] = ds[j + d] /\ ds[j + d] # y
    BY <1>5, <1>6, <2>1
  <2>3. QED BY <2>1, <2>2
<1>12. ASSUME NEW j \in 1 .. Len(rs), NEW k \in 1 .. Len(rs), j < k
       PROVE  h[j] < h[k]
  <2>1. /\ j + d \in 1 .. Len(ds) /\ k + d \in 1 .. Len(ds) /\ j + d < k + d
        /\ h[j] = f[j + d] /\ h[k] = f[k + d]
    BY <1>9, <1>10, <1>12
  <2>2. QED BY <1>5, <2>1
<1>13. Ahead(s, rs, p + 1, h)
  <2>1. h \in [1 .. Len(rs) -> p + 1 .. Len(s)]
    BY <1>10, <1>11
  <2>2. QED BY <1>11, <1>12, <2>1 DEF Ahead
<1>14. p + 1 \in 1 .. Len(s) + 1
  BY <1>3, <1>5
<1>15. Comes(s, rs, Place(end, s, p + 1), end)
  BY <1>13, <1>14 DEF Comes
<1>16. y # Place(end, s, p + 1)
  <2>1. CASE p + 1 \in 1 .. Len(s)
    <3>1. p + 1 # p
      BY <1>3
    <3>2. QED BY <1>3, <2>1, <3>1 DEF OneTime, Place
  <2>2. CASE p + 1 \notin 1 .. Len(s)
    BY <2>2 DEF Place
  <2>3. QED BY <2>1, <2>2
<1>17. ~In(y, rs)
  BY <1>11 DEF In
<1>18. QED BY <1>3, <1>4, <1>9, <1>15, <1>16, <1>17

----------------------------------------------------------------------------
(* The iterator of the list with a header: the way it goes is the list, or  *)
(* the list read from its tail.                                             *)

Backwards(s) == [j \in 1 .. Len(s) |-> s[(Len(s) - j) + 1]]
Way(s, d) == IF d = "next" THEN s ELSE Backwards(s)

LEMMA BackwardsIs ==
  ASSUME NEW T, NEW s \in Seq(T)
  PROVE  /\ Backwards(s) \in Seq(T) /\ Len(Backwards(s)) = Len(s)
         /\ \A j \in 1 .. Len(s) : /\ (Len(s) - j) + 1 \in 1 .. Len(s)
                                   /\ Backwards(s)[j] = s[(Len(s) - j) + 1]
         /\ \A y : In(y, Backwards(s)) <=> In(y, s)
         /\ OneTime(s) => OneTime(Backwards(s))
<1>1. PICK k : k = Len(s)
  OBVIOUS
<1>2. k \in Nat /\ \A j \in 1 .. k : s[j] \in T /\ (k - j) + 1 \in 1 .. k /\ (k - ((k - j) + 1)) + 1 = j
  BY <1>1
<1>3. PICK t : t = Backwards(s)
  OBVIOUS
<1>4. t \in Seq(T) /\ Len(t) = k /\ \A j \in 1 .. k : t[j] = s[(k - j) + 1]
  <2>1. t = [j \in 1 .. k |-> s[(k - j) + 1]]
    BY <1>1, <1>3 DEF Backwards
  <2>2. t \in [1 .. k -> T]
    BY <1>2, <2>1
  <2>3. QED BY <1>2, <2>1, <2>2
<1>5. \A y : In(y, t) <=> In(y, s)
  <2>1. ASSUME NEW y, In(y, t) PROVE In(y, s)
    BY <1>1, <1>2, <1>4, <2>1 DEF In
  <2>2. ASSUME NEW y, In(y, s) PROVE In(y, t)
    <3>1. PICK j \in 1 .. k : s[j] = y
      BY <1>1, <2>2 DEF In
    <3>2. (k - j) + 1 \in 1 .. k /\ t[(k - j) + 1] = s[j]
      BY <1>2, <1>4
    <3>3. QED BY <1>4, <3>1, <3>2 DEF In
  <2>3. QED BY <2>1, <2>2
<1>6. ASSUME OneTime(s)
      PROVE  OneTime(t)
  <2>1. SUFFICES ASSUME NEW j \in 1 .. k, NEW m \in 1 .. k, t[j] = t[m] PROVE j = m
    BY <1>4 DEF OneTime
  <2>2. (k - j) + 1 = (k - m) + 1
    BY <1>1, <1>2, <1>4, <1>6, <2>1 DEF OneTime
  <2>3. QED BY <1>2, <2>1, <2>2
<1>7. QED BY <1>1, <1>2, <1>3, <1>4, <1>5, <1>6

LEMMA WayIs ==
  ASSUME NEW T, NEW s \in Seq(T), NEW d
  PROVE  /\ Way(s, d) \in Seq(T) /\ Len(Way(s, d)) = Len(s)
         /\ \A y : In(y, Way(s, d)) <=> In(y, s)
         /\ OneTime(s) => OneTime(Way(s, d))
BY BackwardsIs DEF Way

LEMMA WayInserted ==
  ASSUME NEW T, NEW s \in Seq(T), NEW x \in T, NEW q \in 1 .. Len(s) + 1, NEW d
  PROVE  \E p \in 1 .. Len(s) + 1 : Way(Inserted(s, q, x), d) = Inserted(Way(s, d), p, x)
<1>1. CASE d = "next"
  BY <1>1 DEF Way
<1>2. CASE d # "next"
  <2>1. PICK k : k = Len(s)
    OBVIOUS
  <2>2. PICK r : r = Inserted(s, q, x)
    OBVIOUS
  <2>3. PICK b : b = Backwards(s)
    OBVIOUS
  <2>4. PICK p : p = (k - q) + 2
    OBVIOUS
  <2>5. /\ k \in Nat /\ p \in 1 .. k + 1 /\ q \in 1 .. k + 1 /\ Len(b) = k
        /\ \A j \in 1 .. k : b[j] = s[(k - j) + 1]
    BY <2>1, <2>3, <2>4, BackwardsIs
  <2>6. r = [j \in 1 .. k + 1 |-> IF j < q THEN s[j] ELSE IF j = q THEN x ELSE s[j - 1]]
    BY <2>1, <2>2 DEF Inserted
  <2>7. Len(r) = k + 1
    BY <2>1, <2>2, InsertedIs
  <2>8. Backwards(r) = [j \in 1 .. k + 1 |-> r[((k + 1) - j) + 1]]
    BY <2>7 DEF Backwards
  <2>9. Inserted(b, p, x)
          = [j \in 1 .. k + 1 |-> IF j < p THEN b[j] ELSE IF j = p THEN x ELSE b[j - 1]]
    BY <2>5 DEF Inserted
  <2>10. ASSUME NEW j \in 1 .. k + 1
         PROVE  r[((k + 1) - j) + 1] = IF j < p THEN b[j] ELSE IF j = p THEN x ELSE b[j - 1]
    <3>1. PICK m : m = ((k + 1) - j) + 1
      OBVIOUS
    <3>2. m \in 1 .. k + 1 /\ r[m] = IF m < q THEN s[m] ELSE IF m = q THEN x ELSE s[m - 1]
      BY <2>5, <2>6, <3>1
    <3>3. CASE j < p
      <4>1. ~(m < q) /\ m # q /\ j \in 1 .. k /\ m - 1 = (k - j) + 1
        BY <2>4, <2>5, <3>1, <3>3
      <4>2. QED BY <2>5, <3>1, <3>2, <3>3, <4>1
    <3>4. CASE j = p
      <4>1. m = q /\ ~(m < q) /\ ~(j < p)
        BY <2>4, <2>5, <3>1, <3>4
      <4>2. QED BY <3>1, <3>2, <3>4, <4>1
    <3>5. CASE j > p
      <4>1. m < q /\ j - 1 \in 1 .. k /\ m = (k - (j - 1)) + 1 /\ ~(j < p) /\ j # p
        BY <2>4, <2>5, <3>1, <3>5
      <4>2. QED BY <2>5, <3>1, <3>2, <4>1
    <3>6. QED BY <2>5, <3>3, <3>4, <3>5
  <2>11. Backwards(r) = Inserted(b, p, x)
    BY <2>8, <2>9, <2>10
  <2>12. QED BY <1>2, <2>1, <2>2, <2>3, <2>5, <2>11 DEF Way
<1>3. QED BY <1>1, <1>2

LEMMA WayRemoved ==
  ASSUME NEW T, NEW s \in Seq(T), OneTime(s), NEW q \in 1 .. Len(s), NEW d
  PROVE  \E p \in 1 .. Len(s) : Way(s, d)[p] = s[q] /\ Way(Removed(s, q), d) = Removed(Way(s, d), p)
<1>1. CASE d = "next"
  BY <1>1 DEF Way
<1>2. CASE d # "next"
  <2>1. PICK k : k = Len(s)
    OBVIOUS
  <2>2. PICK r : r = Removed(s, q)
    OBVIOUS
  <2>3. PICK b : b = Backwards(s)
    OBVIOUS
  <2>4. PICK p : p = (k - q) + 1
    OBVIOUS
  <2>5. /\ k \in Nat /\ p \in 1 .. k /\ q \in 1 .. k /\ Len(b) = k /\ (k - p) + 1 = q
        /\ \A j \in 1 .. k : b[j] = s[(k - j) + 1]
    BY <2>1, <2>3, <2>4, BackwardsIs
  <2>6. r = [j \in 1 .. k - 1 |-> IF j < q THEN s[j] ELSE s[j + 1]]
    BY <2>1, <2>2 DEF Removed
  <2>7. Len(r) = k - 1
    BY <2>1, <2>2, RemovedIs
  <2>8. Backwards(r) = [j \in 1 .. k - 1 |-> r[((k - 1) - j) + 1]]
    BY <2>7 DEF Backwards
  <2>9. Removed(b, p) = [j \in 1 .. k - 1 |-> IF j < p THEN b[j] ELSE b[j + 1]]
    BY <2>5 DEF Removed
  <2>10. ASSUME NEW j \in 1 .. k - 1
         PROVE  r[((k - 1) - j) + 1] = IF j < p THEN b[j] ELSE b[j + 1]
    <3>1. PICK m : m = ((k - 1) - j) + 1
      OBVIOUS
    <3>2. m \in 1 .. k - 1 /\ r[m] = IF m < q THEN s[m] ELSE s[m + 1]
      BY <2>5, <2>6, <3>1
    <3>3. CASE j < p
      <4>1. ~(m < q) /\ j \in 1 .. k /\ m + 1 = (k - j) + 1
        BY <2>4, <2>5, <3>1, <3>3
      <4>2. QED BY <2>5, <3>1, <3>2, <3>3, <4>1
    <3>4. CASE ~(j < p)
      <4>1. m < q /\ j + 1 \in 1 .. k /\ m = (k - (j + 1)) + 1
        BY <2>4, <2>5, <3>1, <3>4
      <4>2. QED BY <2>5, <3>1, <3>2, <3>4, <4>1
    <3>5. QED BY <3>3, <3>4
  <2>11. Backwards(r) = Removed(b, p)
    BY <2>8, <2>9, <2>10
  <2>12. QED BY <1>2, <2>1, <2>2, <2>3, <2>5, <2>11 DEF Way
<1>3. QED BY <1>1, <1>2

\* From each place of the way the links in that direction lead to the next.
LEMMA WayLeads ==
  ASSUME NEW nd, NEW s \in Seq(Node), Chain(nd, s), NEW d \in {"next", "prev"},
         NEW j \in 1 .. Len(s)
  PROVE  nd[Way(s, d)[j]][d] = Place(0, Way(s, d), j + 1)
<1>1. CASE d = "next"
  BY <1>1 DEF Way, Chain, At, Place
<1>2. CASE d = "prev"
  <2>1. PICK k : k = Len(s)
    OBVIOUS
  <2>2. PICK b : b = Backwards(s)
    OBVIOUS
  <2>3. /\ k \in Nat /\ Len(b) = k
        /\ \A e \in 1 .. k : (k - e) + 1 \in 1 .. k /\ b[e] = s[(k - e) + 1]
    BY <2>1, <2>2, BackwardsIs
  <2>4. PICK q \in 1 .. k : q = (k - j) + 1
    BY <2>1, <2>3
  <2>5. b[j] = s[q] /\ nd[s[q]].prev = At(s, q - 1)
    BY <2>1, <2>3, <2>4 DEF Chain
  <2>6. At(s, q - 1) = Place(0, b, j + 1)
    <3>1. /\ j + 1 \in 1 .. k <=> q - 1 \in 1 .. k
          /\ (k - (j + 1)) + 1 = q - 1
      BY <2>1, <2>3, <2>4
    <3>2. QED BY <2>1, <2>3, <3>1 DEF At, Place
  <2>7. Way(s, d) = b
    BY <1>2, <2>2 DEF Way
  <2>8. QED BY <1>2, <2>5, <2>6, <2>7
<1>3. QED BY <1>1, <1>2

\* The m steps of a walk go along w, from its place p on, and stay at its end.
Steps(walk, w, p, m, end) ==
  DOMAIN walk = 1 .. m /\ \A j \in 1 .. m : walk[j] = Place(end, w, (p + j) - 1)

\* A walk from a place of the way, or from its end, goes on along it.
LEMMA WalkOn ==
  ASSUME NEW s \in Seq(Node), Chain(node, s), NEW d \in {"next", "prev"},
         NEW p \in 1 .. Len(s) + 1, NEW k \in Nat
  PROVE  Steps(AList!Walk(Place(0, Way(s, d), p), d, k), Way(s, d), p, k, 0)
<1>1. PICK w : w = Way(s, d)
  OBVIOUS
<1>2. w \in Seq(Node) /\ Len(w) = Len(s) /\ Len(w) \in Nat
  BY <1>1, WayIs
<1>3. \A j \in 1 .. Len(w) : node[w[j]][d] = Place(0, w, j + 1)
  BY <1>1, <1>2, WayLeads
<1>4. PICK g : g = [j \in 1 .. k |-> Place(0, w, (p + j) - 1)]
  OBVIOUS
<1>5. ASSUME NEW j \in 1 .. k
      PROVE  g[j] = IF j = 1 THEN Place(0, w, p)
                    ELSE IF g[j - 1] = 0 THEN 0 ELSE node[g[j - 1]][d]
  <2>1. CASE j = 1
    <3>1. (p + j) - 1 = p
      BY <1>2, <2>1
    <3>2. QED BY <1>4, <2>1, <3>1
  <2>2. CASE j # 1
    <3>1. PICK q : q = (p + (j - 1)) - 1
      OBVIOUS
    <3>2. /\ j - 1 \in 1 .. k /\ q \in Nat /\ q >= 1 /\ (p + j) - 1 = q + 1
          /\ g[j - 1] = Place(0, w, q) /\ g[j] = Place(0, w, q + 1)
      BY <1>2, <1>4, <2>2, <3>1
    <3>3. CASE q \in 1 .. Len(w)
      <4>1. Place(0, w, q) = w[q] /\ w[q] \in Node /\ w[q] # 0
        BY <1>2, <3>3, NodeIs DEF Place
      <4>2. node[w[q]][d] = Place(0, w, q + 1)
        BY <1>3, <3>3
      <4>3. QED BY <2>2, <3>2, <4>1, <4>2
    <3>4. CASE q \notin 1 .. Len(w)
      <4>1. q + 1 \notin 1 .. Len(w)
        BY <1>2, <3>2, <3>4
      <4>2. Place(0, w, q) = 0 /\ Place(0, w, q + 1) = 0
        BY <3>4, <4>1 DEF Place
      <4>3. QED BY <2>2, <3>2, <4>2
    <3>5. QED BY <3>3, <3>4
  <2>3. QED BY <2>1, <2>2
<1>6. g = [j \in 1 .. k |-> g[j]]
  BY <1>4
<1>7. Follows(g, Place(0, w, p), d, k)
  BY <1>5, <1>6 DEF Follows
<1>8. AList!Walk(Place(0, w, p), d, k) = g
  BY <1>7, WalkIs
<1>9. QED BY <1>1, <1>4, <1>8 DEF Steps

\* What the iterator still has before it comes on its way; the node it
\* returned is behind it.
Orig == AList!Nodes("orig")
IterType == [next : Pointer, towards : {"none", "next", "prev"}, current : Pointer]
Coming(s, it, ds) ==
  /\ Comes(Way(s, it.towards), ds, it.next, 0)
  /\ it.current # 0 => it.current # it.next /\ ~In(it.current, ds)
AIterInv ==
  /\ iter \in IterType /\ due \in Seq(Node)
  /\ iter.towards # "none" => Coming(Orig, iter, due)

LEMMA OrigIs ==
  ASSUME AListInv
  PROVE  /\ Orig \in Seq(Node) /\ OneTime(Orig) /\ Chain(node, Orig) /\ Header(hdr["orig"], Orig)
         /\ node \in [Node -> NodeType] /\ \A y : AList!Within(y, "orig") <=> In(y, Orig)
<1>1. PICK s \in [AList!Lists -> Seq(Node)] : Holds(s)
  BY DEF AListInv
<1>2. PICK r : r = s["orig"]
  OBVIOUS
<1>3. /\ r \in Seq(Node) /\ OneTime(r) /\ Chain(node, r) /\ Header(hdr["orig"], r)
      /\ node \in [Node -> NodeType]
  BY <1>1, <1>2 DEF AList!Lists, Holds, AListInv
<1>4. AList!Nodes("orig") = r /\ \A y : AList!Within(y, "orig") <=> In(y, r)
  BY <1>3, NodesAre
<1>5. QED BY <1>3, <1>4 DEF Orig

LEMMA ComingInserted ==
  ASSUME NEW s \in Seq(Node), NEW ds \in Seq(Node), NEW it \in IterType, Coming(s, it, ds),
         NEW x \in Node, NEW p \in 1 .. Len(s) + 1
  PROVE  Coming(Inserted(s, p, x), it, ds)
<1>1. PICK d : d = it.towards
  OBVIOUS
<1>2. PICK q \in 1 .. Len(s) + 1 : Way(Inserted(s, p, x), d) = Inserted(Way(s, d), q, x)
  BY WayInserted
<1>3. PICK w : w = Way(s, d)
  OBVIOUS
<1>4. w \in Seq(Node) /\ q \in 1 .. Len(w) + 1 /\ Comes(w, ds, it.next, 0)
  BY <1>1, <1>3, WayIs DEF Coming
<1>5. Comes(Inserted(w, q, x), ds, it.next, 0)
  BY <1>4, ComesInserted
<1>6. QED BY <1>1, <1>2, <1>3, <1>5 DEF Coming

LEMMA ComingRemoved ==
  ASSUME NEW s \in Seq(Node), OneTime(s), NEW ds \in Seq(Node), NEW it \in IterType,
         Coming(s, it, ds), NEW p \in 1 .. Len(s), s[p] = it.current,
         NEW it2, it2 = [it EXCEPT !.current = 0]
  PROVE  Coming(Removed(s, p), it2, ds)
<1>1. PICK d : d = it.towards
  OBVIOUS
<1>2. PICK q \in 1 .. Len(s) : Way(s, d)[q] = s[p] /\ Way(Removed(s, p), d) = Removed(Way(s, d), q)
  BY WayRemoved
<1>3. PICK w : w = Way(s, d)
  OBVIOUS
<1>4. w \in Seq(Node) /\ OneTime(w) /\ q \in 1 .. Len(w) /\ Comes(w, ds, it.next, 0)
  BY <1>1, <1>3, WayIs DEF Coming
<1>5. s[p] \in Node /\ s[p] # 0
  BY NodeIs, AtIs
<1>6. w[q] # it.next /\ ~In(w[q], ds)
  BY <1>2, <1>3, <1>5 DEF Coming
<1>7. Comes(Removed(w, q), ds, it.next, 0)
  BY <1>4, <1>6, ComesRemoved
<1>8. it2.next = it.next /\ it2.towards = d /\ it2.current = 0
  BY <1>1 DEF IterType
<1>9. QED BY <1>2, <1>3, <1>7, <1>8 DEF Coming

LEMMA IterQuiet ==
  ASSUME AIterInv, Orig' = Orig \/ iter.towards = "none", due' = due,
         iter' = iter \/ iter' = [iter EXCEPT !.current = 0]
  PROVE  AIterInv'
<1>1. PICK it : it = iter'
  OBVIOUS
<1>2. it \in IterType /\ it.next = iter.next /\ it.towards = iter.towards
      /\ (it.current # 0 => it.current = iter.current)
  BY <1>1, NodeIs DEF AIterInv, IterType
<1>3. ASSUME it.towards # "none"
      PROVE  Coming(Orig', it, due')
  BY <1>2, <1>3 DEF AIterInv, Coming
<1>4. QED BY <1>1, <1>2, <1>3 DEF AIterInv

LEMMA IterAdded ==
  ASSUME AListInv, AIterInv, NEW l \in AList!Lists, NEW x, NEW p, NEW v, AddedAt(l, p, x, v),
         UNCHANGED <<iter, due>>
  PROVE  AIterInv'
<1>1. CASE l # "orig"
  <2>1. Orig' = Orig
    BY <1>1 DEF AddedAt, Becomes, Orig, AList!Lists
  <2>2. QED BY <2>1, IterQuiet
<1>2. CASE l = "orig"
  <2>1. x \in Node /\ p \in 1 .. Len(Orig) + 1 /\ Orig' = Inserted(Orig, p, x)
    BY <1>2 DEF AddedAt, Becomes, Orig
  <2>2. CASE iter.towards = "none"
    BY <2>2, IterQuiet
  <2>3. CASE iter.towards # "none"
    <3>1. Coming(Orig, iter, due) /\ iter \in IterType /\ due \in Seq(Node) /\ Orig \in Seq(Node)
      BY <2>3, OrigIs DEF AIterInv
    <3>2. Coming(Inserted(Orig, p, x), iter, due)
      BY <2>1, <3>1, ComingInserted
    <3>3. QED BY <2>1, <3>1, <3>2 DEF AIterInv
  <2>4. QED BY <2>2, <2>3
<1>3. QED BY <1>1, <1>2

LEMMA IterDeleted ==
  ASSUME AListInv, AIterInv, NEW l \in AList!Lists, NEW x, AList!DelNode(l, x)
  PROVE  AIterInv'
<1>1. PICK p : AList!Nodes(l)[p] = x /\ RemovedAt(l, p)
  BY DelKeeps
<1>2. due' = due /\ iter' = (IF iter.current = x THEN [iter EXCEPT !.current = 0] ELSE iter)
  BY NodeIs DEF AList!DelNode
<1>3. CASE l # "orig" \/ iter.towards = "none"
  <2>1. l # "orig" => Orig' = Orig
    BY <1>1 DEF RemovedAt, Becomes, Orig, AList!Lists
  <2>2. QED BY <1>2, <1>3, <2>1, IterQuiet
<1>4. CASE l = "orig" /\ iter.towards # "none"
  <2>1. p \in 1 .. Len(Orig) /\ Orig' = Removed(Orig, p) /\ Orig[p] = x
    BY <1>1, <1>4 DEF RemovedAt, Becomes, Orig
  <2>2. x = iter.current
    BY <1>4 DEF AList!DelNode, AList!MayRemove, AList!Iterating
  <2>3. PICK it : it = [iter EXCEPT !.current = 0]
    OBVIOUS
  <2>4. iter' = it /\ Coming(Orig, iter, due) /\ iter \in IterType /\ due \in Seq(Node)
        /\ Orig \in Seq(Node) /\ OneTime(Orig)
    BY <1>2, <1>4, <2>2, <2>3, OrigIs DEF AIterInv
  <2>5. Coming(Removed(Orig, p), it, due)
    BY <2>1, <2>2, <2>3, <2>4, ComingRemoved
  <2>6. it \in IterType
    BY <2>3, <2>4, NodeIs DEF IterType
  <2>7. QED BY <1>2, <2>1, <2>4, <2>5, <2>6 DEF AIterInv
<1>5. QED BY <1>3, <1>4

LEMMA IterCalls ==
  ASSUME AListInv, AIterInv, NEW l \in AList!Lists, AList!ListCall(l)
  PROVE  AIterInv'
<1>1. CASE AList!ListCreate(l)
  <2>1. Orig' = Orig
    BY <1>1, CreateKeeps DEF SameLists, Orig, AList!Lists
  <2>2. UNCHANGED <<iter, due>>
    BY <1>1 DEF AList!ListCreate
  <2>3. QED BY <2>1, <2>2, IterQuiet
<1>2. CASE AList!ListRelease(l)
  <2>1. l # "orig" => Orig' = Orig
    BY <1>2, ReleaseKeeps DEF Becomes, Orig, AList!Lists
  <2>2. UNCHANGED <<iter, due>> /\ (l = "orig" => iter.towards = "none")
    BY <1>2 DEF AList!ListRelease, AList!Iterating
  <2>3. QED BY <2>1, <2>2, IterQuiet
<1>3. CASE AList!ListRotate(l)
  <2>1. l # "orig" => Orig' = Orig
    BY <1>3, RotateKeeps DEF Becomes, Orig, AList!Lists
  <2>2. UNCHANGED <<iter, due>> /\ (l = "orig" => iter.towards = "none")
    BY <1>3 DEF AList!ListRotate, AList!Iterating
  <2>3. QED BY <2>1, <2>2, IterQuiet
<1>4. ASSUME NEW v \in Value, AList!AddNodeHead(l, v) \/ AList!AddNodeTail(l, v)
      PROVE  AIterInv'
  <2>1. \E x \in Node : AddedAt(l, 1, x, v) \/ AddedAt(l, Len(AList!Nodes(l)) + 1, x, v)
    BY <1>4, AddHeadKeeps, AddTailKeeps
  <2>2. UNCHANGED <<iter, due>>
    BY <1>4 DEF AList!AddNodeHead, AList!AddNodeTail
  <2>3. QED BY <2>1, <2>2, IterAdded
<1>5. ASSUME NEW x, AList!DelNode(l, x)
      PROVE  AIterInv'
  BY <1>5, IterDeleted
<1>6. ASSUME NEW x, NEW v \in Value, NEW after \in BOOLEAN, AList!InsertNode(l, x, v, after)
      PROVE  AIterInv'
  <2>1. \E y \in Node : \E p : AddedAt(l, p, y, v)
    BY <1>6, InsertKeeps
  <2>2. UNCHANGED <<iter, due>>
    BY <1>6 DEF AList!InsertNode
  <2>3. QED BY <2>1, <2>2, IterAdded
<1>7. QED BY <1>1, <1>2, <1>3, <1>4, <1>5, <1>6 DEF AList!ListCall

LEMMA IterBegins ==
  ASSUME AListInv, AIterInv, NEW d \in {"next", "prev"}, AList!GetIterator(d)
  PROVE  AIterInv'
<1>1. PICK s : s = Orig
  OBVIOUS
<1>2. s \in Seq(Node) /\ Len(s) \in Nat /\ OneTime(s) /\ Chain(node, s) /\ Header(hdr["orig"], s)
  BY <1>1, OrigIs
<1>3. PICK first : first = IF d = "next" THEN hdr["orig"].head ELSE hdr["orig"].tail
  OBVIOUS
<1>4. PICK w : w = Way(s, d)
  OBVIOUS
<1>5. /\ w \in Seq(Node) /\ Len(w) = Len(s)
      /\ UNCHANGED <<made, hdr, node, used>>
  BY <1>2, <1>4, WayIs DEF AList!GetIterator
<1>6. first = Place(0, w, 1)
  <2>1. CASE d = "next"
    BY <1>2, <1>3, <1>4, <2>1 DEF Way, Header, At, Place
  <2>2. CASE d = "prev"
    <3>1. w = Backwards(s) /\ first = At(s, Len(s))
      BY <1>2, <1>3, <1>4, <2>2 DEF Way, Header
    <3>2. 1 \in 1 .. Len(s) => w[1] = s[(Len(s) - 1) + 1]
      BY <1>2, <3>1, BackwardsIs
    <3>3. /\ (Len(s) - 1) + 1 = Len(s)
          /\ 1 \in 1 .. Len(w) <=> Len(s) \in 1 .. Len(s)
          /\ 1 \in 1 .. Len(w) <=> 1 \in 1 .. Len(s)
      BY <1>2, <1>5
    <3>4. QED BY <3>1, <3>2, <3>3 DEF At, Place
  <2>3. QED BY <2>1, <2>2
<1>7. due' = w
  <2>1. due' = IF d = "next" THEN s ELSE AList!Reverse(s)
    BY <1>1 DEF AList!GetIterator, Orig
  <2>2. AList!Reverse(s) = Backwards(s)
    BY DEF AList!Reverse, Backwards
  <2>3. QED BY <1>4, <2>1, <2>2 DEF Way
<1>8. PICK it : it = iter'
  OBVIOUS
<1>9. it = [next |-> first, towards |-> d, current |-> 0]
  BY <1>3, <1>8, NodeIs DEF AList!GetIterator
<1>10. Place(0, w, 1) \in Pointer
  BY <1>5, NodeIs DEF Place
<1>11. it \in IterType /\ it.next = first /\ it.towards = d /\ it.current = 0
  BY <1>6, <1>9, <1>10, NodeIs DEF IterType
<1>12. Comes(w, w, first, 0)
  BY <1>5, <1>6, ComesFirst
<1>13. Coming(s, it, w)
  BY <1>4, <1>11, <1>12 DEF Coming
<1>14. Orig' = s
  BY <1>1, <1>5, AListStays DEF SameLists, Orig, AList!Lists
<1>15. QED BY <1>5, <1>7, <1>8, <1>11, <1>13, <1>14 DEF AIterInv

LEMMA IterGoesOn ==
  ASSUME AListInv, AIterInv, AList!ListNext
  PROVE  AIterInv'
<1>1. PICK s : s = Orig
  OBVIOUS
<1>2. PICK d \in {"next", "prev"} : d = iter.towards
  BY DEF AIterInv, IterType, AList!ListNext, AList!Iterating
<1>3. /\ s \in Seq(Node) /\ Len(s) \in Nat /\ OneTime(s) /\ Chain(node, s)
      /\ iter \in IterType /\ due \in Seq(Node)
      /\ UNCHANGED <<made, hdr, node, used>>
  BY <1>1, OrigIs DEF AIterInv, AList!ListNext
<1>4. PICK w : w = Way(s, d)
  OBVIOUS
<1>5. w \in Seq(Node) /\ Len(w) = Len(s) /\ OneTime(w)
  BY <1>3, <1>4, WayIs
<1>6. PICK x : x = iter.next
  OBVIOUS
<1>7. x # 0 /\ Comes(w, due, x, 0)
  BY <1>1, <1>2, <1>4, <1>6, NodeIs DEF AIterInv, Coming, AList!ListNext
<1>8. PICK p \in 1 .. Len(w) :
        /\ x = w[p] /\ Comes(w, Rest(due, x), Place(0, w, p + 1), 0)
        /\ x # Place(0, w, p + 1) /\ ~In(x, Rest(due, x)) /\ Rest(due, x) \in Seq(Node)
  BY <1>3, <1>5, <1>7, NodeIs, ComesNext
<1>9. node[x][d] = Place(0, w, p + 1)
  BY <1>3, <1>4, <1>5, <1>8, WayLeads
<1>10. PICK it : it = iter'
  OBVIOUS
<1>11. it = [iter EXCEPT !.next = node[x][d], !.current = x] /\ due' = Rest(due, x)
  BY <1>2, <1>6, <1>10 DEF AList!ListNext, AList!Ahead, Rest
<1>12. Place(0, w, p + 1) \in Pointer /\ x \in Pointer
  BY <1>5, <1>8, NodeIs DEF Place
<1>13. /\ it \in IterType /\ it.next = Place(0, w, p + 1) /\ it.towards = d
       /\ it.current = x
  BY <1>2, <1>3, <1>9, <1>11, <1>12 DEF IterType
<1>14. Coming(s, it, Rest(due, x))
  BY <1>4, <1>8, <1>13 DEF Coming
<1>15. Orig' = s
  BY <1>1, <1>3, AListStays DEF SameLists, Orig, AList!Lists
<1>16. QED BY <1>8, <1>10, <1>11, <1>13, <1>14, <1>15 DEF AIterInv

LEMMA IterKeeps ==
  ASSUME AListInv, AIterInv, AList!ANext
  PROVE  AIterInv'
<1>1. CASE AList!ListDup
  <2>1. UNCHANGED <<iter, due>> /\ iter.towards = "none"
    BY <1>1 DEF AList!ListDup, AList!Iterating
  <2>2. QED BY <2>1, IterQuiet
<1>2. CASE AList!ReleaseIterator
  <2>1. iter' = [next |-> 0, towards |-> "none", current |-> 0] /\ due' = <<>>
    BY <1>2, NodeIs DEF AList!ReleaseIterator, AList!NoIter
  <2>2. iter' \in IterType /\ iter'.towards = "none"
    BY <2>1, NodeIs DEF IterType
  <2>3. QED BY <2>1, <2>2 DEF AIterInv
<1>3. QED BY <1>1, <1>2, IterCalls, IterBegins, IterGoesOn DEF AList!ANext, AList!Iteration

LEMMA NoMoreNodes ==
  ASSUME NEW s \in Seq(Node), OneTime(s)
  PROVE  Len(s) <= MaxNodes
<1>1. PICK k : k = Len(s)
  OBVIOUS
<1>2. k \in Nat /\ s \in [1 .. k -> 1 .. MaxNodes] /\ MaxNodes \in Nat
  BY <1>1, NodeIs
<1>3. s \in Injection(1 .. k, 1 .. MaxNodes)
  BY <1>1, <1>2 DEF OneTime, Injection, IsInjective
<1>4. /\ IsFiniteSet(1 .. MaxNodes) /\ Cardinality(1 .. MaxNodes) = MaxNodes
      /\ IsFiniteSet(1 .. k) /\ Cardinality(1 .. k) = k
  BY <1>2, FS_Interval
<1>5. Cardinality(1 .. k) <= Cardinality(1 .. MaxNodes)
  BY <1>3, <1>4, FS_Injection
<1>6. QED BY <1>1, <1>4, <1>5

\* As LiesIn says it.
Lies(s, t) ==
  \E place \in [DOMAIN s -> DOMAIN t] :
    \A j \in DOMAIN s : /\ t[place[j]] = s[j]
                        /\ \A e \in DOMAIN s : j < e => place[j] < place[e]

\* What comes along a sequence lies in any walk that is long enough.
LEMMA LiesAhead ==
  ASSUME NEW T, NEW w \in Seq(T), NEW ds \in Seq(T), NEW p \in 1 .. Len(w) + 1, NEW f,
         Ahead(w, ds, p, f), NEW k \in Nat, Len(w) < p + k, NEW walk, NEW end,
         Steps(walk, w, p, k, end)
  PROVE  Lies(ds, walk)
<1>1. /\ Len(w) \in Nat /\ Len(ds) \in Nat /\ DOMAIN ds = 1 .. Len(ds)
      /\ \A j \in 1 .. Len(ds) : f[j] \in p .. Len(w) /\ f[j] \in 1 .. Len(w) /\ w[f[j]] = ds[j]
      /\ \A j, e \in 1 .. Len(ds) : j < e => f[j] < f[e]
  BY AheadIs
<1>2. PICK g : g = [j \in 1 .. Len(ds) |-> (f[j] - p) + 1]
  OBVIOUS
<1>3. ASSUME NEW j \in 1 .. Len(ds)
      PROVE  g[j] \in 1 .. k /\ walk[g[j]] = ds[j]
  <2>1. f[j] \in p .. Len(w) /\ f[j] \in 1 .. Len(w) /\ w[f[j]] = ds[j] /\ g[j] = (f[j] - p) + 1
    BY <1>1, <1>2
  <2>2. PICK e : e = f[j]
    OBVIOUS
  <2>3. e \in Int /\ e >= p /\ e <= Len(w) /\ p \in Int /\ p >= 1 /\ g[j] = (e - p) + 1
    BY <1>1, <2>1, <2>2
  <2>4. g[j] \in 1 .. k /\ (p + g[j]) - 1 = e
    BY <1>1, <2>3
  <2>5. walk[g[j]] = Place(end, w, e)
    BY <2>4 DEF Steps
  <2>6. QED BY <2>1, <2>2, <2>4, <2>5 DEF Place
<1>4. ASSUME NEW j \in 1 .. Len(ds), NEW e \in 1 .. Len(ds), j < e
      PROVE  g[j] < g[e]
  <2>1. f[j] < f[e] /\ f[j] \in 1 .. Len(w) /\ f[e] \in 1 .. Len(w)
    BY <1>1, <1>4
  <2>2. QED BY <1>1, <1>2, <2>1
<1>5. g \in [1 .. Len(ds) -> 1 .. k]
  BY <1>2, <1>3
<1>6. DOMAIN walk = 1 .. k
  BY DEF Steps
<1>7. QED BY <1>1, <1>3, <1>4, <1>5, <1>6 DEF Lies

LEMMA IterSafe ==
  ASSUME AListInv, AIterInv
  PROVE  AList!IteratesAll
<1>1. SUFFICES ASSUME iter.towards # "none"
               PROVE  /\ AList!LiesIn(due, AList!Walk(iter.next, iter.towards, MaxNodes))
                      /\ iter.next # 0 => AList!Within(iter.next, "orig")
  BY NodeIs DEF AList!IteratesAll, AList!Iterating
<1>2. PICK s : s = Orig
  OBVIOUS
<1>3. PICK d \in {"next", "prev"} : d = iter.towards
  BY <1>1 DEF AIterInv, IterType
<1>4. /\ s \in Seq(Node) /\ Len(s) \in Nat /\ OneTime(s) /\ Chain(node, s)
      /\ due \in Seq(Node) /\ \A y : AList!Within(y, "orig") <=> In(y, s)
  BY <1>2, OrigIs DEF AIterInv
<1>5. PICK w : w = Way(s, d)
  OBVIOUS
<1>6. w \in Seq(Node) /\ Len(w) = Len(s) /\ \A y : In(y, w) <=> In(y, s)
  BY <1>4, <1>5, WayIs
<1>7. Comes(w, due, iter.next, 0)
  BY <1>1, <1>2, <1>3, <1>5 DEF AIterInv, Coming
<1>8. PICK p \in 1 .. Len(w) + 1 : iter.next = Place(0, w, p) /\ \E f : Ahead(w, due, p, f)
  BY <1>7 DEF Comes
<1>9. PICK f : Ahead(w, due, p, f)
  BY <1>8
<1>10. PICK walk : walk = AList!Walk(iter.next, iter.towards, MaxNodes)
  OBVIOUS
<1>11. Len(w) <= MaxNodes /\ MaxNodes \in Nat
  BY <1>4, <1>6, NoMoreNodes, NodeIs
<1>12. Steps(walk, w, p, MaxNodes, 0)
  <2>1. p \in 1 .. Len(s) + 1 /\ walk = AList!Walk(Place(0, Way(s, d), p), d, MaxNodes)
    BY <1>3, <1>5, <1>6, <1>8, <1>10
  <2>2. QED BY <1>4, <1>5, <1>11, <2>1, WalkOn
<1>14. Lies(due, walk)
  <2>1. Len(w) \in Nat /\ Len(w) < p + MaxNodes
    BY <1>6, <1>11
  <2>2. QED BY <1>4, <1>6, <1>9, <1>11, <1>12, <2>1, LiesAhead
<1>15. AList!LiesIn(due, walk)
  BY <1>14 DEF Lies, AList!LiesIn
<1>16. iter.next # 0 => In(iter.next, w)
  BY <1>6, <1>8 DEF Place, In
<1>17. QED BY <1>4, <1>6, <1>10, <1>15, <1>16

LEMMA IterStart ==
  ASSUME AList!AInit
  PROVE  AIterInv
<1>1. iter = [next |-> 0, towards |-> "none", current |-> 0] /\ due = <<>>
  BY NodeIs DEF AList!AInit, AList!NoIter
<1>2. iter \in IterType /\ iter.towards = "none"
  BY <1>1, NodeIs DEF IterType
<1>3. QED BY <1>1, <1>2 DEF AIterInv

----------------------------------------------------------------------------
(* Going over a ring: n comes along what lies on the head, and pos is       *)
(* behind it.                                                               *)

Going(s, h, x, y, ds) == Comes(s, ds, y, h) /\ x # y /\ ~In(x, ds)
RIterInv ==
  /\ left \in Seq(Entries)
  /\ over # Nil => over \in Heads \ spliced /\ Going(Lying[over], over, pos, n, left)

LEMMA LyingIs ==
  ASSUME RingInv
  PROVE  /\ Lying \in [Heads -> Seq(Entries)] /\ Stand(next, prev, spliced, Lying)
         /\ \A h \in Heads : OneTime(Lying[h]) /\ List!On(h) = Lying[h]
<1>1. PICK s \in [Heads -> Seq(Entries)] : Stand(next, prev, spliced, s)
  BY DEF RingInv
<1>2. Lying = s
  BY <1>1, LyingThen DEF LyingAre
<1>3. QED BY <1>1, <1>2, OnIs DEF Stand

LEMMA GoingPuts ==
  ASSUME NEW was \in [Heads -> Seq(Entries)], NEW is, NEW g, NEW k, NEW p \in Entries,
         Puts(was, is, g, k, p), NEW h \in Heads, NEW x, NEW y, NEW ds \in Seq(Entries),
         Going(was[h], h, x, y, ds)
  PROVE  Going(is[h], h, x, y, ds)
<1>1. CASE g # h
  BY <1>1 DEF Puts, IsWith
<1>2. CASE g = h
  <2>1. PICK s : s = was[h]
    OBVIOUS
  <2>2. s \in Seq(Entries) /\ k \in 1 .. Len(s) + 1 /\ is[h] = Inserted(s, k, p) /\ Comes(s, ds, y, h)
    BY <1>2, <2>1 DEF Puts, IsWith, Going
  <2>3. Comes(Inserted(s, k, p), ds, y, h)
    BY <2>2, ComesInserted
  <2>4. QED BY <2>2, <2>3 DEF Going
<1>3. QED BY <1>1, <1>2

LEMMA GoingTakes ==
  ASSUME NEW was \in [Heads -> Seq(Entries)], NEW is, NEW g, NEW k, Takes(was, is, g, k),
         NEW h \in Heads, OneTime(was[h]), NEW x, NEW y, NEW ds \in Seq(Entries),
         Going(was[h], h, x, y, ds), g = h => was[g][k] = x
  PROVE  Going(is[h], h, x, y, ds)
<1>1. CASE g # h
  BY <1>1 DEF Takes, IsWith
<1>2. CASE g = h
  <2>1. PICK s : s = was[h]
    OBVIOUS
  <2>2. /\ s \in Seq(Entries) /\ OneTime(s) /\ k \in 1 .. Len(s) /\ is[h] = Removed(s, k)
        /\ Comes(s, ds, y, h) /\ s[k] = x
    BY <1>2, <2>1 DEF Takes, IsWith, Going
  <2>3. s[k] # y /\ ~In(s[k], ds)
    BY <2>2 DEF Going
  <2>4. Comes(Removed(s, k), ds, y, h)
    BY <2>2, <2>3, ComesRemoved
  <2>5. QED BY <2>2, <2>4 DEF Going
<1>3. QED BY <1>1, <1>2

\* What the caller's rule about taking out means.
LEMMA OnlyPos ==
  ASSUME RingInv, NEW p, List!MayDel(p), NEW is, NEW g, NEW k, Takes(Lying, is, g, k),
         Lying[g][k] = p, over # Nil, over \in Heads
  PROVE  g = over => Lying[g][k] = pos
<1>1. SUFFICES ASSUME g = over PROVE p = pos
  OBVIOUS
<1>2. PICK s : s = Lying[over]
  OBVIOUS
<1>3. s \in Seq(Entries) /\ List!On(over) = s /\ In(p, s)
  BY <1>1, <1>2, LyingIs DEF Takes, In
<1>4. List!Contains(List!On(over), p)
  BY <1>3, ListContains
<1>5. QED BY <1>4 DEF List!MayDel

\* A call that leaves the loop alone.
LoopStays == UNCHANGED <<pos, n, over, left>>

LEMMA LoopPuts ==
  ASSUME RingInv, RIterInv, LoopStays, spliced' = spliced, NEW p \in Entries,
         NEW g, NEW k, Puts(Lying, Lying', g, k, p)
  PROVE  RIterInv'
<1>1. ASSUME over # Nil
      PROVE  over \in Heads \ spliced /\ Going(Lying'[over], over, pos, n, left)
  <2>1. over \in Heads \ spliced /\ Going(Lying[over], over, pos, n, left) /\ left \in Seq(Entries)
    BY <1>1 DEF RIterInv
  <2>2. QED BY <2>1, LyingIs, GoingPuts
<1>2. QED BY <1>1 DEF RIterInv, LoopStays

LEMMA LoopTakes ==
  ASSUME RingInv, RIterInv, LoopStays, spliced' = spliced, NEW p, List!MayDel(p),
         NEW g, NEW k, Takes(Lying, Lying', g, k), Lying[g][k] = p
  PROVE  RIterInv'
<1>1. ASSUME over # Nil
      PROVE  over \in Heads \ spliced /\ Going(Lying'[over], over, pos, n, left)
  <2>1. over \in Heads \ spliced /\ Going(Lying[over], over, pos, n, left) /\ left \in Seq(Entries)
    BY <1>1 DEF RIterInv
  <2>2. g = over => Lying[g][k] = pos
    BY <1>1, <2>1, OnlyPos
  <2>3. QED BY <2>1, <2>2, LyingIs, GoingTakes
<1>2. QED BY <1>1 DEF RIterInv, LoopStays

LEMMA LoopMoves ==
  ASSUME RingInv, RIterInv, LoopStays, spliced' = spliced, NEW p \in Entries, List!MayDel(p),
         NEW h, NEW first, Moved(p, h, first)
  PROVE  RIterInv'
<1>1. ASSUME over # Nil
      PROVE  over \in Heads \ spliced /\ Going(Lying'[over], over, pos, n, left)
  <2>1. over \in Heads \ spliced /\ Going(Lying[over], over, pos, n, left) /\ left \in Seq(Entries)
    BY <1>1 DEF RIterInv
  <2>2. PICK g, k, u, e :
          Takes(Lying, u, g, k) /\ Lying[g][k] = p /\ Puts(u, Lying', h, e, p)
    BY DEF Moved
  <2>3. g = over => Lying[g][k] = pos
    BY <1>1, <2>1, <2>2, OnlyPos
  <2>4. Going(u[over], over, pos, n, left)
    BY <2>1, <2>2, <2>3, LyingIs, GoingTakes
  <2>5. u \in [Heads -> Seq(Entries)]
    BY <2>2 DEF Takes, IsWith
  <2>6. Going(Lying'[over], over, pos, n, left)
    BY <2>1, <2>2, <2>4, <2>5, GoingPuts
  <2>7. QED BY <2>1, <2>6
<1>2. QED BY <1>1 DEF RIterInv, LoopStays

\* A call about other heads.
LEMMA LoopElsewhere ==
  ASSUME RIterInv, LoopStays,
         over # Nil => (over \in spliced' => over \in spliced) /\ Lying'[over] = Lying[over]
  PROVE  RIterInv'
BY DEF RIterInv, LoopStays

LEMMA LoopBegins ==
  ASSUME RingInv, NEW h \in Heads, List!ForEach(h)
  PROVE  RIterInv'
<1>1. PICK s : s = Lying[h]
  OBVIOUS
<1>2. /\ s \in Seq(Entries) /\ Len(s) \in Nat /\ OneTime(s) /\ Circle(next, prev, h, s)
      /\ List!On(h) = s /\ h \notin spliced /\ h \notin Entries
  BY <1>1, LyingIs, LinkIs DEF Stand, Stood, List!ForEach
<1>3. UNCHANGED <<next, prev, spliced>> /\ next[h] # h
  BY DEF List!ForEach
<1>4. \A j \in 0 .. Len(s) : next[Place(h, s, j)] = Place(h, s, j + 1)
  BY <1>2 DEF Circle
<1>5. next[h] = Place(h, s, 1)
  <2>1. 0 \in 0 .. Len(s) /\ 0 \notin 1 .. Len(s) /\ 0 + 1 = 1
    BY <1>2
  <2>2. QED BY <1>4, <2>1 DEF Place
<1>6. 1 \in 1 .. Len(s) /\ next[h] = s[1] /\ s # <<>> /\ Head(s) = s[1]
  BY <1>2, <1>3, <1>5 DEF Place
<1>7. PICK y : y = next[h]
  OBVIOUS
<1>8. Comes(s, s, y, h) /\ y # h
  BY <1>2, <1>3, <1>5, <1>7, ComesFirst
<1>9. PICK p \in 1 .. Len(s) :
        /\ y = s[p] /\ Comes(s, Rest(s, y), Place(h, s, p + 1), h)
        /\ y # Place(h, s, p + 1) /\ ~In(y, Rest(s, y)) /\ Rest(s, y) \in Seq(Entries)
  BY <1>2, <1>8, ComesNext
<1>10. p \in 0 .. Len(s) /\ y = Place(h, s, p)
  BY <1>9 DEF Place
<1>11. next[y] = Place(h, s, p + 1)
  BY <1>4, <1>10
<1>12. over' = h /\ pos' = y /\ n' = Place(h, s, p + 1) /\ left' = Rest(s, y)
  BY <1>2, <1>6, <1>7, <1>11 DEF List!ForEach, List!Fetch, Rest
<1>13. Going(s, h, y, Place(h, s, p + 1), Rest(s, y))
  BY <1>9 DEF Going
<1>14. Lying'[h] = s
  BY <1>1, <1>3, RingStays
<1>15. QED BY <1>2, <1>3, <1>9, <1>12, <1>13, <1>14 DEF RIterInv

LEMMA LoopGoesOn ==
  ASSUME RingInv, RIterInv, List!ForEachNext
  PROVE  RIterInv'
<1>1. PICK h \in Heads : h = over
  BY DEF RIterInv, List!ForEachNext
<1>2. PICK s : s = Lying[h]
  OBVIOUS
<1>3. /\ h \notin spliced /\ Comes(s, left, n, h) /\ left \in Seq(Entries) /\ n # h
      /\ UNCHANGED <<next, prev, spliced, over>>
  BY <1>1, <1>2 DEF RIterInv, Going, List!ForEachNext
<1>4. s \in Seq(Entries) /\ OneTime(s) /\ Circle(next, prev, h, s) /\ h \notin Entries
  BY <1>2, <1>3, LyingIs, LinkIs DEF Stand, Stood
<1>5. PICK p \in 1 .. Len(s) :
        /\ n = s[p] /\ Comes(s, Rest(left, n), Place(h, s, p + 1), h)
        /\ n # Place(h, s, p + 1) /\ ~In(n, Rest(left, n)) /\ Rest(left, n) \in Seq(Entries)
  BY <1>3, <1>4, ComesNext
<1>6. p \in 0 .. Len(s) /\ n = Place(h, s, p)
  BY <1>5 DEF Place
<1>7. next[n] = Place(h, s, p + 1)
  BY <1>4, <1>6 DEF Circle
<1>8. pos' = n /\ n' = Place(h, s, p + 1) /\ left' = Rest(left, n)
  BY <1>7 DEF List!ForEachNext, List!Fetch, Rest
<1>9. Going(s, h, n, Place(h, s, p + 1), Rest(left, n))
  BY <1>5 DEF Going
<1>10. Lying'[h] = s
  BY <1>2, <1>3, RingStays
<1>11. QED BY <1>1, <1>3, <1>5, <1>8, <1>9, <1>10 DEF RIterInv

LEMMA LoopKeeps ==
  ASSUME RingInv, RIterInv, List!RNext
  PROVE  RIterInv'
<1>1. ASSUME NEW p \in Entries, NEW at \in Link \ {p}, List!ListAdd(p, at) \/ List!ListAddTail(p, at)
      PROVE  RIterInv'
  <2>1. /\ ~List!Listed(p) /\ (at \in Heads \ spliced \/ List!Listed(at)) /\ spliced' = spliced
        /\ List!Links(p, at, next[at]) \/ List!Links(p, prev[at], at)
        /\ LoopStays
    BY <1>1 DEF List!ListAdd, List!ListAddTail, List!MayAdd, LoopStays
  <2>2. \E h, k : Puts(Lying, Lying', h, k, p)
    BY <1>1, <2>1, EntryAfter, EntryBefore
  <2>3. QED BY <2>1, <2>2, LoopPuts
<1>2. ASSUME NEW p \in Entries, List!ListDel(p) \/ List!ListDelInit(p)
      PROVE  RIterInv'
  <2>1. /\ List!Listed(p) /\ List!MayDel(p) /\ spliced' = spliced /\ LoopStays
        /\ List!Unlinks(p, Nil) \/ List!Unlinks(p, p)
    BY <1>2 DEF List!ListDel, List!ListDelInit, List!MayDel, LoopStays
  <2>2. p \in Link
    BY LinkIs
  <2>3. \E h, k : Takes(Lying, Lying', h, k) /\ Lying[h][k] = p
    BY <1>2, <2>1, <2>2, EntryOut
  <2>4. QED BY <2>1, <2>3, LoopTakes
<1>3. ASSUME NEW p \in Entries, NEW h \in Heads, List!ListMove(p, h) \/ List!ListMoveTail(p, h)
      PROVE  RIterInv'
  <2>1. List!MayDel(p) /\ spliced' = spliced /\ LoopStays
    BY <1>3 DEF List!ListMove, List!ListMoveTail, LoopStays
  <2>2. PICK first \in BOOLEAN : Moved(p, h, first)
    BY <1>3, MovesKeep
  <2>3. QED BY <2>1, <2>2, LoopMoves
<1>4. ASSUME NEW l \in Heads, NEW h \in Heads, List!ListSplice(l, h) \/ List!ListSpliceInit(l, h)
      PROVE  RIterInv'
  <2>1. over # l /\ over # h /\ LoopStays /\ (spliced' = spliced \/ spliced' = spliced \cup {l})
    BY <1>4 DEF List!ListSplice, List!ListSpliceInit, List!MaySplice, LoopStays
  <2>2. \A g \in Heads \ {l, h} : Lying'[g] = Lying[g]
    BY <1>4, SplicesKeep DEF IsJoined
  <2>3. over # Nil => over \in Heads
    BY DEF RIterInv
  <2>4. QED BY <2>1, <2>2, <2>3, LoopElsewhere
<1>5. ASSUME NEW h \in Heads, List!InitListHead(h) \/ List!FreeList(h)
      PROVE  RIterInv'
  <2>1. over # Nil => over \in Heads \ spliced
    BY DEF RIterInv
  <2>2. (over # Nil => over # h) /\ LoopStays /\ (spliced' = spliced \/ spliced' = spliced \ {h})
    BY <1>5, <2>1 DEF List!InitListHead, List!FreeList, LoopStays
  <2>3. \A g \in Heads : g # h => Lying'[g] = Lying[g]
    BY <1>5, EmptyingKeeps DEF IsWith
  <2>4. QED BY <2>1, <2>2, <2>3, LoopElsewhere
<1>6. CASE List!ForEachEnds
  BY <1>6 DEF List!ForEachEnds, RIterInv
<1>7. QED BY <1>1, <1>2, <1>3, <1>4, <1>5, <1>6, LoopBegins, LoopGoesOn DEF List!RNext, Link

LEMMA LoopSafe ==
  ASSUME RingInv, RIterInv
  PROVE  List!GoesOverAll
<1>1. SUFFICES ASSUME over # Nil
               PROVE  List!LiesIn(left, List!Ring(n, over))
  BY DEF List!GoesOverAll
<1>2. PICK h \in Heads : h = over
  BY <1>1 DEF RIterInv
<1>3. PICK s : s = Lying[h]
  OBVIOUS
<1>4. h \notin spliced /\ Comes(s, left, n, h) /\ left \in Seq(Entries)
  BY <1>1, <1>2, <1>3 DEF RIterInv, Going
<1>5. s \in Seq(Entries) /\ Len(s) \in Nat /\ OneTime(s) /\ Circle(next, prev, h, s)
  BY <1>3, <1>4, LyingIs DEF Stand, Stood
<1>6. PICK p \in 1 .. Len(s) + 1 : n = Place(h, s, p) /\ \E f : Ahead(s, left, p, f)
  BY <1>4 DEF Comes
<1>7. PICK f : Ahead(s, left, p, f)
  BY <1>6
<1>8. PICK k : k = (Len(s) - p) + 1
  OBVIOUS
<1>9. k \in Nat /\ Len(s) < p + k
  BY <1>5, <1>8
<1>10. PICK walk : walk = List!Ring(n, over)
  OBVIOUS
<1>11. walk = [j \in 1 .. k |-> Place(h, s, (p + j) - 1)]
  BY <1>2, <1>5, <1>6, <1>8, <1>10, RingFrom
<1>12. Steps(walk, s, p, k, h)
  BY <1>11 DEF Steps
<1>13. Lies(left, walk)
  BY <1>4, <1>5, <1>7, <1>9, <1>12, LiesAhead
<1>14. QED BY <1>10, <1>13 DEF Lies, List!LiesIn

LEMMA LoopStart ==
  ASSUME List!RInit
  PROVE  RIterInv
BY DEF List!RInit, RIterInv

----------------------------------------------------------------------------
(* The theorems.                                                            *)

CInv ==
  /\ part = "alloc" => AllocInv
  /\ part = "array" => ArrayInv
  /\ part = "alist" => AListInv /\ AIterInv
  /\ part = "list" => RingInv /\ RIterInv

LEMMA CInvStart ==
  ASSUME CInit
  PROVE  CInv
<1>1. AllocInv
  BY DEF CInit, Alloc!Init, AllocInv
<1>2. ArrayInv
  BY ArrayStart DEF CInit
<1>3. AListInv /\ AIterInv
  BY AListStart, IterStart DEF CInit
<1>4. RingInv /\ RIterInv
  BY RingStart, LoopStart DEF CInit
<1>5. QED BY <1>1, <1>2, <1>3, <1>4 DEF CInv

LEMMA CInvStep ==
  ASSUME CInv, [CNext]_cvars
  PROVE  CInv'
<1>1. part' = part
  BY DEF CNext, cvars
<1>2. ASSUME part = "alloc"
      PROVE  AllocInv'
  <2>1. AllocInv
    BY <1>2 DEF CInv
  <2>2. CASE CNext
    <3>1. Alloc!Next
      BY <1>2, <2>2 DEF CNext
    <3>2. QED BY <2>1, <3>1, AllocKeeps
  <2>3. CASE UNCHANGED cvars
    <3>1. UNCHANGED allocVars
      BY <2>3 DEF cvars
    <3>2. Halved' <=> Halved
      BY <3>1 DEF allocVars, Halved, Halves, Less, Pow
    <3>3. Rounds' <=> Rounds
      BY <3>1 DEF allocVars, Rounds, Pow
    <3>4. QED BY <2>1, <3>1, <3>2, <3>3 DEF allocVars, AllocInv, Args
  <2>4. QED BY <2>2, <2>3
<1>3. ASSUME part = "array"
      PROVE  ArrayInv'
  <2>1. ArrayInv
    BY <1>3 DEF CInv
  <2>2. CASE CNext
    <3>1. Array!NNext
      BY <1>3, <2>2 DEF CNext
    <3>2. QED BY <2>1, <3>1, ArrayKeeps
  <2>3. CASE UNCHANGED cvars
    <3>1. UNCHANGED arrayVars
      BY <2>3 DEF cvars
    <3>2. QED BY <2>1, <3>1 DEF arrayVars, ArrayInv, HoldsIn, Array!Arrays, Array!NoArray
  <2>4. QED BY <2>2, <2>3
<1>4. ASSUME part = "alist"
      PROVE  AListInv' /\ AIterInv'
  <2>1. AListInv /\ AIterInv
    BY <1>4 DEF CInv
  <2>2. CASE CNext
    <3>1. AList!ANext
      BY <1>4, <2>2 DEF CNext
    <3>2. QED BY <2>1, <3>1, AListKeeps, IterKeeps
  <2>3. CASE UNCHANGED cvars
    <3>1. UNCHANGED <<made, hdr, node, used>> /\ UNCHANGED <<iter, due>>
      BY <2>3 DEF cvars, alistVars
    <3>2. AListInv' /\ Orig' = Orig
      BY <2>1, <3>1, AListStays DEF SameLists, Orig, AList!Lists
    <3>3. QED BY <2>1, <3>1, <3>2, IterQuiet
  <2>4. QED BY <2>2, <2>3
<1>5. ASSUME part = "list"
      PROVE  RingInv' /\ RIterInv'
  <2>1. RingInv /\ RIterInv
    BY <1>5 DEF CInv
  <2>2. CASE CNext
    <3>1. List!RNext
      BY <1>5, <2>2 DEF CNext
    <3>2. QED BY <2>1, <3>1, RingKeeps, LoopKeeps
  <2>3. CASE UNCHANGED cvars
    <3>1. UNCHANGED <<next, prev, spliced>> /\ LoopStays
      BY <2>3 DEF cvars, listVars, LoopStays
    <3>2. RingInv' /\ Lying' = Lying
      BY <2>1, <3>1, RingStays
    <3>3. QED BY <2>1, <3>1, <3>2, LoopElsewhere
  <2>4. QED BY <2>2, <2>3
<1>6. QED BY <1>1, <1>2, <1>3, <1>4, <1>5 DEF CInv

\* queue_alloc and nc_array.c: there is room for all that is counted, or nothing
\* is held, whatever is asked for and wherever memory runs out.
THEOREM InRoomCorrect == CSpec => []InRoom
<1>1. CInit => CInv
  BY CInvStart
<1>2. CInv /\ [CNext]_cvars => CInv'
  BY CInvStep
<1>3. CInv => InRoom
  BY AllocSafe, ArraySafe DEF CInv, InRoom
<1>4. QED BY <1>1, <1>2, <1>3, PTL DEF CSpec

\* adlist.c and list.h: after any calls the links of every list agree in both
\* directions, its header counts its nodes, and no node is on two lists.
THEOREM LinkedCorrect == CSpec => []Linked
<1>1. CInit => CInv
  BY CInvStart
<1>2. CInv /\ [CNext]_cvars => CInv'
  BY CInvStep
<1>3. CInv => Linked
  BY AListSafe, RingsHold DEF CInv, Linked
<1>4. QED BY <1>1, <1>2, <1>3, PTL DEF CSpec

\* listNext and list_for_each_safe: whatever is added, moved or removed by the
\* rule of its comment, each entry that was found and not come to is ahead, in
\* order, and what comes next is on the list.
THEOREM GoesOverAllCorrect == CSpec => []GoesOverAll
<1>1. CInit => CInv
  BY CInvStart
<1>2. CInv /\ [CNext]_cvars => CInv'
  BY CInvStep
<1>3. CInv => GoesOverAll
  BY IterSafe, LoopSafe DEF CInv, GoesOverAll
<1>4. QED BY <1>1, <1>2, <1>3, PTL DEF CSpec
=============================================================================
