---------------------------- MODULE BigIntProofs ----------------------------
(***************************************************************************)
(* The operations on unlimited integers, for numbers of any length and any *)
(* base: each gives the number arithmetic gives, in normal form, if it has *)
(* room for it, and raises the overflow flag only if it has not.           *)
(***************************************************************************)
EXTENDS BigInt, WellFoundedInduction, SequenceTheorems, TLAPS

-----------------------------------------------------------------------------
(* Induction and recursion over the natural numbers, for a set of numbers  *)
(* and for a step given as a function.                                     *)

(* A set of natural numbers has a smallest one.                            *)
LEMMA LeastElement ==
    ASSUME NEW S, S \subseteq Nat, S # {}
    PROVE  \E x \in S : \A y \in S : x <= y
  <1> DEFINE R == {ss \in Nat \X Nat : ss[1] < ss[2]}
  <1>1. IsWellFoundedOn(R, Nat)
    BY NatLessThanWellFounded DEF OpToRel
  <1>2. PICK x \in S : \A y \in S : ~(<<y, x>> \in R)
    <2> HIDE DEF R
    <2> QED
      BY <1>1, WFMin
  <1>3. \A y \in S : ~(y < x)
    BY <1>2
  <1> QED
    BY <1>3

(* What holds of 0 and, with n, of n + 1, holds of all.                    *)
LEMMA Induction ==
    ASSUME NEW S, 0 \in S, \A n \in Nat : n \in S => n + 1 \in S
    PROVE  \A n \in Nat : n \in S
  <1> SUFFICES ASSUME NEW n \in Nat, n \notin S PROVE FALSE
    OBVIOUS
  <1> DEFINE T == Nat \ S
  <1>1. T \subseteq Nat /\ T # {}
    OBVIOUS
  <1>2. PICK x \in T : \A y \in T : x <= y
    <2> HIDE DEF T
    <2> QED
      BY <1>1, LeastElement
  <1>3. x \in Nat /\ x # 0 /\ x - 1 \in Nat /\ x - 1 + 1 = x
    BY <1>2
  <1>4. x - 1 \notin T
    BY <1>2, <1>3
  <1> QED
    BY <1>2, <1>3, <1>4

(* The same up to m.                                                       *)
LEMMA InductionTo ==
    ASSUME NEW m \in Nat, NEW S, 0 \in S, \A n \in 0 .. m - 1 : n \in S => n + 1 \in S
    PROVE  \A n \in 0 .. m : n \in S
  <1> DEFINE T == {n \in Nat : n <= m => n \in S}
  <1>1. 0 \in T
    OBVIOUS
  <1>2. \A n \in Nat : n \in T => n + 1 \in T
    OBVIOUS
  <1>3. \A n \in Nat : n \in T
    <2> HIDE DEF T
    <2> QED
      BY <1>1, <1>2, Induction
  <1> QED
    BY <1>3

(* f is what the recursion says, up to n or throughout.                    *)
StepTo(step, n, U) == step \in [(1 .. n) \X U -> U]
Step(step, U) == step \in [(Nat \ {0}) \X U -> U]
FollowsAll(f, U, first, step) ==
    /\ f \in [Nat -> U] /\ f[0] = first
    /\ \A k \in Nat \ {0} : f[k] = step[<<k, f[k - 1]>>]
Follows(f, n, U, first, step) ==
    /\ f \in [0 .. n -> U] /\ f[0] = first
    /\ \A k \in 1 .. n : f[k] = step[<<k, f[k - 1]>>]

LEMMA RecursionTo ==
    ASSUME NEW n \in Nat, NEW U, NEW first \in U, NEW step, StepTo(step, n, U)
    PROVE  \E f : Follows(f, n, U, first, step)
  <1> DEFINE S == {m \in 0 .. n : \E f : Follows(f, m, U, first, step)}
  <1>1. 0 \in S
    <2> DEFINE f == [k \in 0 .. 0 |-> first]
    <2>1. f \in [0 .. 0 -> U] /\ f[0] = first /\ 1 .. 0 = {}
      OBVIOUS
    <2>2. Follows(f, 0, U, first, step)
      <3> HIDE DEF f
      <3> QED
        BY <2>1 DEF Follows
    <2> QED
      BY <2>2
  <1>2. ASSUME NEW m \in 0 .. n - 1, m \in S PROVE m + 1 \in S
    <2>1. PICK f : Follows(f, m, U, first, step)
      BY <1>2
    <2> DEFINE v == step[<<m + 1, f[m]>>]
               g == [k \in 0 .. m + 1 |-> IF k = m + 1 THEN v ELSE f[k]]
    <2>2. f \in [0 .. m -> U] /\ f[0] = first /\ \A k \in 1 .. m : f[k] = step[<<k, f[k - 1]>>]
      BY <2>1 DEF Follows
    <2>3. m \in Nat /\ m \in 0 .. m /\ m + 1 \in 1 .. n /\ m + 1 \in 0 .. n
      OBVIOUS
    <2>4. v \in U
      BY <2>2, <2>3 DEF StepTo
    <2> HIDE DEF v
    <2>5. g \in [0 .. m + 1 -> U] /\ g[0] = first /\ g[m + 1] = v
      BY <2>2, <2>3, <2>4
    <2>6. \A k \in 0 .. m : g[k] = f[k]
      BY <2>3
    <2> HIDE DEF g
    <2>7. ASSUME NEW k \in 1 .. m + 1 PROVE g[k] = step[<<k, g[k - 1]>>]
      <3>1. CASE k = m + 1
        BY <2>3, <2>5, <2>6, <3>1 DEF v
      <3>2. CASE k # m + 1
        <4>1. k \in 1 .. m /\ k \in 0 .. m /\ k - 1 \in 0 .. m
          BY <2>3, <3>2
        <4> QED
          BY <2>2, <2>6, <4>1
      <3> QED
        BY <3>1, <3>2
    <2>8. Follows(g, m + 1, U, first, step)
      BY <2>5, <2>7 DEF Follows
    <2> QED
      BY <2>3, <2>8
  <1>3. \A m \in 0 .. n : m \in S
    <2> HIDE DEF S
    <2> QED
      BY <1>1, <1>2, InductionTo
  <1> QED
    BY <1>3

LEMMA FollowsIsOne ==
    ASSUME NEW m \in Nat, NEW n \in Nat, m <= n, NEW U, NEW first, NEW step, NEW f, NEW g,
           Follows(f, m, U, first, step), Follows(g, n, U, first, step)
    PROVE  \A k \in 0 .. m : f[k] = g[k]
  <1> DEFINE S == {k \in 0 .. m : f[k] = g[k]}
  <1>1. 0 \in S
    BY DEF Follows
  <1>2. ASSUME NEW k \in 0 .. m - 1, k \in S PROVE k + 1 \in S
    <2>1. k + 1 \in 1 .. m /\ k + 1 \in 1 .. n /\ (k + 1) - 1 = k /\ k + 1 \in 0 .. m
      OBVIOUS
    <2>2. f[k + 1] = step[<<k + 1, f[k]>>] /\ g[k + 1] = step[<<k + 1, g[k]>>]
      BY <2>1 DEF Follows
    <2> QED
      BY <1>2, <2>1, <2>2
  <1> HIDE DEF S
  <1>3. \A k \in 0 .. m : k \in S
    BY <1>1, <1>2, InductionTo
  <1> QED
    BY <1>3 DEF S

LEMMA Recursion ==
    ASSUME NEW U, NEW first \in U, NEW step, Step(step, U)
    PROVE  \E f : FollowsAll(f, U, first, step)
  <1> DEFINE F(n) == CHOOSE f : Follows(f, n, U, first, step)
             g == [n \in Nat |-> F(n)[n]]
  <1>1. ASSUME NEW n \in Nat PROVE Follows(F(n), n, U, first, step)
    <2> DEFINE at == [ks \in (1 .. n) \X U |-> step[ks]]
    <2>1. StepTo(at, n, U)
      <3>1. \A ks \in (1 .. n) \X U : ks \in (Nat \ {0}) \X U
        OBVIOUS
      <3> QED
        BY <3>1 DEF Step, StepTo
    <2>2. \A ks \in (1 .. n) \X U : at[ks] = step[ks]
      OBVIOUS
    <2> HIDE DEF at
    <2>3. PICK f : Follows(f, n, U, first, at)
      BY <2>1, RecursionTo
    <2>4. /\ f \in [0 .. n -> U] /\ f[0] = first
          /\ \A k \in 1 .. n : f[k] = at[<<k, f[k - 1]>>] /\ k - 1 \in 0 .. n
      BY <2>3 DEF Follows
    <2>5. \A k \in 1 .. n : f[k] = step[<<k, f[k - 1]>>]
      BY <2>2, <2>4
    <2>6. Follows(f, n, U, first, step)
      BY <2>4, <2>5 DEF Follows
    <2> QED
      BY <2>6
  <1> HIDE DEF F
  <1>2. g[0] = first
    BY <1>1 DEF Follows
  <1>3. g \in [Nat -> U]
    <2>1. \A n \in Nat : F(n) \in [0 .. n -> U] /\ n \in 0 .. n
      BY <1>1 DEF Follows
    <2> QED
      BY <2>1
  <1>4. ASSUME NEW k \in Nat \ {0} PROVE g[k] = step[<<k, g[k - 1]>>]
    <2>1. k - 1 \in Nat /\ k - 1 <= k /\ k - 1 \in 0 .. k - 1 /\ k \in 1 .. k
      OBVIOUS
    <2>2. PICK p \in Nat : p = k - 1
      BY <2>1
    <2>3. F(p)[p] = F(k)[p]
      <3>1. Follows(F(p), p, U, first, step) /\ Follows(F(k), k, U, first, step)
        BY <1>1
      <3>2. p <= k /\ p \in 0 .. p /\ k \in Nat
        BY <2>1, <2>2
      <3> QED
        BY <3>1, <3>2, FollowsIsOne
    <2>4. F(k)[k] = step[<<k, F(k)[p]>>]
      BY <1>1, <2>1, <2>2 DEF Follows
    <2> QED
      BY <2>2, <2>3, <2>4
  <1> QED
    BY <1>2, <1>3, <1>4 DEF FollowsAll

-----------------------------------------------------------------------------
(* Powers.                                                                 *)
LEMMA PowerIs ==
    ASSUME NEW b \in Nat
    PROVE  /\ Power(b, 0) = 1
           /\ \A k \in Nat : Power(b, k) \in Nat /\ Power(b, k + 1) = b * Power(b, k)
  <1> DEFINE step == [ks \in (Nat \ {0}) \X Nat |-> b * ks[2]]
             body(p) == [j \in Nat |-> IF j = 0 THEN 1 ELSE b * p[j - 1]]
  <1>1. Step(step, Nat)
    BY DEF Step
  <1>2. \A k \in Nat \ {0}, x \in Nat : step[<<k, x>>] = b * x
    OBVIOUS
  <1> HIDE DEF step
  <1>3. PICK f : FollowsAll(f, Nat, 1, step)
    <2>1. 1 \in Nat
      OBVIOUS
    <2> QED
      BY <1>1, <2>1, Recursion
  <1>4. f \in [Nat -> Nat] /\ f[0] = 1
    BY <1>3 DEF FollowsAll
  <1>5. f = body(f)
    <2>1. ASSUME NEW k \in Nat \ {0} PROVE f[k] = b * f[k - 1]
      <3>1. k - 1 \in Nat
        OBVIOUS
      <3>2. f[k - 1] \in Nat
        BY <1>4, <3>1
      <3> QED
        BY <1>2, <1>3, <3>2 DEF FollowsAll
    <2> QED
      BY <1>4, <2>1
  <1>6. PICK p : p = CHOOSE q : q = body(q)
    OBVIOUS
  <1>7. p = body(p)
    BY <1>5, <1>6
  <1>8. \A k : Power(b, k) = p[k]
    BY <1>6 DEF Power
  <1>9. p[0] = 1 /\ \A k \in Nat : p[k + 1] = b * p[k]
    <2>1. \A j \in Nat : p[j] = IF j = 0 THEN 1 ELSE b * p[j - 1]
      BY <1>7
    <2>2. \A k \in Nat : k + 1 \in Nat /\ k + 1 # 0 /\ (k + 1) - 1 = k
      OBVIOUS
    <2> HIDE <1>7
    <2> QED
      BY <2>1, <2>2
  <1>10. \A k \in Nat : p[k] \in Nat
    <2> DEFINE S == {k \in Nat : p[k] \in Nat}
    <2>1. 0 \in S /\ \A k \in Nat : k \in S => k + 1 \in S
      BY <1>9
    <2> HIDE DEF S
    <2>2. \A k \in Nat : k \in S
      BY <2>1, Induction
    <2> QED
      BY <2>2 DEF S
  <1> QED
    BY <1>8, <1>9, <1>10

LEMMA PowerPositive ==
    ASSUME NEW b \in Nat, b > 0, NEW k \in Nat
    PROVE  Power(b, k) \in Nat /\ Power(b, k) > 0
  <1> DEFINE S == {j \in Nat : Power(b, j) > 0}
  <1>1. 0 \in S
    BY PowerIs
  <1>2. ASSUME NEW j \in Nat, j \in S PROVE j + 1 \in S
    <2>1. PICK x \in Nat : x = Power(b, j)
      BY PowerIs
    <2>2. Power(b, j + 1) = b * x /\ x > 0
      BY <1>2, <2>1, PowerIs
    <2> QED
      BY <2>2
  <1> HIDE DEF S
  <1>3. k \in S
    BY <1>1, <1>2, Induction
  <1> QED
    BY <1>3, PowerIs DEF S

LEMMA PowerAdd ==
    ASSUME NEW b \in Nat, NEW j \in Nat, NEW k \in Nat
    PROVE  Power(b, j + k) = Power(b, j) * Power(b, k)
  <1> DEFINE S == {i \in Nat : Power(b, j + i) = Power(b, j) * Power(b, i)}
  <1>1. 0 \in S
    <2>1. Power(b, 0) = 1 /\ j + 0 = j /\ Power(b, j) \in Nat
      BY PowerIs
    <2> QED
      BY <2>1
  <1>2. ASSUME NEW i \in Nat, i \in S PROVE i + 1 \in S
    <2>1. PICK x \in Nat, y \in Nat : x = Power(b, j) /\ y = Power(b, i)
      BY PowerIs
    <2>2. Power(b, i + 1) = b * y
      BY <2>1, PowerIs
    <2>3. Power(b, j + i + 1) = b * (x * y)
      BY <1>2, <2>1, PowerIs
    <2>4. j + (i + 1) = j + i + 1 /\ b * (x * y) = x * (b * y)
      OBVIOUS
    <2> QED
      BY <2>1, <2>2, <2>3, <2>4
  <1> HIDE DEF S
  <1>3. k \in S
    BY <1>1, <1>2, Induction
  <1> QED
    BY <1>3 DEF S

LEMMA Times == ASSUME NEW x \in Nat, NEW y \in Nat, y > 0 PROVE x <= x * y
  OBVIOUS

LEMMA PowerGrows ==
    ASSUME NEW b \in Nat, b > 0, NEW j \in Nat, NEW k \in Nat
    PROVE  /\ j <= k => Power(b, j) <= Power(b, k)
           /\ j < k => b * Power(b, j) <= Power(b, k)
  <1>1. ASSUME NEW i \in Nat, i <= k PROVE Power(b, i) <= Power(b, k)
    <2>1. k - i \in Nat /\ i + (k - i) = k
      BY <1>1
    <2>2. PICK x \in Nat, y \in Nat : x = Power(b, i) /\ y = Power(b, k - i) /\ y > 0
      BY <2>1, PowerPositive
    <2>3. Power(b, k) = x * y
      BY <2>1, <2>2, PowerAdd
    <2> QED
      BY <2>2, <2>3, Times
  <1>2. ASSUME j < k PROVE b * Power(b, j) <= Power(b, k)
    BY <1>1, <1>2, PowerIs
  <1> QED
    BY <1>1, <1>2

(* The base and its powers.                                                *)
LEMMA BaseIs == Base \in Nat /\ Base > 2 /\ Base % 2 = 0
  BY BigIntAssumption

LEMMA BasePower ==
    ASSUME NEW k \in Nat
    PROVE  /\ Power(Base, k) \in Nat /\ Power(Base, k) > 0
           /\ Power(Base, k + 1) = Base * Power(Base, k)
  BY BaseIs, PowerIs, PowerPositive

LEMMA SmallPowers ==
    /\ Power(Base, 0) = 1 /\ Power(Base, 1) = Base /\ Power(Base, 2) = Base * Base
    /\ Power(Base, 3) = Base * (Base * Base) /\ Power(Base, 4) = (Base * Base) * (Base * Base)
  <1>1. Power(Base, 0) = 1 /\ Base \in Nat
    BY BaseIs, PowerIs
  <1>2. Power(Base, 0 + 1) = Base * 1
    BY <1>1, PowerIs
  <1>3. Power(Base, 1 + 1) = Base * Base
    BY <1>1, <1>2, PowerIs
  <1>4. Power(Base, 2 + 1) = Base * (Base * Base)
    BY <1>1, <1>3, PowerIs
  <1>5. Power(Base, 2 + 2) = (Base * Base) * (Base * Base)
    BY <1>1, <1>3, PowerAdd
  <1> QED
    BY <1>1, <1>2, <1>3, <1>4, <1>5

-----------------------------------------------------------------------------
(* The number that a sequence of half-words is.                            *)
Halves(m) == [1 .. m -> 0 .. Base - 1]

LEMMA AmountIs ==
    ASSUME NEW m \in Nat, NEW h \in Halves(m)
    PROVE  /\ Amount(h)[0] = 0 /\ \A k \in 0 .. m : Amount(h)[k] \in Nat
           /\ \A k \in 0 .. m - 1 : Amount(h)[k + 1] = Amount(h)[k] + h[k + 1] * Power(Base, k)
  <1> DEFINE step == [ks \in (1 .. m) \X Nat |-> ks[2] + h[ks[1]] * Power(Base, ks[1] - 1)]
             body(v) == [k \in 0 .. m |-> IF k = 0 THEN 0 ELSE v[k - 1] + h[k] * Power(Base, k - 1)]
  <1>1. /\ h \in [1 .. m -> 0 .. Base - 1] /\ Base \in Nat
        /\ \A k \in 1 .. m : h[k] \in Nat /\ k - 1 \in Nat /\ Power(Base, k - 1) \in Nat
    <2>1. h \in [1 .. m -> 0 .. Base - 1] /\ Base \in Nat
      BY BaseIs DEF Halves
    <2>2. \A k \in 1 .. m : k - 1 \in Nat
      OBVIOUS
    <2>3. \A k \in 1 .. m : Power(Base, k - 1) \in Nat
      BY <2>1, <2>2, PowerIs
    <2> QED
      BY <2>1, <2>2, <2>3
  <1>2. Len(h) = m
    BY <1>1
  <1>3. \A k \in 1 .. m, x \in Nat :
          /\ step[<<k, x>>] = x + h[k] * Power(Base, k - 1) /\ step[<<k, x>>] \in Nat
    <2> HIDE DEF step
    <2> TAKE k \in 1 .. m, x \in Nat
    <2>1. step[<<k, x>>] = x + h[k] * Power(Base, k - 1)
      BY DEF step
    <2>2. PICK c \in Nat, p \in Nat : c = h[k] /\ p = Power(Base, k - 1)
      BY <1>1
    <2> QED
      BY <2>1, <2>2
  <1>4. StepTo(step, m, Nat)
    <2>1. \A ks \in (1 .. m) \X Nat : ks = <<ks[1], ks[2]>> /\ ks[1] \in 1 .. m /\ ks[2] \in Nat
      OBVIOUS
    <2>2. \A ks \in (1 .. m) \X Nat : step[ks] \in Nat
      <3> HIDE DEF step
      <3> QED
        BY <1>3, <2>1
    <2>3. step = [ks \in (1 .. m) \X Nat |-> step[ks]]
      OBVIOUS
    <2> HIDE DEF step
    <2> QED
      BY <2>2, <2>3 DEF StepTo
  <1> HIDE DEF step
  <1>5. PICK f : Follows(f, m, Nat, 0, step)
    <2>1. 0 \in Nat
      OBVIOUS
    <2> QED
      BY <1>4, <2>1, RecursionTo
  <1>6. f \in [0 .. m -> Nat] /\ f[0] = 0
    BY <1>5 DEF Follows
  <1>7. f = body(f)
    <2>1. ASSUME NEW k \in 1 .. m PROVE f[k] = f[k - 1] + h[k] * Power(Base, k - 1)
      <3>1. k - 1 \in 0 .. m
        OBVIOUS
      <3>2. f[k - 1] \in Nat
        BY <1>6, <3>1
      <3> QED
        BY <1>3, <1>5, <3>2 DEF Follows
    <2>2. \A k \in 0 .. m : k # 0 => k \in 1 .. m
      OBVIOUS
    <2>3. DOMAIN f = 0 .. m /\ \A k \in 0 .. m : f[k] = body(f)[k]
      BY <1>6, <2>1, <2>2
    <2> QED
      BY <1>6, <2>3
  <1>8. PICK v : v = CHOOSE q : q = body(q)
    OBVIOUS
  <1>9. v = body(v)
    BY <1>7, <1>8
  <1>10. Amount(h) = v
    BY <1>2, <1>8 DEF Amount
  <1>11. v[0] = 0 /\ \A k \in 0 .. m - 1 : v[k + 1] = v[k] + h[k + 1] * Power(Base, k)
    <2>1. \A j \in 0 .. m : v[j] = IF j = 0 THEN 0 ELSE v[j - 1] + h[j] * Power(Base, j - 1)
      BY <1>9
    <2>2. \A k \in 0 .. m - 1 : k + 1 \in 0 .. m /\ k + 1 # 0 /\ (k + 1) - 1 = k
      OBVIOUS
    <2>3. 0 \in 0 .. m
      OBVIOUS
    <2> HIDE <1>9
    <2> QED
      BY <2>1, <2>2, <2>3
  <1>12. \A k \in 0 .. m : v[k] \in Nat
    <2> DEFINE S == {k \in 0 .. m : v[k] \in Nat}
    <2>1. 0 \in S
      BY <1>11
    <2>2. ASSUME NEW k \in 0 .. m - 1, k \in S PROVE k + 1 \in S
      <3>1. k + 1 \in 1 .. m /\ (k + 1) - 1 = k /\ k + 1 \in 0 .. m
        OBVIOUS
      <3>2. h[k + 1] \in Nat /\ Power(Base, k) \in Nat /\ v[k] \in Nat
        BY <1>1, <2>2, <3>1
      <3> QED
        BY <1>11, <3>1, <3>2
    <2> HIDE DEF S
    <2>3. \A k \in 0 .. m : k \in S
      BY <2>1, <2>2, InductionTo
    <2> QED
      BY <2>3 DEF S
  <1> QED
    BY <1>10, <1>11, <1>12

LEMMA HalfIs ==
    ASSUME NEW m \in Nat, NEW h \in Halves(m), NEW k \in 1 .. m
    PROVE  h[k] \in Nat /\ h[k] < Base
  BY BaseIs DEF Halves

(* A digit more than the bound is a power more.                            *)
LEMMA OneMore ==
    ASSUME NEW p \in Nat, NEW x \in Nat, NEW y \in Nat, x < y
    PROVE  x * p + p <= y * p
  <1>1. y - x - 1 \in Nat /\ y * p = x * p + p + (y - x - 1) * p
    OBVIOUS
  <1> QED
    BY <1>1

LEMMA AmountBound ==
    ASSUME NEW m \in Nat, NEW h \in Halves(m), NEW k \in 0 .. m
    PROVE  Amount(h)[k] \in Nat /\ Amount(h)[k] < Power(Base, k)
  <1> DEFINE S == {j \in 0 .. m : Amount(h)[j] < Power(Base, j)}
  <1>1. 0 \in S
    BY AmountIs, SmallPowers
  <1>2. ASSUME NEW j \in 0 .. m - 1, j \in S PROVE j + 1 \in S
    <2>1. j \in Nat /\ j + 1 \in 1 .. m /\ j + 1 \in 0 .. m /\ j \in 0 .. m
      OBVIOUS
    <2>2. PICK x \in Nat, p \in Nat, c \in Nat :
            x = Amount(h)[j] /\ p = Power(Base, j) /\ c = h[j + 1] /\ c < Base
      BY <2>1, AmountIs, BasePower, HalfIs
    <2>3. x < p /\ Power(Base, j + 1) = Base * p /\ Amount(h)[j + 1] = x + c * p
      BY <1>2, <2>1, <2>2, AmountIs, BasePower
    <2>4. c * p + p <= Base * p
      BY <2>2, BaseIs, OneMore
    <2>5. x + c * p < Base * p
      BY <2>2, <2>3, <2>4, BaseIs
    <2> QED
      BY <2>1, <2>3, <2>5
  <1> HIDE DEF S
  <1>3. k \in S
    BY <1>1, <1>2, InductionTo
  <1> QED
    BY <1>3, AmountIs DEF S

LEMMA AmountSame ==
    ASSUME NEW m \in Nat, NEW h \in Halves(m), NEW n \in Nat, NEW g \in Halves(n),
           NEW j \in 0 .. m, j <= n, \A k \in 1 .. j : h[k] = g[k]
    PROVE  Amount(h)[j] = Amount(g)[j]
  <1> DEFINE S == {k \in 0 .. j : Amount(h)[k] = Amount(g)[k]}
  <1>1. 0 \in S
    BY AmountIs
  <1>2. ASSUME NEW k \in 0 .. j - 1, k \in S PROVE k + 1 \in S
    <2>1. k \in 0 .. m - 1 /\ k \in 0 .. n - 1 /\ k + 1 \in 1 .. j /\ k + 1 \in 0 .. j
      OBVIOUS
    <2>2. /\ Amount(h)[k + 1] = Amount(h)[k] + h[k + 1] * Power(Base, k)
          /\ Amount(g)[k + 1] = Amount(g)[k] + g[k + 1] * Power(Base, k)
          /\ h[k + 1] = g[k + 1]
      BY <2>1, AmountIs
    <2> QED
      BY <1>2, <2>1, <2>2
  <1> HIDE DEF S
  <1>3. j \in Nat /\ j \in 0 .. j
    OBVIOUS
  <1>4. j \in S
    BY <1>1, <1>2, <1>3, InductionTo
  <1> QED
    BY <1>4 DEF S

LEMMA AmountZeros ==
    ASSUME NEW m \in Nat, NEW h \in Halves(m), NEW j \in 0 .. m, NEW k \in j .. m,
           \A i \in j + 1 .. k : h[i] = 0
    PROVE  Amount(h)[k] = Amount(h)[j]
  <1> DEFINE S == {i \in 0 .. k - j : Amount(h)[j + i] = Amount(h)[j]}
  <1>1. 0 \in S /\ k - j \in Nat
    OBVIOUS
  <1>2. ASSUME NEW i \in 0 .. (k - j) - 1, i \in S PROVE i + 1 \in S
    <2>1. j + i \in 0 .. m - 1 /\ j + i + 1 \in j + 1 .. k /\ i + 1 \in 0 .. k - j
          /\ j + (i + 1) = j + i + 1
      OBVIOUS
    <2>2. /\ Amount(h)[j + i + 1] = Amount(h)[j + i] + h[j + i + 1] * Power(Base, j + i)
          /\ h[j + i + 1] = 0
      BY <2>1, AmountIs
    <2>3. PICK x \in Nat, p \in Nat : x = Amount(h)[j + i] /\ p = Power(Base, j + i)
      BY <2>1, AmountIs, BasePower
    <2>4. Amount(h)[j + i + 1] = x
      BY <2>2, <2>3
    <2> QED
      BY <1>2, <2>1, <2>3, <2>4
  <1> HIDE DEF S
  <1>3. k - j \in S
    BY <1>1, <1>2, InductionTo
  <1>4. j + (k - j) = k
    OBVIOUS
  <1> QED
    BY <1>3, <1>4 DEF S

LEMMA AmountLeast ==
    ASSUME NEW m \in Nat, NEW h \in Halves(m), NEW k \in 1 .. m, h[k] # 0
    PROVE  Power(Base, k - 1) <= Amount(h)[k]
  <1>1. k - 1 \in 0 .. m - 1 /\ k - 1 \in 0 .. m /\ k - 1 \in Nat /\ (k - 1) + 1 = k
    OBVIOUS
  <1>2. PICK x \in Nat, p \in Nat, c \in Nat :
          x = Amount(h)[k - 1] /\ p = Power(Base, k - 1) /\ c = h[k]
    BY <1>1, AmountIs, BasePower, HalfIs
  <1>3. Amount(h)[k] = x + c * p
    BY <1>1, <1>2, AmountIs
  <1>4. p <= p * c
    BY <1>2, Times
  <1> QED
    BY <1>2, <1>3, <1>4

-----------------------------------------------------------------------------
(* Largest and smallest.                                                   *)
LEMMA MaxIs ==
    ASSUME NEW n \in Nat, NEW S, S \subseteq 0 .. n, S # {}
    PROVE  Max(S) \in S /\ \A y \in S : Max(S) >= y
  <1> DEFINE T == {n - x : x \in S}
  <1>1. T \subseteq Nat /\ T # {}
    OBVIOUS
  <1>2. PICK t \in T : \A y \in T : t <= y
    <2> HIDE DEF T
    <2> QED
      BY <1>1, LeastElement
  <1>3. PICK x \in S : t = n - x
    BY <1>2
  <1>4. \A y \in S : n - y \in T /\ y \in Int
    OBVIOUS
  <1>5. \A y \in S : x >= y
    <2> TAKE y \in S
    <2>1. n - x <= n - y /\ x \in Int /\ y \in Int
      BY <1>2, <1>3, <1>4
    <2> HIDE DEF T
    <2> QED
      BY <2>1
  <1>6. \E z \in S : \A y \in S : z >= y
    BY <1>5
  <1> QED
    BY <1>6 DEF Max

LEMMA MinIs ==
    ASSUME NEW S, S \subseteq Nat, S # {}
    PROVE  Min(S) \in S /\ \A y \in S : Min(S) <= y
  BY LeastElement DEF Min

LEMMA MaxOfTwo ==
    ASSUME NEW x \in Int, NEW y \in Int PROVE Max({x, y}) = IF x >= y THEN x ELSE y
  <1>1. \E z \in {x, y} : \A w \in {x, y} : z >= w
    OBVIOUS
  <1>2. Max({x, y}) \in {x, y} /\ Max({x, y}) >= x /\ Max({x, y}) >= y
    BY <1>1 DEF Max
  <1> QED
    BY <1>2

LEMMA MinOfTwo ==
    ASSUME NEW x \in Int, NEW y \in Int PROVE Min({x, y}) = IF x <= y THEN x ELSE y
  <1>1. \E z \in {x, y} : \A w \in {x, y} : z <= w
    OBVIOUS
  <1>2. Min({x, y}) \in {x, y} /\ Min({x, y}) <= x /\ Min({x, y}) <= y
    BY <1>1 DEF Min
  <1> QED
    BY <1>2

-----------------------------------------------------------------------------
(* An Int in memory, and one that is a number in normal form.              *)
Ints(m) == [neg : BOOLEAN, over : BOOLEAN, d : 1 .. m, m : {m}, h : Halves(m)]
Room(m) == m \in Nat /\ m > 1 /\ m % 2 = 0
IntOK(i) == Room(i.m) /\ i \in Ints(i.m)
Number(i) == IntOK(i) /\ Normal(i)

LEMMA IntFacts ==
    ASSUME NEW i, IntOK(i)
    PROVE  /\ i.m \in Nat /\ i.m > 1 /\ i.m % 2 = 0 /\ i.d \in 1 .. i.m /\ i.d \in Nat
           /\ i.h \in Halves(i.m) /\ i.neg \in BOOLEAN /\ i.over \in BOOLEAN
           /\ i.d \in 0 .. i.m /\ (i.d % 2 = 1 => i.d + 1 \in 1 .. i.m)
  <1>1. /\ i.m \in Nat /\ i.m > 1 /\ i.m % 2 = 0 /\ i.d \in 1 .. i.m
        /\ i.h \in Halves(i.m) /\ i.neg \in BOOLEAN /\ i.over \in BOOLEAN
    BY DEF IntOK, Ints, Room
  <1>2. PICK m \in Nat, d \in Nat : m = i.m /\ d = i.d
    BY <1>1
  <1>3. d \in 1 .. m /\ m % 2 = 0
    BY <1>1, <1>2
  <1>4. d \in 0 .. m /\ (d % 2 = 1 => d + 1 \in 1 .. m)
    BY <1>3
  <1> QED
    BY <1>1, <1>2, <1>4

LEMMA MagnitudeIs ==
    ASSUME NEW i, IntOK(i)
    PROVE  Magnitude(i) \in Nat /\ Magnitude(i) < Power(Base, i.d)
  BY IntFacts, AmountBound DEF Magnitude

LEMMA MagnitudeLeast ==
    ASSUME NEW i, Number(i), i.d > 1
    PROVE  Power(Base, i.d - 1) <= Magnitude(i)
  <1>1. i.m \in Nat /\ i.h \in Halves(i.m) /\ i.d \in 1 .. i.m
    BY IntFacts DEF Number
  <1>2. i.h[i.d] # 0
    <2>1. i.h[i.d - 1 + 1] # 0
      BY DEF Number, Normal, Half
    <2>2. i.d - 1 + 1 = i.d
      BY <1>1
    <2> QED
      BY <2>1, <2>2
  <1> QED
    BY <1>1, <1>2, AmountLeast DEF Magnitude

(* The words of a number with d digits.                                    *)
LEMMA WordsHold ==
    ASSUME NEW i, Number(i), NEW W \in Nat, W = (i.d + 1) \div 2
    PROVE  2 * W <= i.m /\ W > 0 /\ Amount(i.h)[2 * W] = Magnitude(i)
  <1>1. PICK m \in Nat, d \in Nat : m = i.m /\ d = i.d
    BY IntFacts DEF Number
  <1>2. d \in 1 .. m /\ m % 2 = 0 /\ W = (d + 1) \div 2 /\ i.h \in Halves(m)
    BY <1>1, IntFacts DEF Number
  <1>3. 2 * W <= m /\ W > 0 /\ (d % 2 = 0 => 2 * W = d) /\ (d % 2 = 1 => 2 * W = d + 1)
    BY <1>2
  <1>4. CASE d % 2 = 0
    BY <1>1, <1>3, <1>4 DEF Magnitude
  <1>5. CASE d % 2 = 1
    <2>1. i.h[d + 1] = 0
      BY <1>1, <1>5 DEF Number, Normal, Half
    <2>2. d \in 0 .. m /\ d + 1 \in d .. m /\ \A k \in d + 1 .. d + 1 : i.h[k] = 0
      BY <1>2, <1>3, <1>5, <2>1
    <2>3. Amount(i.h)[d + 1] = Amount(i.h)[d]
      BY <1>2, <2>2, AmountZeros
    <2> QED
      BY <1>1, <1>3, <1>5, <2>3 DEF Magnitude
  <1> QED
    BY <1>2, <1>3, <1>4, <1>5

LEMMA AmountOfWord ==
    ASSUME NEW i, IntOK(i), NEW w \in Nat, 2 * w + 2 <= i.m
    PROVE  /\ Word(i, w) \in Nat /\ Word(i, w) < Power(Base, 2)
           /\ Amount(i.h)[2 * w] \in Nat /\ Amount(i.h)[2 * w] < Power(Base, 2 * w)
           /\ Amount(i.h)[2 * w + 2] = Amount(i.h)[2 * w] + Word(i, w) * Power(Base, 2 * w)
  <1>1. i.m \in Nat /\ i.h \in Halves(i.m)
    BY IntFacts
  <1>2. /\ 2 * w \in 0 .. i.m - 1 /\ 2 * w + 1 \in 0 .. i.m - 1 /\ 2 * w + 1 \in 1 .. i.m
        /\ 2 * w + 2 \in 1 .. i.m /\ 2 * w \in 0 .. i.m /\ 2 * w \in Nat /\ 2 * w + 1 + 1 = 2 * w + 2
    BY <1>1
  <1>3. PICK u \in Nat, v \in Nat : /\ u = i.h[2 * w + 1] /\ v = i.h[2 * w + 2]
                                    /\ u < Base /\ v < Base
    BY <1>1, <1>2, HalfIs
  <1>4. Word(i, w) = u + Base * v
    BY <1>2, <1>3 DEF Word, Half
  <1>5. PICK p \in Nat, x \in Nat : p = Power(Base, 2 * w) /\ x = Amount(i.h)[2 * w] /\ x < p
    BY <1>1, <1>2, BasePower, AmountBound
  <1>6. Power(Base, 2 * w + 1) = Base * p
    BY <1>2, <1>5, BasePower
  <1>7. /\ Amount(i.h)[2 * w + 1] = x + u * p
        /\ Amount(i.h)[2 * w + 1 + 1] = (x + u * p) + v * (Base * p)
    <2>1. Amount(i.h)[2 * w + 1] = x + u * p
      BY <1>1, <1>2, <1>3, <1>5, AmountIs
    <2>2. Amount(i.h)[2 * w + 1 + 1] = Amount(i.h)[2 * w + 1] + i.h[2 * w + 1 + 1] * Power(Base, 2 * w + 1)
      BY <1>1, <1>2, AmountIs
    <2> QED
      BY <1>2, <1>3, <1>6, <2>1, <2>2
  <1>8. Base \in Nat /\ (x + u * p) + v * (Base * p) = x + (u + Base * v) * p
    BY BaseIs
  <1>9. u + Base * v \in Nat /\ u + Base * v < Base * Base
    <2>1. v * Base + Base <= Base * Base
      BY <1>3, <1>8, OneMore
    <2> QED
      BY <1>3, <1>8, <2>1
  <1> QED
    BY <1>2, <1>4, <1>5, <1>7, <1>8, <1>9, SmallPowers

-----------------------------------------------------------------------------
(* Comparison.                                                             *)

(* Equal words add the same to both numbers.                               *)
LEMMA EqualWords ==
    ASSUME NEW x, NEW y, IntOK(x), IntOK(y), NEW w \in Nat, NEW W \in Nat, w <= W,
           2 * W <= x.m, 2 * W <= y.m, \A j \in w .. W - 1 : Word(x, j) = Word(y, j)
    PROVE  Amount(x.h)[2 * W] + Amount(y.h)[2 * w] = Amount(y.h)[2 * W] + Amount(x.h)[2 * w]
  <1> DEFINE X(j) == Amount(x.h)[2 * j]
             Y(j) == Amount(y.h)[2 * j]
             S == {k \in 0 .. W - w : X(w + k) + Y(w) = Y(w + k) + X(w)}
  <1>1. x.m \in Nat /\ y.m \in Nat /\ x.h \in Halves(x.m) /\ y.h \in Halves(y.m)
    BY IntFacts
  <1>2. ASSUME NEW j \in w .. W
        PROVE  j \in Nat /\ 2 * j \in 0 .. x.m /\ 2 * j \in 0 .. y.m /\ X(j) \in Nat /\ Y(j) \in Nat
    <2>1. j \in Nat /\ 2 * j \in 0 .. x.m /\ 2 * j \in 0 .. y.m
      BY <1>1
    <2> QED
      BY <1>1, <2>1, AmountIs
  <1>3. 0 \in S
    <2>1. w \in w .. W /\ w + 0 = w /\ 0 \in 0 .. W - w
      OBVIOUS
    <2>2. X(w) \in Nat /\ Y(w) \in Nat
      BY <1>2, <2>1
    <2> HIDE DEF X, Y
    <2> QED
      BY <2>1, <2>2
  <1>4. ASSUME NEW k \in 0 .. (W - w) - 1, k \in S PROVE k + 1 \in S
    <2>1. PICK j \in Nat : j = w + k
      OBVIOUS
    <2>2. /\ j \in w .. W /\ j + 1 \in w .. W /\ j \in w .. W - 1 /\ w + (k + 1) = j + 1
          /\ k + 1 \in 0 .. W - w /\ w \in w .. W /\ 2 * (j + 1) = 2 * j + 2
      BY <2>1
    <2>3. 2 * j + 2 <= x.m /\ 2 * j + 2 <= y.m
      BY <1>1, <2>2
    <2>4. PICK u \in Nat, p \in Nat : u = Word(x, j) /\ u = Word(y, j) /\ p = Power(Base, 2 * j)
      BY <2>2, <2>3, AmountOfWord, BasePower
    <2>5. X(j + 1) = X(j) + u * p /\ Y(j + 1) = Y(j) + u * p
      BY <2>2, <2>3, <2>4, AmountOfWord
    <2>6. X(w + k) + Y(w) = Y(w + k) + X(w)
      BY <1>4
    <2>7. X(j) \in Nat /\ Y(j) \in Nat /\ X(w) \in Nat /\ Y(w) \in Nat
      BY <1>2, <2>2
    <2> HIDE DEF X, Y
    <2>8. (X(j) + u * p) + Y(w) = (Y(j) + u * p) + X(w)
      BY <2>1, <2>6, <2>7
    <2> QED
      BY <2>2, <2>5, <2>8
  <1>5. W - w \in Nat /\ W - w \in 0 .. W - w /\ w + (W - w) = W
    OBVIOUS
  <1>6. W - w \in S
    <2> HIDE DEF S
    <2> QED
      BY <1>3, <1>4, <1>5, InductionTo
  <1> QED
    BY <1>5, <1>6

Order(x, y) == IF x < y THEN "LT" ELSE IF x = y THEN "EQ" ELSE "GT"

LEMMA LongerIsMore ==
    ASSUME NEW x, NEW y, Number(x), Number(y), x.d > y.d
    PROVE  Magnitude(x) > Magnitude(y)
  <1>1. x.d \in Nat /\ y.d \in Nat /\ y.d >= 1
    BY IntFacts DEF Number
  <1>2. x.d > 1 /\ x.d - 1 \in Nat /\ y.d <= x.d - 1
    BY <1>1
  <1>3. Power(Base, y.d) <= Power(Base, x.d - 1)
    BY <1>1, <1>2, BaseIs, PowerGrows
  <1>4. Power(Base, x.d - 1) <= Magnitude(x) /\ Magnitude(x) \in Nat
    BY <1>2, MagnitudeLeast, MagnitudeIs DEF Number
  <1>5. Magnitude(y) < Power(Base, y.d) /\ Magnitude(y) \in Nat
    BY MagnitudeIs DEF Number
  <1>6. Power(Base, y.d) \in Nat /\ Power(Base, x.d - 1) \in Nat
    BY <1>1, <1>2, BasePower
  <1> QED
    BY <1>3, <1>4, <1>5, <1>6

(* A larger word decides.                                                  *)
LEMMA LargerWord ==
    ASSUME NEW x, NEW y, IntOK(x), IntOK(y), NEW w \in Nat, 2 * w + 2 <= x.m, 2 * w + 2 <= y.m,
           Word(x, w) > Word(y, w)
    PROVE  Amount(x.h)[2 * w + 2] > Amount(y.h)[2 * w + 2]
  <1>1. PICK u \in Nat, v \in Nat, p \in Nat, s \in Nat, t \in Nat :
          /\ u = Word(x, w) /\ v = Word(y, w) /\ p = Power(Base, 2 * w)
          /\ s = Amount(x.h)[2 * w] /\ t = Amount(y.h)[2 * w]
    <2>1. Word(x, w) \in Nat /\ Amount(x.h)[2 * w] \in Nat
      BY AmountOfWord
    <2>2. Word(y, w) \in Nat /\ Amount(y.h)[2 * w] \in Nat
      BY AmountOfWord
    <2>3. 2 * w \in Nat /\ Power(Base, 2 * w) \in Nat
      BY BasePower
    <2> QED
      BY <2>1, <2>2, <2>3
  <1>2. /\ Amount(x.h)[2 * w + 2] = s + u * p /\ Amount(y.h)[2 * w + 2] = t + v * p
        /\ t < p /\ v < u
    BY <1>1, AmountOfWord
  <1>3. v * p + p <= u * p
    BY <1>2, OneMore
  <1> QED
    BY <1>2, <1>3

(* int_is_abs orders the magnitudes, although it compares by length and    *)
(* then by 32-bit words that may reach beyond the number's digits.         *)
THEOREM CompareAbs ==
    ASSUME NEW x, NEW y, Number(x), Number(y)
    PROVE  int_is_abs(x, y) = Order(Magnitude(x), Magnitude(y))
  <1>1. /\ x.d \in Nat /\ y.d \in Nat /\ IntOK(x) /\ IntOK(y)
        /\ Magnitude(x) \in Nat /\ Magnitude(y) \in Nat
    BY IntFacts, MagnitudeIs DEF Number
  <1>2. CASE x.d > y.d
    <2>1. Magnitude(x) > Magnitude(y)
      BY <1>2, LongerIsMore
    <2> QED
      BY <1>1, <1>2, <2>1 DEF int_is_abs, Order
  <1>3. CASE x.d < y.d
    <2>1. y.d > x.d
      BY <1>1, <1>3
    <2>2. Magnitude(y) > Magnitude(x)
      BY <2>1, LongerIsMore
    <2> QED
      BY <1>1, <1>3, <2>2 DEF int_is_abs, Order
  <1>4. CASE x.d = y.d
    <2> DEFINE W == (x.d + 1) \div 2
               differ == {w \in 0 .. W - 1 : Word(x, w) # Word(y, w)}
    <2>1. W \in Nat
      BY <1>1
    <2>2. int_is_abs(x, y) = IF differ = {} THEN "EQ"
                             ELSE IF Word(x, Max(differ)) > Word(y, Max(differ)) THEN "GT" ELSE "LT"
      BY <1>4 DEF int_is_abs
    <2>3. W = (y.d + 1) \div 2
      BY <1>4
    <2> HIDE DEF W
    <2>4. /\ 2 * W <= x.m /\ 2 * W <= y.m /\ W > 0
          /\ Amount(x.h)[2 * W] = Magnitude(x) /\ Amount(y.h)[2 * W] = Magnitude(y)
      BY <2>1, <2>3, WordsHold DEF W
    <2>5. CASE differ = {}
      <3>1. \A j \in 0 .. W - 1 : Word(x, j) = Word(y, j)
        BY <2>5
      <3>2. 0 \in Nat /\ 0 <= W /\ 2 * 0 = 0
        BY <2>1
      <3>3. Amount(x.h)[2 * W] + Amount(y.h)[2 * 0] = Amount(y.h)[2 * W] + Amount(x.h)[2 * 0]
        BY <1>1, <2>1, <2>4, <3>1, <3>2, EqualWords
      <3>4. Amount(x.h)[0] = 0 /\ Amount(y.h)[0] = 0
        BY <1>1, IntFacts, AmountIs
      <3>5. Magnitude(x) = Magnitude(y)
        BY <1>1, <2>4, <3>2, <3>3, <3>4
      <3> QED
        BY <1>1, <2>2, <2>5, <3>5 DEF Order
    <2>6. CASE differ # {}
      <3>1. PICK w : w = Max(differ)
        OBVIOUS
      <3>2. w \in differ /\ \A j \in differ : w >= j
        <4>1. differ \subseteq 0 .. W
          BY <2>1
        <4> HIDE DEF differ
        <4> QED
          BY <2>1, <2>6, <3>1, <4>1, MaxIs
      <3>3. /\ w \in Nat /\ w + 1 \in Nat /\ w + 1 <= W /\ 2 * (w + 1) = 2 * w + 2
            /\ Word(x, w) # Word(y, w)
        BY <2>1, <3>2
      <3>4. \A j \in w + 1 .. W - 1 : Word(x, j) = Word(y, j)
        BY <2>1, <3>2, <3>3
      <3>5. 2 * w + 2 <= x.m /\ 2 * w + 2 <= y.m
        BY <1>1, <2>1, <2>4, <3>3, IntFacts
      <3>6. Magnitude(x) + Amount(y.h)[2 * w + 2] = Magnitude(y) + Amount(x.h)[2 * w + 2]
        BY <1>1, <2>1, <2>4, <3>3, <3>4, EqualWords
      <3>7. PICK u \in Nat, v \in Nat, s \in Nat, t \in Nat :
              /\ u = Word(x, w) /\ v = Word(y, w)
              /\ s = Amount(x.h)[2 * w + 2] /\ t = Amount(y.h)[2 * w + 2]
        <4>1. 2 * w + 2 \in 0 .. x.m /\ 2 * w + 2 \in 0 .. y.m
          BY <1>1, <3>3, <3>5, IntFacts
        <4>2. Amount(x.h)[2 * w + 2] \in Nat /\ Amount(y.h)[2 * w + 2] \in Nat
          BY <1>1, <4>1, IntFacts, AmountIs
        <4>3. Word(x, w) \in Nat /\ Word(y, w) \in Nat
          BY <1>1, <3>3, <3>5, AmountOfWord
        <4> QED
          BY <4>2, <4>3
      <3>8. CASE u > v
        <4>1. s > t
          BY <1>1, <3>3, <3>5, <3>7, <3>8, LargerWord
        <4>2. Magnitude(x) > Magnitude(y)
          BY <1>1, <3>6, <3>7, <4>1
        <4> QED
          BY <1>1, <2>2, <2>6, <3>1, <3>7, <3>8, <4>2 DEF Order
      <3>9. CASE ~(u > v)
        <4>1. v > u
          BY <3>3, <3>7, <3>9
        <4>2. t > s
          BY <1>1, <3>3, <3>5, <3>7, <4>1, LargerWord
        <4>3. Magnitude(x) < Magnitude(y)
          BY <1>1, <3>6, <3>7, <4>2
        <4> QED
          BY <1>1, <2>2, <2>6, <3>1, <3>7, <3>9, <4>3 DEF Order
      <3> QED
        BY <3>8, <3>9
    <2> QED
      BY <2>5, <2>6
  <1> QED
    BY <1>1, <1>2, <1>3, <1>4

LEMMA ZeroIs ==
    ASSUME NEW i, Number(i) PROVE int_is_zero(i) <=> Magnitude(i) = 0
  <1>1. i.m \in Nat /\ i.m > 1 /\ i.d \in 1 .. i.m /\ i.d \in Nat /\ i.h \in Halves(i.m) /\ IntOK(i)
    BY IntFacts DEF Number
  <1>2. CASE i.d > 1
    <2>1. i.d - 1 \in Nat /\ Power(Base, i.d - 1) <= Magnitude(i) /\ Magnitude(i) \in Nat
      BY <1>1, <1>2, MagnitudeLeast, MagnitudeIs
    <2>2. Power(Base, i.d - 1) \in Nat /\ Power(Base, i.d - 1) > 0
      BY <2>1, BasePower
    <2> QED
      BY <1>2, <2>1, <2>2 DEF int_is_zero
  <1>3. CASE i.d = 1
    <2>1. /\ Amount(i.h)[0 + 1] = Amount(i.h)[0] + i.h[0 + 1] * Power(Base, 0)
          /\ Amount(i.h)[0] = 0 /\ Power(Base, 0) = 1
      <3>1. 0 \in 0 .. i.m - 1
        BY <1>1
      <3> QED
        BY <1>1, <3>1, AmountIs, SmallPowers
    <2>2. i.h[1] \in Nat /\ i.h[0 + 1] = i.h[1]
      BY <1>1, HalfIs
    <2>3. Magnitude(i) = i.h[1]
      BY <1>3, <2>1, <2>2 DEF Magnitude
    <2> QED
      BY <1>3, <2>2, <2>3 DEF int_is_zero, Half
  <1> QED
    BY <1>1, <1>2, <1>3

(* int_is compares as integers, for zeros of either sign too.              *)
THEOREM Compare ==
    ASSUME NEW x, NEW y, Number(x), Number(y)
    PROVE  int_is(x, y) = Order(Val(x), Val(y))
  <1>1. PICK u \in Nat, v \in Nat : u = Magnitude(x) /\ v = Magnitude(y)
    BY MagnitudeIs DEF Number
  <1>2. int_is_abs(x, y) = Order(u, v)
    BY <1>1, CompareAbs
  <1>3. (int_is_zero(x) <=> u = 0) /\ (int_is_zero(y) <=> v = 0)
    BY <1>1, ZeroIs
  <1>4. x.neg \in BOOLEAN /\ y.neg \in BOOLEAN
    BY IntFacts DEF Number
  <1>5. CASE ~x.neg /\ ~y.neg
    <2>1. x.neg = y.neg /\ ~x.neg
      BY <1>4, <1>5
    <2>2. int_is(x, y) = Order(u, v)
      BY <1>2, <2>1 DEF int_is
    <2> QED
      BY <1>1, <1>5, <2>2 DEF Val
  <1>6. CASE x.neg /\ y.neg
    <2>1. int_is(x, y) = Opposite(Order(u, v))
      BY <1>2, <1>6 DEF int_is
    <2>2. Opposite(Order(u, v)) = Order(-u, -v)
      BY DEF Opposite, Order
    <2> QED
      BY <1>1, <1>6, <2>1, <2>2 DEF Val
  <1>7. CASE x.neg /\ ~y.neg
    <2>1. int_is(x, y) = IF int_is_zero(x) /\ int_is_zero(y) THEN "EQ" ELSE "LT"
      BY <1>4, <1>7 DEF int_is
    <2>2. Val(x) = -u /\ Val(y) = v
      BY <1>1, <1>7 DEF Val
    <2> QED
      BY <1>3, <2>1, <2>2 DEF Order
  <1>8. CASE ~x.neg /\ y.neg
    <2>1. int_is(x, y) = IF int_is_zero(x) /\ int_is_zero(y) THEN "EQ" ELSE "GT"
      BY <1>4, <1>8 DEF int_is
    <2>2. Val(x) = u /\ Val(y) = -v
      BY <1>1, <1>8 DEF Val
    <2> QED
      BY <1>3, <2>1, <2>2 DEF Order
  <1> QED
    BY <1>4, <1>5, <1>6, <1>7, <1>8

-----------------------------------------------------------------------------
(* Writing digits.                                                         *)
Splits(x, y, q, r) == x = y * q + r /\ r < y

LEMMA DivIs ==
    ASSUME NEW x \in Nat, NEW y \in Nat, y > 0, NEW q \in Nat, NEW r \in Nat, Splits(x, y, q, r)
    PROVE  x \div y = q /\ x % y = r
  BY DEF Splits

LEMMA DivFacts ==
    ASSUME NEW x \in Nat, NEW y \in Nat, y > 0
    PROVE  /\ x \div y \in Nat /\ x % y \in Nat /\ x % y < y /\ x = y * (x \div y) + (x % y)
  OBVIOUS

(* The digits of a number, from the lowest.                                *)
DigitsOf(h, v, n) == \A k \in 1 .. n : h[k] = (v \div Power(Base, k - 1)) % Base

LEMMA DigitsAmount ==
    ASSUME NEW m \in Nat, NEW h \in Halves(m), NEW n \in 0 .. m, NEW v \in Nat, DigitsOf(h, v, n)
    PROVE  Amount(h)[n] = v % Power(Base, n)
  <1> DEFINE S == {k \in 0 .. n : Amount(h)[k] = v % Power(Base, k)}
  <1>1. 0 \in S
    BY AmountIs, SmallPowers
  <1>2. ASSUME NEW k \in 0 .. n - 1, k \in S PROVE k + 1 \in S
    <2>1. k \in Nat /\ k \in 0 .. m - 1 /\ k + 1 \in 1 .. n /\ k + 1 \in 0 .. n /\ (k + 1) - 1 = k
      OBVIOUS
    <2>2. PICK p \in Nat : p = Power(Base, k) /\ p > 0 /\ Power(Base, k + 1) = Base * p
      BY <2>1, BasePower
    <2>3. PICK q \in Nat, r \in Nat : q = v \div p /\ r = v % p /\ r < p /\ v = p * q + r
      <3>1. /\ v \div p \in Nat /\ v % p \in Nat /\ v % p < p /\ v = p * (v \div p) + (v % p)
        BY <2>2, DivFacts
      <3> QED
        BY <3>1, Zenon
    <2>4. PICK t \in Nat, c \in Nat : t = q \div Base /\ c = q % Base /\ c < Base /\ q = Base * t + c
      BY BaseIs, DivFacts
    <2>5. Amount(h)[k + 1] = r + c * p
      <3>1. h[k + 1] = c
        BY <2>1, <2>2, <2>3, <2>4 DEF DigitsOf
      <3> QED
        BY <1>2, <2>1, <2>2, <2>3, <3>1, AmountIs
    <2>6. v = (Base * p) * t + (r + c * p) /\ Base \in Nat
      <3>1. Base \in Nat
        BY BaseIs
      <3>2. v = p * (Base * t + c) + r
        BY <2>3, <2>4
      <3>3. p * (Base * t + c) + r = (Base * p) * t + (r + c * p)
        BY <3>1
      <3> QED
        BY <3>1, <3>2, <3>3
    <2>7. c * p + p <= Base * p
      BY <2>4, <2>6, OneMore
    <2>8. r + c * p < Base * p /\ r + c * p \in Nat /\ Base * p \in Nat
      BY <2>3, <2>6, <2>7
    <2>9. v % (Base * p) = r + c * p
      <3>1. PICK y \in Nat, z \in Nat : y = Base * p /\ z = r + c * p
        BY <2>8
      <3>2. y > 0 /\ z < y /\ v = y * t + z
        BY <2>6, <2>8, <3>1
      <3>3. Splits(v, y, t, z)
        BY <3>2 DEF Splits
      <3>4. v % y = z
        BY <3>2, <3>3, DivIs
      <3> QED
        BY <3>1, <3>4
    <2> QED
      BY <2>1, <2>2, <2>5, <2>9
  <1> HIDE DEF S
  <1>3. n \in Nat /\ n \in 0 .. n
    OBVIOUS
  <1>4. n \in S
    BY <1>1, <1>2, <1>3, InductionTo
  <1> QED
    BY <1>4 DEF S

LEMMA DigitsExact ==
    ASSUME NEW m \in Nat, NEW h \in Halves(m), NEW n \in 0 .. m, NEW v \in Nat, DigitsOf(h, v, n),
           v < Power(Base, n)
    PROVE  Amount(h)[n] = v
  <1>1. PICK p \in Nat : p = Power(Base, n) /\ p > 0
    BY BasePower
  <1>2. v % p = v
    BY <1>1
  <1> QED
    BY <1>1, <1>2, DigitsAmount

LEMMA StoreFacts ==
    ASSUME NEW i, IntOK(i), NEW f,
           \A k \in 0 .. i.m - 1 : k \in DOMAIN f => f[k] \in 0 .. Base - 1
    PROVE  /\ IntOK(Store(i, f)) /\ Store(i, f).m = i.m /\ Store(i, f).d = i.d
           /\ Store(i, f).neg = i.neg /\ Store(i, f).over = i.over
           /\ \A k \in 1 .. i.m : Store(i, f).h[k] = IF k - 1 \in DOMAIN f THEN f[k - 1] ELSE i.h[k]
  <1> DEFINE g == [k \in 1 .. i.m |-> IF k - 1 \in DOMAIN f THEN f[k - 1] ELSE i.h[k]]
  <1>1. i.m \in Nat /\ i.h \in [1 .. i.m -> 0 .. Base - 1] /\ i \in Ints(i.m) /\ Room(i.m)
    BY IntFacts DEF Halves, IntOK
  <1>2. g \in Halves(i.m)
    <2>1. ASSUME NEW k \in 1 .. i.m
          PROVE  (IF k - 1 \in DOMAIN f THEN f[k - 1] ELSE i.h[k]) \in 0 .. Base - 1
      <3>1. k - 1 \in 0 .. i.m - 1
        BY <1>1
      <3> QED
        BY <1>1, <3>1
    <2> QED
      BY <2>1 DEF Halves
  <1>3. \A k \in 1 .. i.m : g[k] = IF k - 1 \in DOMAIN f THEN f[k - 1] ELSE i.h[k]
    OBVIOUS
  <1>4. Store(i, f) = [i EXCEPT !.h = g]
    BY DEF Store
  <1> HIDE DEF g
  <1>5. PICK s : s = Store(i, f) /\ s = [i EXCEPT !.h = g]
    BY <1>4
  <1>6. /\ s \in Ints(i.m) /\ s.m = i.m /\ s.h = g
        /\ s.d = i.d /\ s.neg = i.neg /\ s.over = i.over
    BY <1>1, <1>2, <1>5 DEF Ints
  <1> QED
    BY <1>1, <1>3, <1>5, <1>6 DEF IntOK

LEMMA NumberIs ==
    ASSUME NEW i, IntOK(i), i.d > 1 => i.h[i.d] # 0, i.d % 2 = 1 => i.h[i.d + 1] = 0
    PROVE  Number(i)
  <1>1. i.d \in 1 .. i.m /\ i.d \in Nat
    BY IntFacts
  <1>2. i.d - 1 + 1 = i.d
    BY <1>1
  <1> QED
    BY <1>1, <1>2 DEF Number, Normal, Half

LEMMA NumberTop ==
    ASSUME NEW i, Number(i)
    PROVE  /\ IntOK(i) /\ (i.d > 1 => i.h[i.d] # 0)
           /\ i.d % 2 = 1 => i.h[i.d + 1] = 0
  <1>1. i.d \in 1 .. i.m /\ i.d \in Nat /\ IntOK(i)
    BY IntFacts DEF Number
  <1>2. i.d - 1 + 1 = i.d
    BY <1>1
  <1> QED
    BY <1>1, <1>2 DEF Number, Normal, Half

(* The digits of a number are below the base.                              *)
LEMMA DigitOf ==
    ASSUME NEW v \in Nat, NEW k \in Nat
    PROVE  (v \div Power(Base, k)) % Base \in 0 .. Base - 1
  <1>1. PICK p \in Nat : p = Power(Base, k) /\ p > 0
    BY BasePower
  <1>2. Base \in Nat /\ Base > 2
    BY BaseIs
  <1>3. v \div p \in Nat
    BY <1>1, DivFacts
  <1>4. PICK q \in Nat : q = v \div p
    BY <1>3
  <1>5. q % Base \in Nat /\ q % Base < Base
    BY <1>2, DivFacts
  <1> QED
    BY <1>1, <1>2, <1>4, <1>5

(* A C integer of at most four digits is stored exactly, if it fits.       *)
Holds(i, m, v) == Number(i) /\ i.m = m /\ ~i.over /\ Magnitude(i) = v

LEMMA SetU ==
    ASSUME NEW i, IntOK(i), NEW v \in Nat, v < Power(Base, 4), v < Power(Base, i.m)
    PROVE  Holds(int_set_u(v, i), i.m, v) /\ ~int_set_u(v, i).neg
  <1> DEFINE fits == {w \in 0 .. 2 : v < Power(Base, 2 * w)}
             words == Min(fits)
             used == Min({words, i.m \div 2})
             n == Max({2 * used, 2})
             f == [k \in 0 .. n - 1 |-> (v \div Power(Base, k)) % Base]
             set == Store(i, f)
             r == [set EXCEPT !.neg = FALSE, !.over = words > used,
                     !.d = IF used = 0 THEN 1 ELSE IF Half(set, 2 * used - 1) = 0 THEN 2 * used - 1 ELSE 2 * used]
  <1>1. int_set_u(v, i) = r
    BY DEF int_set_u
  <1>2. i.m \in Nat /\ i.m > 1 /\ i.m % 2 = 0
    BY IntFacts
  <1>3. PICK w \in 0 .. 2 : w = words /\ v < Power(Base, 2 * w) /\ \A j \in fits : w <= j
    <2>1. fits \subseteq Nat /\ 2 \in fits
      OBVIOUS
    <2>2. Min(fits) \in fits /\ \A j \in fits : Min(fits) <= j
      <3> HIDE DEF fits
      <3> QED
        BY <2>1, MinIs
    <2>3. words \in fits
      BY <2>2
    <2>4. words \in 0 .. 2 /\ v < Power(Base, 2 * words)
      <3> HIDE DEF words
      <3> QED
        BY <2>3
    <2> HIDE DEF fits
    <2> QED
      BY <2>2, <2>4
  <1>4. w <= i.m \div 2 /\ 2 * w <= i.m
    <2>1. CASE i.m = 2
      <3>1. 1 \in fits
        BY <2>1
      <3> QED
        BY <1>3, <2>1, <3>1
    <2>2. CASE i.m # 2
      BY <1>2, <1>3, <2>2
    <2> QED
      BY <2>1, <2>2
  <1>5. used = w
    BY <1>2, <1>3, <1>4, MinOfTwo
  <1>6. n = IF w = 0 THEN 2 ELSE 2 * w
    BY <1>3, <1>5, MaxOfTwo
  <1>7. n \in 2 .. i.m /\ n % 2 = 0 /\ n \in Nat
    <2> HIDE DEF n
    <2> QED
      BY <1>2, <1>3, <1>4, <1>6
  <1> HIDE DEF fits, words, used, n
  <1>8. \A k \in 0 .. i.m - 1 : k \in DOMAIN f => f[k] \in 0 .. Base - 1
    <2> TAKE k \in 0 .. i.m - 1
    <2>1. k \in Nat
      OBVIOUS
    <2>2. (v \div Power(Base, k)) % Base \in 0 .. Base - 1
      BY <2>1, DigitOf
    <2> QED
      BY <2>2
  <1>9. \A k \in 1 .. n : k - 1 \in DOMAIN f /\ f[k - 1] = (v \div Power(Base, k - 1)) % Base /\ k \in 1 .. i.m
    BY <1>2, <1>7
  <1> HIDE DEF f
  <1>10. IntOK(set) /\ set.m = i.m /\ \A k \in 1 .. n : set.h[k] = (v \div Power(Base, k - 1)) % Base
    BY <1>8, <1>9, StoreFacts
  <1> HIDE DEF set
  <1>11. PICK e \in Nat : e = (IF used = 0 THEN 1 ELSE IF Half(set, 2 * used - 1) = 0 THEN 2 * used - 1 ELSE 2 * used)
                          /\ e \in 1 .. i.m /\ (e = n \/ (e = n - 1 /\ (w = 0 \/ set.h[n] = 0)))
                          /\ (e = n => w # 0 /\ set.h[n] # 0)
    <2>1. CASE w = 0
      BY <1>2, <1>5, <1>6, <2>1
    <2>2. CASE w # 0
      <3>1. n = 2 * w /\ 2 * w - 1 + 1 = n
        BY <1>3, <1>6, <2>2
      <3>2. Half(set, 2 * used - 1) = set.h[n]
        BY <1>5, <3>1 DEF Half
      <3>3. n \in 1 .. i.m /\ n - 1 \in 1 .. i.m /\ n \in Nat /\ n - 1 \in Nat
        BY <1>2, <1>7
      <3> QED
        BY <1>3, <1>5, <2>2, <3>1, <3>2, <3>3
    <2> QED
      BY <2>1, <2>2
  <1>12. (words > used) = FALSE
    <2>1. ~(words > used)
      BY <1>3, <1>5
    <2> QED
      BY <2>1
  <1>13. r = [set EXCEPT !.neg = FALSE, !.over = FALSE, !.d = e]
    BY <1>11, <1>12, Zenon
  <1> HIDE DEF r
  <1>14. IntOK(r) /\ r.m = i.m /\ r.h = set.h /\ r.d = e /\ ~r.over /\ ~r.neg
    <2>1. set \in Ints(i.m) /\ Room(i.m)
      BY <1>10 DEF IntOK
    <2>2. r \in Ints(i.m) /\ r.m = i.m /\ r.h = set.h /\ r.d = e /\ ~r.over /\ ~r.neg
      BY <1>11, <1>13, <2>1 DEF Ints
    <2> QED
      BY <2>1, <2>2 DEF IntOK
  <1>15. set.h \in Halves(i.m)
    BY <1>10, IntFacts
  <1>16. v < Power(Base, n)
    <2>1. CASE w = 0
      <3>1. v < 1
        BY <1>3, <2>1, SmallPowers
      <3>2. Power(Base, n) \in Nat /\ Power(Base, n) > 0
        BY <1>7, BasePower
      <3> QED
        BY <3>1, <3>2
    <2>2. CASE w # 0
      BY <1>3, <1>6, <2>2
    <2> QED
      BY <2>1, <2>2
  <1>17. Amount(set.h)[n] = v
    <2>1. DigitsOf(set.h, v, n) /\ n \in 0 .. i.m
      BY <1>7, <1>10 DEF DigitsOf
    <2> QED
      BY <1>2, <1>15, <1>16, <2>1, DigitsExact
  <1>18. e = n - 1 => set.h[n] = 0
    <2>1. ASSUME w = 0, e = n - 1 PROVE set.h[n] = 0
      <3>1. v = 0
        BY <1>3, <2>1, SmallPowers
      <3>2. PICK p \in Nat : p = Power(Base, n - 1) /\ p > 0
        BY <1>7, BasePower
      <3>3. (0 \div p) % Base = 0
        BY <3>2, BaseIs
      <3>4. n \in 1 .. n
        BY <1>7
      <3> QED
        BY <1>10, <3>1, <3>2, <3>3, <3>4
    <2> QED
      BY <1>7, <1>11, <2>1
  <1>19. Amount(set.h)[e] = v
    <2>1. ASSUME e = n - 1 PROVE Amount(set.h)[n] = Amount(set.h)[e]
      <3>1. e \in 0 .. i.m /\ n \in e .. i.m /\ \A k \in e + 1 .. n : set.h[k] = 0
        BY <1>2, <1>7, <1>11, <1>18, <2>1
      <3> QED
        BY <1>2, <1>15, <3>1, AmountZeros
    <2> QED
      BY <1>11, <1>17, <2>1
  <1>20. e > 1 => set.h[e] # 0
    <2>1. CASE e = n
      BY <1>11, <2>1
    <2>2. CASE e = n - 1 /\ e > 1
      <3>1. w = 2 /\ n = 4 /\ e = 3
        BY <1>3, <1>6, <2>2
      <3>2. ~(v < Power(Base, 2))
        <4>1. 1 \notin fits
          BY <1>3, <3>1
        <4> QED
          BY <4>1 DEF fits
      <3>3. i.m >= 4 /\ 2 \in 0 .. i.m /\ 3 \in 2 .. i.m
        BY <1>2, <1>7, <3>1
      <3>4. Amount(set.h)[2] < Power(Base, 2) /\ Amount(set.h)[2] \in Nat /\ Power(Base, 2) \in Nat
        BY <1>2, <1>15, <3>3, AmountBound, BasePower
      <3>5. set.h[3] = 0 => Amount(set.h)[3] = Amount(set.h)[2]
        <4>1. \A k \in 2 + 1 .. 3 : k = 3
          OBVIOUS
        <4> QED
          BY <1>2, <1>15, <3>3, <4>1, AmountZeros
      <3> QED
        BY <1>19, <3>1, <3>2, <3>4, <3>5
    <2> QED
      BY <1>11, <2>1, <2>2
  <1>21. e % 2 = 1 => set.h[e + 1] = 0
    <2>1. CASE e = n
      BY <1>7, <2>1
    <2>2. CASE e = n - 1
      <3>1. e + 1 = n
        BY <1>7, <2>2
      <3> QED
        BY <1>18, <2>2, <3>1
    <2> QED
      BY <1>11, <2>1, <2>2
  <1>22. Number(r)
    BY <1>14, <1>20, <1>21, NumberIs
  <1> QED
    BY <1>1, <1>14, <1>19, <1>22 DEF Holds, Magnitude

(* The sign is beside the digits.                                          *)
LEMMA SignAside ==
    ASSUME NEW i, IntOK(i), NEW s \in BOOLEAN, NEW t, t = [i EXCEPT !.neg = s]
    PROVE  /\ IntOK(t) /\ t.m = i.m /\ t.d = i.d /\ t.h = i.h /\ t.neg = s /\ t.over = i.over
           /\ Magnitude(t) = Magnitude(i) /\ (Number(i) => Number(t))
  <1>1. i \in Ints(i.m) /\ Room(i.m)
    BY DEF IntOK
  <1>2. /\ t \in Ints(i.m) /\ t.m = i.m /\ t.d = i.d /\ t.h = i.h /\ t.neg = s /\ t.over = i.over
    BY <1>1 DEF Ints
  <1>3. IntOK(t)
    BY <1>1, <1>2 DEF IntOK
  <1>4. ASSUME Number(i) PROVE Number(t)
    <2>1. (i.d > 1 => i.h[i.d] # 0) /\ (i.d % 2 = 1 => i.h[i.d + 1] = 0)
      BY <1>4, NumberTop
    <2> QED
      BY <1>2, <1>3, <2>1, NumberIs
  <1> QED
    BY <1>2, <1>3, <1>4 DEF Magnitude

LEMMA SetI ==
    ASSUME NEW i, IntOK(i), NEW v \in Nat, v < Power(Base, 4), v < Power(Base, i.m)
    PROVE  /\ Holds(int_set_i(v, i), i.m, v) /\ ~int_set_i(v, i).neg
           /\ Holds(int_set_i(-v, i), i.m, v) /\ (v > 0 => int_set_i(-v, i).neg) /\ (v = 0 => ~int_set_i(-v, i).neg)
  <1>1. PICK u : u = int_set_u(v, i) /\ Holds(u, i.m, v)
    BY SetU
  <1>2. IntOK(u) /\ Number(u) /\ u.m = i.m /\ ~u.over /\ Magnitude(u) = v
    BY <1>1 DEF Holds, Number
  <1>3. (IF v < 0 THEN -v ELSE v) = v /\ (IF -v < 0 THEN -(-v) ELSE -v) = v /\ ~(v < 0)
    OBVIOUS
  <1>4. PICK o \in BOOLEAN : ~o
    <2>1. ~FALSE /\ FALSE \in BOOLEAN
      OBVIOUS
    <2> QED
      BY <2>1, Zenon
  <1> DEFINE t == [u EXCEPT !.neg = o]
  <1>5. int_set_i(v, i) = t
    <2>1. ~(v < 0)
      BY <1>3
    <2>2. (v < 0) = o
      BY <1>4, <2>1
    <2> QED
      BY <1>1, <1>3, <1>4, <2>2, Zenon DEF int_set_i
  <1> HIDE DEF t
  <1>6. Holds(t, i.m, v) /\ ~t.neg
    <2>1. t.m = u.m /\ t.neg = o /\ t.over = u.over /\ Magnitude(t) = Magnitude(u) /\ Number(t)
      BY <1>2, <1>4, SignAside DEF t
    <2> QED
      BY <1>2, <1>4, <2>1 DEF Holds
  <1>7. PICK s \in BOOLEAN : s = (-v < 0)
    <2>1. (-v < 0) \in BOOLEAN
      OBVIOUS
    <2> QED
      BY <2>1, Zenon
  <1>8. PICK w : w = [u EXCEPT !.neg = s]
    OBVIOUS
  <1>9. int_set_i(-v, i) = w
    BY <1>1, <1>3, <1>7, <1>8, Zenon DEF int_set_i
  <1>10. Holds(w, i.m, v) /\ w.neg = s
    BY <1>2, <1>8, SignAside DEF Holds
  <1>11. (v > 0 => s) /\ (v = 0 => ~s)
    <2>1. (v > 0 => -v < 0) /\ (v = 0 => ~(-v < 0))
      OBVIOUS
    <2> QED
      BY <1>7, <2>1, Zenon
  <1> QED
    BY <1>5, <1>6, <1>9, <1>10, <1>11

(* int_set_t copies a number that has room.                                *)
LEMMA SetT ==
    ASSUME NEW v, Number(v), NEW i, IntOK(i), v.d <= i.m
    PROVE  /\ Number(int_set_t(v, i)) /\ int_set_t(v, i).m = i.m /\ int_set_t(v, i).d = v.d
           /\ int_set_t(v, i).neg = v.neg /\ int_set_t(v, i).over = v.over
           /\ Magnitude(int_set_t(v, i)) = Magnitude(v)
  <1> DEFINE n == 2 * ((v.d + 1) \div 2)
             f == [k \in 0 .. n - 1 |-> Half(v, k)]
             set == Store(i, f)
             r == [set EXCEPT !.neg = v.neg, !.over = v.over, !.d = v.d]
  <1>1. /\ i.m \in Nat /\ i.m > 1 /\ i.m % 2 = 0 /\ IntOK(v)
        /\ v.m \in Nat /\ v.m % 2 = 0 /\ v.d \in 1 .. v.m /\ v.d \in Nat /\ v.h \in Halves(v.m)
        /\ v.neg \in BOOLEAN /\ v.over \in BOOLEAN
    BY IntFacts DEF Number
  <1>2. n \in Nat /\ n \in 1 .. i.m /\ n <= v.m /\ (v.d = n \/ v.d = n - 1) /\ n % 2 = 0
    <2>1. PICK d \in Nat, m \in Nat, u \in Nat : d = v.d /\ m = i.m /\ u = v.m
      BY <1>1
    <2>2. d \in 1 .. m /\ d \in 1 .. u /\ m % 2 = 0 /\ u % 2 = 0
      BY <1>1, <2>1
    <2>3. LET j == 2 * ((d + 1) \div 2)
          IN  j \in Nat /\ j \in 1 .. m /\ j <= u /\ (d = j \/ d = j - 1) /\ j % 2 = 0
      BY <2>2
    <2> QED
      BY <2>1, <2>3
  <1> HIDE DEF n
  <1>3. \A k \in 1 .. n : k - 1 \in DOMAIN f /\ f[k - 1] = v.h[k] /\ k \in 1 .. i.m /\ k \in 1 .. v.m
    <2> TAKE k \in 1 .. n
    <2>1. k - 1 \in 0 .. n - 1 /\ k - 1 + 1 = k /\ k \in 1 .. i.m /\ k \in 1 .. v.m
      BY <1>1, <1>2
    <2> QED
      BY <2>1 DEF Half
  <1>4. \A k \in 0 .. i.m - 1 : k \in DOMAIN f => f[k] \in 0 .. Base - 1
    <2> TAKE k \in 0 .. i.m - 1
    <2>1. ASSUME k \in 0 .. n - 1 PROVE v.h[k + 1] \in 0 .. Base - 1
      <3>1. k + 1 \in 1 .. v.m
        BY <1>1, <1>2, <2>1
      <3> QED
        BY <1>1, <3>1 DEF Halves
    <2> QED
      BY <2>1 DEF Half
  <1> HIDE DEF f
  <1>5. IntOK(set) /\ set.m = i.m /\ \A k \in 1 .. n : set.h[k] = v.h[k]
    BY <1>3, <1>4, StoreFacts
  <1>6. int_set_t(v, i) = r
    BY DEF int_set_t, n, f
  <1> HIDE DEF set
  <1>7. /\ IntOK(r) /\ r.m = i.m /\ r.h = set.h /\ r.d = v.d /\ r.over = v.over /\ r.neg = v.neg
    <2>1. set \in Ints(i.m) /\ Room(i.m)
      BY <1>5 DEF IntOK
    <2>2. v.d \in 1 .. i.m
      BY <1>1
    <2>3. r \in Ints(i.m) /\ r.m = i.m /\ r.h = set.h /\ r.d = v.d /\ r.over = v.over /\ r.neg = v.neg
      BY <1>1, <2>1, <2>2 DEF Ints
    <2> HIDE DEF r
    <2> QED
      BY <2>1, <2>3 DEF IntOK
  <1> HIDE DEF r
  <1>8. (v.d > 1 => v.h[v.d] # 0) /\ (v.d % 2 = 1 => v.h[v.d + 1] = 0)
    BY NumberTop
  <1>9. v.d \in 1 .. n /\ (v.d % 2 = 1 => v.d + 1 \in 1 .. n)
    BY <1>1, <1>2
  <1>10. Number(r)
    BY <1>5, <1>7, <1>8, <1>9, NumberIs
  <1>11. Magnitude(r) = Magnitude(v)
    <2>1. set.h \in Halves(i.m)
      BY <1>5, IntFacts
    <2>2. v.d \in 0 .. i.m /\ v.d <= v.m /\ \A k \in 1 .. v.d : set.h[k] = v.h[k]
      BY <1>1, <1>2, <1>5, <1>9
    <2> QED
      BY <1>1, <1>7, <2>1, <2>2, AmountSame DEF Magnitude
  <1> QED
    BY <1>6, <1>7, <1>10, <1>11

(* New Ints are zero.                                                      *)
LEMMA InitIs ==
    ASSUME NEW i, IntOK(i) PROVE Holds(int_init(i), i.m, 0) /\ ~int_init(i).neg
  <1> DEFINE f == [k \in 0 .. 1 |-> 0]
             set == Store(i, f)
             r == [set EXCEPT !.neg = FALSE, !.over = FALSE, !.d = 1]
  <1>1. i.m \in Nat /\ i.m > 1 /\ Base \in Nat /\ Base > 2
    BY IntFacts, BaseIs
  <1>2. \A k \in 0 .. i.m - 1 : k \in DOMAIN f => f[k] \in 0 .. Base - 1
    BY <1>1
  <1>3. 1 \in 1 .. i.m /\ 2 \in 1 .. i.m /\ 1 - 1 \in DOMAIN f /\ 2 - 1 \in DOMAIN f /\ f[1 - 1] = 0 /\ f[2 - 1] = 0
    BY <1>1
  <1> HIDE DEF f
  <1>4. IntOK(set) /\ set.m = i.m /\ set.h[1] = 0 /\ set.h[2] = 0
    BY <1>2, <1>3, StoreFacts
  <1>5. int_init(i) = r
    BY DEF int_init, f
  <1> HIDE DEF set
  <1>6. /\ IntOK(r) /\ r.m = i.m /\ r.h = set.h /\ r.d = 1 /\ ~r.over /\ ~r.neg
    <2>1. set \in Ints(i.m) /\ Room(i.m)
      BY <1>4 DEF IntOK
    <2>2. r \in Ints(i.m) /\ r.m = i.m /\ r.h = set.h /\ r.d = 1 /\ ~r.over /\ ~r.neg
      BY <1>1, <1>3, <2>1 DEF Ints
    <2> HIDE DEF r
    <2> QED
      BY <2>1, <2>2 DEF IntOK
  <1> HIDE DEF r
  <1>7. Number(r)
    <2>1. 1 % 2 = 1 /\ 1 + 1 = 2 /\ ~(1 > 1)
      OBVIOUS
    <2> QED
      BY <1>4, <1>6, <2>1, NumberIs
  <1>8. int_is_zero(r)
    BY <1>4, <1>6 DEF int_is_zero, Half
  <1> QED
    BY <1>5, <1>6, <1>7, <1>8, ZeroIs DEF Holds

LEMMA MemoryIs ==
    ASSUME NEW m, Room(m), NEW fill \in 0 .. Base - 1
    PROVE  IntOK(Memory(m, fill)) /\ Memory(m, fill).m = m
  BY DEF Memory, IntOK, Ints, Halves, Room

LEMMA ConcreteIs == Holds(Concrete254, MaxDigits, 0) /\ ~Concrete254.neg /\ IntOK(Concrete254) /\ Room(MaxDigits)
  <1>1. Room(MaxDigits) /\ Junk \in 0 .. Base - 1
    BY BigIntAssumption DEF Room
  <1>2. IntOK(Memory(MaxDigits, Junk)) /\ Memory(MaxDigits, Junk).m = MaxDigits
    BY <1>1, MemoryIs
  <1>3. Holds(Concrete254, MaxDigits, 0) /\ ~Concrete254.neg
    BY <1>2, InitIs DEF Concrete254
  <1> QED
    BY <1>1, <1>3 DEF Holds, Number

Rounded(digits) == IF digits > 2 THEN digits + (digits % 2) ELSE 2

LEMMA AllocateIs ==
    ASSUME NEW digits \in Nat
    PROVE  /\ Room(Rounded(digits)) /\ digits <= Rounded(digits)
           /\ Holds(AllocateInt(digits), Rounded(digits), 0) /\ ~AllocateInt(digits).neg
  <1>1. Room(Rounded(digits)) /\ digits <= Rounded(digits)
    BY DEF Room, Rounded
  <1>2. 0 \in 0 .. Base - 1
    BY BaseIs
  <1>3. IntOK(Memory(Rounded(digits), 0)) /\ Memory(Rounded(digits), 0).m = Rounded(digits)
    BY <1>1, <1>2, MemoryIs
  <1> QED
    BY <1>1, <1>3, InitIs DEF AllocateInt, Rounded

-----------------------------------------------------------------------------
(* Conversion to the integers of C.                                        *)
LEMMA Shortest ==
    ASSUME NEW i, Number(i), NEW k \in Nat, k > 0, Magnitude(i) < Power(Base, k)
    PROVE  i.d <= k
  <1> SUFFICES ASSUME i.d > k PROVE FALSE
    <2>1. i.d \in Nat
      BY IntFacts DEF Number
    <2> QED
      BY <2>1
  <1>1. i.d \in Nat /\ i.d > 1 /\ i.d - 1 \in Nat /\ k <= i.d - 1
    BY IntFacts DEF Number
  <1>2. Power(Base, i.d - 1) <= Magnitude(i) /\ Magnitude(i) \in Nat
    BY <1>1, MagnitudeLeast, MagnitudeIs DEF Number
  <1>3. Power(Base, k) <= Power(Base, i.d - 1)
    BY <1>1, BaseIs, PowerGrows
  <1>4. Power(Base, k) \in Nat /\ Power(Base, i.d - 1) \in Nat
    BY <1>1, BasePower
  <1> QED
    BY <1>2, <1>3, <1>4

LEMMA WordIs ==
    ASSUME NEW i, Number(i)
    PROVE  /\ Word(i, 0) \in Nat /\ Word(i, 0) < Power(Base, 2)
           /\ i.d <= 2 => Word(i, 0) = Magnitude(i)
           /\ i.d \in 3 .. 4 => Word(i, 0) + Power(Base, 2) * Word(i, 1) = Magnitude(i)
  <1>1. IntOK(i) /\ i.m \in Nat /\ i.m > 1 /\ i.m % 2 = 0 /\ i.d \in 1 .. i.m /\ i.h \in Halves(i.m) /\ i.d \in Nat
    BY IntFacts DEF Number
  <1>2. 0 \in Nat /\ 2 * 0 + 2 <= i.m /\ 2 * 0 = 0 /\ 2 * 0 + 2 = 2
    BY <1>1
  <1>3. /\ Word(i, 0) \in Nat /\ Word(i, 0) < Power(Base, 2)
        /\ Amount(i.h)[2 * 0 + 2] = Amount(i.h)[2 * 0] + Word(i, 0) * Power(Base, 2 * 0)
    BY <1>1, <1>2, AmountOfWord
  <1>4. Amount(i.h)[2] = Word(i, 0)
    <2>1. Amount(i.h)[0] = 0 /\ Power(Base, 0) = 1
      BY <1>1, AmountIs, SmallPowers
    <2>2. Amount(i.h)[2] = 0 + Word(i, 0) * 1
      BY <1>2, <1>3, <2>1
    <2> QED
      BY <1>3, <2>2
  <1>5. ASSUME i.d <= 2 PROVE Word(i, 0) = Magnitude(i)
    <2>1. 1 \in Nat /\ 1 = (i.d + 1) \div 2 /\ 2 * 1 = 2
      BY <1>1, <1>5
    <2>2. Amount(i.h)[2 * 1] = Magnitude(i)
      BY <2>1, WordsHold
    <2> QED
      BY <1>4, <2>1, <2>2
  <1>6. ASSUME i.d \in 3 .. 4 PROVE Word(i, 0) + Power(Base, 2) * Word(i, 1) = Magnitude(i)
    <2>1. 2 \in Nat /\ 2 = (i.d + 1) \div 2 /\ 2 * 2 = 4
      BY <1>1, <1>6
    <2>2. Amount(i.h)[2 * 2] = Magnitude(i) /\ 2 * 2 <= i.m
      BY <2>1, WordsHold
    <2>3. 1 \in Nat /\ 2 * 1 + 2 <= i.m /\ 2 * 1 = 2 /\ 2 * 1 + 2 = 4
      BY <1>1, <2>2
    <2>4. /\ Word(i, 1) \in Nat
          /\ Amount(i.h)[2 * 1 + 2] = Amount(i.h)[2 * 1] + Word(i, 1) * Power(Base, 2 * 1)
      BY <1>1, <2>3, AmountOfWord
    <2>5. PICK p \in Nat, w \in Nat, u \in Nat : p = Power(Base, 2) /\ w = Word(i, 1) /\ u = Word(i, 0)
      BY <1>3, <2>4, BasePower
    <2>6. Magnitude(i) = u + w * p
      BY <1>4, <2>1, <2>2, <2>3, <2>4, <2>5
    <2>7. u + p * w = u + w * p
      OBVIOUS
    <2> QED
      BY <2>5, <2>6, <2>7
  <1> QED
    BY <1>3, <1>5, <1>6

LEMMA Low64Is ==
    ASSUME NEW i, Number(i), Magnitude(i) < Power(Base, 4) PROVE Low64(i) = Magnitude(i)
  <1>1. i.d \in Nat /\ i.d <= 4 /\ i.d >= 1
    <2>1. i.d <= 4
      BY Shortest
    <2> QED
      BY <2>1, IntFacts DEF Number
  <1>2. Magnitude(i) \in Nat
    BY MagnitudeIs DEF Number
  <1>3. CASE i.d <= 2
    <2>1. Low64(i) = Magnitude(i) + 0
      BY <1>1, <1>3, WordIs DEF Low64
    <2> QED
      BY <1>2, <2>1
  <1>4. CASE i.d > 2
    BY <1>1, <1>4, WordIs DEF Low64
  <1> QED
    BY <1>1, <1>3, <1>4

LEMMA HalfRange ==
    /\ Power(Base, 2) \in Nat /\ 2 * (Power(Base, 2) \div 2) = Power(Base, 2) /\ Power(Base, 2) \div 2 \in Nat
    /\ Power(Base, 4) \in Nat /\ 2 * (Power(Base, 4) \div 2) = Power(Base, 4) /\ Power(Base, 4) \div 2 \in Nat
    /\ Power(Base, 2) > 0 /\ Power(Base, 4) > 0
  <1>1. PICK c \in Nat : Base = 2 * c /\ c > 0
    <2>1. Base \in Nat /\ Base > 2 /\ Base = 2 * (Base \div 2) /\ Base \div 2 \in Nat
      BY BaseIs
    <2>2. Base \div 2 > 0
      BY <2>1
    <2> QED
      BY <2>1, <2>2
  <1>2. PICK e \in Nat : Power(Base, 2) = 2 * e /\ e > 0
    <2>1. Power(Base, 2) = (2 * c) * (2 * c)
      BY <1>1, SmallPowers
    <2>2. (2 * c) * (2 * c) = 2 * (2 * (c * c)) /\ 2 * (c * c) \in Nat /\ 2 * (c * c) > 0
      BY <1>1
    <2> QED
      BY <2>1, <2>2
  <1>3. PICK g \in Nat : Power(Base, 4) = 2 * g /\ g > 0
    <2>1. Power(Base, 4) = (2 * e) * (2 * e)
      BY <1>2, SmallPowers
    <2>2. (2 * e) * (2 * e) = 2 * (2 * (e * e)) /\ 2 * (e * e) \in Nat /\ 2 * (e * e) > 0
      BY <1>2
    <2> QED
      BY <2>1, <2>2
  <1> QED
    BY <1>2, <1>3

(* int_to_i32, int_to_u32, int_to_i64 and int_to_u64 give the number when  *)
(* it is in the range of the C type.                                       *)
THEOREM Conversions ==
    ASSUME NEW i, Number(i), NEW i32, NEW i64, i32 = Power(Base, 2) \div 2, i64 = Power(Base, 4) \div 2
    PROVE  /\ Val(i) \in -i32 .. i32 - 1 => int_to_i32(i) = Val(i)
           /\ Val(i) \in 0 .. 2 * i32 - 1 => int_to_u32(i) = Val(i)
           /\ Val(i) \in -i64 .. i64 - 1 => int_to_i64(i) = Val(i)
           /\ Val(i) \in 0 .. 2 * i64 - 1 => int_to_u64(i) = Val(i)
  <1>1. PICK x \in Nat : x = Magnitude(i)
    BY MagnitudeIs DEF Number
  <1>2. /\ i32 \in Nat /\ i64 \in Nat /\ i32 > 0 /\ i64 > 0
        /\ Power(Base, 2) = 2 * i32 /\ Power(Base, 4) = 2 * i64
    BY HalfRange
  <1>3. i.neg \in BOOLEAN /\ Val(i) = IF i.neg THEN -x ELSE x
    BY <1>1, IntFacts DEF Val, Number
  <1>4. x < 2 * i32 => Word(i, 0) = x
    <2> SUFFICES ASSUME x < 2 * i32 PROVE Word(i, 0) = x
      OBVIOUS
    <2>1. i.d <= 2
      BY <1>1, <1>2, Shortest
    <2> QED
      BY <1>1, <2>1, WordIs
  <1>5. x < 2 * i64 => Low64(i) = x
    BY <1>1, <1>2, Low64Is
  <1>6. ASSUME Val(i) \in -i32 .. i32 - 1 PROVE int_to_i32(i) = Val(i)
    <2>1. int_to_i32(i) = IF i.neg THEN -Min({Word(i, 0), i32}) ELSE Min({Word(i, 0), i32 - 1})
      BY DEF int_to_i32
    <2>2. CASE i.neg
      <3>1. x <= i32 /\ x < 2 * i32
        BY <1>2, <1>3, <1>6, <2>2
      <3>2. Min({x, i32}) = x
        BY <1>2, <3>1, MinOfTwo
      <3> QED
        BY <1>3, <1>4, <2>1, <2>2, <3>1, <3>2
    <2>3. CASE ~i.neg
      <3>1. x <= i32 - 1 /\ x < 2 * i32 /\ i32 - 1 \in Int
        BY <1>2, <1>3, <1>6, <2>3
      <3>2. Min({x, i32 - 1}) = x
        BY <3>1, MinOfTwo
      <3> QED
        BY <1>3, <1>4, <2>1, <2>3, <3>1, <3>2
    <2> QED
      BY <2>2, <2>3
  <1>7. ASSUME Val(i) \in 0 .. 2 * i32 - 1 PROVE int_to_u32(i) = Val(i)
    <2>1. Val(i) = x /\ x < 2 * i32
      BY <1>2, <1>3, <1>7
    <2> QED
      BY <1>4, <2>1 DEF int_to_u32
  <1>8. ASSUME Val(i) \in -i64 .. i64 - 1 PROVE int_to_i64(i) = Val(i)
    <2>1. x <= i64 /\ x < 2 * i64
      BY <1>2, <1>3, <1>8
    <2>2. int_to_i64(i) = IF i.neg THEN (IF 2 * x >= 2 * i64 THEN -i64 ELSE -x) ELSE x % i64
      <3> HIDE DEF Low64
      <3> QED
        BY <1>2, <1>5, <2>1 DEF int_to_i64
    <2>3. CASE i.neg
      BY <1>2, <1>3, <2>1, <2>2, <2>3
    <2>4. CASE ~i.neg
      <3>1. x < i64
        BY <1>2, <1>3, <1>8, <2>4
      <3>2. x % i64 = x
        BY <1>2, <3>1
      <3> QED
        BY <1>3, <2>2, <2>4, <3>2
    <2> QED
      BY <2>3, <2>4
  <1>9. ASSUME Val(i) \in 0 .. 2 * i64 - 1 PROVE int_to_u64(i) = Val(i)
    <2>1. Val(i) = x /\ x < 2 * i64 /\ (i.neg => x = 0)
      BY <1>2, <1>3, <1>9
    <2> QED
      BY <1>5, <2>1 DEF int_to_u64
  <1> QED
    BY <1>6, <1>7, <1>8, <1>9

(* int_is_range places a number below, in or above a symmetric range.      *)
THEOREM Ranges ==
    ASSUME NEW i, Number(i), NEW y \in Nat, y < Power(Base, 4)
    PROVE  int_is_range(i, -y, y) = IF Val(i) < -y THEN "BELOW" ELSE IF Val(i) <= y THEN "WITHIN" ELSE "ABOVE"
  <1>1. y < Power(Base, Concrete254.m) /\ IntOK(Concrete254)
    <2>1. Concrete254.m = MaxDigits /\ IntOK(Concrete254) /\ MaxDigits \in Nat /\ 4 \in Nat /\ 4 <= MaxDigits
      BY ConcreteIs, BigIntAssumption DEF Holds
    <2>2. Base \in Nat /\ Base > 0
      BY BaseIs
    <2>3. Power(Base, 4) <= Power(Base, MaxDigits) /\ Power(Base, 4) \in Nat /\ Power(Base, MaxDigits) \in Nat
      BY <2>1, <2>2, PowerGrows, BasePower
    <2> QED
      BY <2>1, <2>3
  <1>2. PICK u, l : u = int_set_u(y, Concrete254) /\ l = int_set_i(-y, Concrete254)
    OBVIOUS
  <1>3. Holds(u, Concrete254.m, y) /\ ~u.neg
    BY <1>1, <1>2, SetU
  <1>4. Holds(l, Concrete254.m, y) /\ (y > 0 => l.neg) /\ (y = 0 => ~l.neg)
    BY <1>1, <1>2, SetI
  <1>5. Number(u) /\ Number(l) /\ Val(u) = y /\ Val(l) = -y
    <2>1. Number(u) /\ Number(l) /\ Magnitude(u) = y /\ Magnitude(l) = y
      BY <1>3, <1>4 DEF Holds
    <2>2. Val(u) = y
      BY <1>3, <2>1 DEF Val
    <2>3. Val(l) = -y
      BY <1>4, <2>1 DEF Val
    <2> QED
      BY <2>1, <2>2, <2>3
  <1>6. int_is(i, u) = Order(Val(i), y) /\ int_is(i, l) = Order(Val(i), -y)
    BY <1>5, Compare
  <1>7. Val(i) \in Int
    BY MagnitudeIs DEF Val, Number
  <1> QED
    BY <1>2, <1>6, <1>7 DEF int_is_range, Order

-----------------------------------------------------------------------------
(* Addition and subtraction of magnitudes.                                 *)
LEMMA DigitIs ==
    ASSUME NEW i, IntOK(i), NEW k \in Nat PROVE Digit(i, k) \in Nat /\ Digit(i, k) < Base
  <1>1. i.m \in Nat /\ i.h \in Halves(i.m) /\ i.d \in 1 .. i.m /\ Base > 2 /\ Base \in Nat
    BY IntFacts, BaseIs
  <1>2. CASE k < i.d
    <2>1. k + 1 \in 1 .. i.m
      BY <1>1, <1>2
    <2> QED
      BY <1>1, <1>2, <2>1, HalfIs DEF Digit, Half
  <1>3. CASE ~(k < i.d)
    BY <1>1, <1>3 DEF Digit
  <1> QED
    BY <1>2, <1>3

Digits(i, n) == [k \in 1 .. n |-> Digit(i, k - 1)]

LEMMA DigitsAre ==
    ASSUME NEW i, IntOK(i), NEW n \in Nat, i.d <= n
    PROVE  /\ Digits(i, n) \in Halves(n) /\ Amount(Digits(i, n))[n] = Magnitude(i)
           /\ \A k \in 1 .. n : Digits(i, n)[k] = Digit(i, k - 1)
  <1>1. \A k \in 1 .. n : Digits(i, n)[k] = Digit(i, k - 1)
    BY DEF Digits
  <1>2. Digits(i, n) \in Halves(n)
    <2>1. ASSUME NEW k \in 1 .. n PROVE Digit(i, k - 1) \in 0 .. Base - 1
      <3>1. k - 1 \in Nat /\ Base \in Nat
        BY BaseIs
      <3>2. Digit(i, k - 1) \in Nat /\ Digit(i, k - 1) < Base
        BY <3>1, DigitIs
      <3> QED
        BY <3>1, <3>2
    <2> QED
      BY <2>1 DEF Digits, Halves
  <1>3. i.m \in Nat /\ i.h \in Halves(i.m) /\ i.d \in 1 .. i.m /\ i.d \in Nat
    BY IntFacts
  <1>4. PICK g : g = Digits(i, n)
    OBVIOUS
  <1>5. Amount(g)[i.d] = Magnitude(i)
    <2>1. ASSUME NEW k \in 1 .. i.d PROVE g[k] = i.h[k]
      <3>1. k \in 1 .. n /\ k - 1 < i.d /\ k - 1 + 1 = k
        BY <1>3
      <3> QED
        BY <1>1, <1>4, <3>1 DEF Digit, Half
    <2>2. i.d \in 0 .. n /\ i.d <= i.m
      BY <1>3
    <2> QED
      BY <1>2, <1>3, <1>4, <2>1, <2>2, AmountSame DEF Magnitude
  <1>6. Amount(g)[n] = Amount(g)[i.d]
    <2>1. ASSUME NEW k \in i.d + 1 .. n PROVE g[k] = 0
      <3>1. k \in 1 .. n /\ ~(k - 1 < i.d)
        BY <1>3
      <3> QED
        BY <1>1, <1>4, <3>1 DEF Digit
    <2>2. i.d \in 0 .. n /\ n \in i.d .. n
      BY <1>3
    <2> QED
      BY <1>2, <1>4, <2>1, <2>2, AmountZeros
  <1> QED
    BY <1>1, <1>2, <1>4, <1>5, <1>6

LEMMA CarryIs ==
    ASSUME NEW x, NEW y, IntOK(x), IntOK(y)
    PROVE  /\ Carry(x, y)[0] = 0
           /\ \A k \in Nat : /\ Carry(x, y)[k] \in 0 .. 1
                             /\ Carry(x, y)[k + 1] = (Digit(x, k) + Digit(y, k) + Carry(x, y)[k]) \div Base
  <1> DEFINE D(k) == Digit(x, k) + Digit(y, k)
             step == [ks \in (Nat \ {0}) \X Nat |-> (D(ks[1] - 1) + ks[2]) \div Base]
             body(p) == [k \in Nat |-> IF k = 0 THEN 0 ELSE (Digit(x, k - 1) + Digit(y, k - 1) + p[k - 1]) \div Base]
  <1>1. \A k \in Nat : D(k) \in Nat /\ D(k) <= 2 * Base - 2
    <2> TAKE k \in Nat
    <2>1. PICK u \in Nat, v \in Nat : u = Digit(x, k) /\ v = Digit(y, k) /\ u < Base /\ v < Base
      BY DigitIs
    <2> QED
      BY <2>1, BaseIs
  <1> HIDE DEF D
  <1>2. \A k \in Nat \ {0}, c \in Nat : step[<<k, c>>] = (D(k - 1) + c) \div Base
    OBVIOUS
  <1>3. Step(step, Nat)
    <2>1. ASSUME NEW ks \in (Nat \ {0}) \X Nat PROVE (D(ks[1] - 1) + ks[2]) \div Base \in Nat
      <3>1. ks[1] - 1 \in Nat /\ ks[2] \in Nat
        OBVIOUS
      <3>2. PICK z \in Nat : z = D(ks[1] - 1) + ks[2]
        BY <1>1, <3>1
      <3>3. z \div Base \in Nat
        BY BaseIs
      <3> QED
        BY <3>2, <3>3
    <2> QED
      BY <2>1 DEF Step
  <1> HIDE DEF step
  <1>4. PICK f : FollowsAll(f, Nat, 0, step)
    <2>1. 0 \in Nat
      OBVIOUS
    <2> QED
      BY <1>3, <2>1, Recursion
  <1>5. f \in [Nat -> Nat] /\ f[0] = 0
    BY <1>4 DEF FollowsAll
  <1>6. f = body(f)
    <2>1. ASSUME NEW k \in Nat \ {0} PROVE f[k] = (Digit(x, k - 1) + Digit(y, k - 1) + f[k - 1]) \div Base
      <3>1. k - 1 \in Nat
        OBVIOUS
      <3>2. f[k - 1] \in Nat
        BY <1>5, <3>1
      <3> QED
        BY <1>2, <1>4, <3>2 DEF FollowsAll, D
    <2> QED
      BY <1>5, <2>1
  <1>7. PICK c : c = CHOOSE q : q = body(q)
    OBVIOUS
  <1>8. c = body(c)
    BY <1>6, <1>7
  <1>9. Carry(x, y) = c
    BY <1>7 DEF Carry
  <1>10. c[0] = 0 /\ \A k \in Nat : c[k + 1] = (D(k) + c[k]) \div Base
    <2>1. \A j \in Nat : c[j] = IF j = 0 THEN 0 ELSE (Digit(x, j - 1) + Digit(y, j - 1) + c[j - 1]) \div Base
      BY <1>8
    <2>2. \A k \in Nat : k + 1 \in Nat /\ k + 1 # 0 /\ (k + 1) - 1 = k
      OBVIOUS
    <2> HIDE <1>8
    <2> QED
      BY <2>1, <2>2 DEF D
  <1>11. \A k \in Nat : c[k] \in 0 .. 1
    <2> DEFINE S == {k \in Nat : c[k] \in 0 .. 1}
    <2>1. 0 \in S
      BY <1>10
    <2>2. ASSUME NEW k \in Nat, k \in S PROVE k + 1 \in S
      <3>1. PICK d \in Nat, e \in Nat : d = D(k) /\ e = c[k] /\ d <= 2 * Base - 2 /\ e <= 1
        BY <1>1, <2>2
      <3>2. (d + e) \div Base \in 0 .. 1
        <4>1. PICK q \in Nat, r \in Nat : q = (d + e) \div Base /\ d + e = Base * q + r
          BY BaseIs
        <4>2. q < 2
          <5> SUFFICES ASSUME q >= 2 PROVE FALSE
            OBVIOUS
          <5>1. Base * q >= Base * 2
            <6>1. q - 2 \in Nat /\ Base * q = Base * 2 + Base * (q - 2) /\ Base * (q - 2) \in Nat
              BY BaseIs
            <6> QED
              BY <6>1, BaseIs
          <5> QED
            BY <3>1, <4>1, <5>1, BaseIs
        <4> QED
          BY <4>1, <4>2
      <3> QED
        BY <1>10, <3>1, <3>2
    <2> HIDE DEF S
    <2>3. \A k \in Nat : k \in S
      BY <2>1, <2>2, Induction
    <2> QED
      BY <2>3 DEF S
  <1> QED
    BY <1>9, <1>10, <1>11 DEF D

LEMMA BorrowIs ==
    ASSUME NEW x, NEW y
    PROVE  /\ Borrow(x, y)[0] = 0
           /\ \A k \in Nat : /\ Borrow(x, y)[k] \in 0 .. 1
                             /\ Borrow(x, y)[k + 1] = IF Digit(y, k) + Borrow(x, y)[k] > Digit(x, k) THEN 1 ELSE 0
  <1> DEFINE step == [ks \in (Nat \ {0}) \X (0 .. 1) |-> IF Digit(y, ks[1] - 1) + ks[2] > Digit(x, ks[1] - 1) THEN 1 ELSE 0]
             body(p) == [k \in Nat |-> IF k > 0 /\ Digit(y, k - 1) + p[k - 1] > Digit(x, k - 1) THEN 1 ELSE 0]
  <1>1. \A k \in Nat \ {0}, c \in 0 .. 1 :
          step[<<k, c>>] = IF Digit(y, k - 1) + c > Digit(x, k - 1) THEN 1 ELSE 0
    OBVIOUS
  <1>2. Step(step, 0 .. 1)
    BY DEF Step
  <1> HIDE DEF step
  <1>3. PICK f : FollowsAll(f, 0 .. 1, 0, step)
    <2>1. 0 \in 0 .. 1
      OBVIOUS
    <2> QED
      BY <1>2, <2>1, Recursion
  <1>4. f \in [Nat -> 0 .. 1] /\ f[0] = 0
    BY <1>3 DEF FollowsAll
  <1>5. f = body(f)
    <2>1. ASSUME NEW k \in Nat \ {0}
          PROVE  f[k] = IF k > 0 /\ Digit(y, k - 1) + f[k - 1] > Digit(x, k - 1) THEN 1 ELSE 0
      <3>1. k - 1 \in Nat
        OBVIOUS
      <3>2. f[k - 1] \in 0 .. 1
        BY <1>4, <3>1
      <3>3. f[k] = step[<<k, f[k - 1]>>]
        BY <1>3 DEF FollowsAll
      <3>4. f[k] = IF Digit(y, k - 1) + f[k - 1] > Digit(x, k - 1) THEN 1 ELSE 0
        BY <1>1, <3>2, <3>3
      <3>5. k > 0
        OBVIOUS
      <3> QED
        BY <3>4, <3>5
    <2> QED
      BY <1>4, <2>1
  <1>6. PICK c : c = CHOOSE q : q = body(q)
    OBVIOUS
  <1>7. c = body(c)
    BY <1>5, <1>6
  <1>8. Borrow(x, y) = c
    BY <1>6 DEF Borrow
  <1>9. \A j \in Nat : c[j] = IF j > 0 /\ Digit(y, j - 1) + c[j - 1] > Digit(x, j - 1) THEN 1 ELSE 0
    BY <1>7
  <1>10. \A k \in Nat : k + 1 \in Nat /\ k + 1 > 0 /\ (k + 1) - 1 = k
    OBVIOUS
  <1> HIDE <1>7
  <1> QED
    BY <1>8, <1>9, <1>10

Column(x, y, k) == Digit(x, k) + Digit(y, k) + Carry(x, y)[k]

LEMMA ColumnIs ==
    ASSUME NEW x, NEW y, IntOK(x), IntOK(y), NEW k \in Nat
    PROVE  /\ Column(x, y, k) \in Nat /\ Column(x, y, k) % Base \in 0 .. Base - 1
           /\ Carry(x, y)[k] \in 0 .. 1
           /\ Column(x, y, k) = Base * Carry(x, y)[k + 1] + (Column(x, y, k) % Base)
  <1>1. PICK u \in Nat, v \in Nat, c \in 0 .. 1 : u = Digit(x, k) /\ v = Digit(y, k) /\ c = Carry(x, y)[k]
    BY DigitIs, CarryIs
  <1>2. PICK z \in Nat : z = Column(x, y, k) /\ z = u + v + c
    BY <1>1 DEF Column
  <1>3. Carry(x, y)[k + 1] = z \div Base
    BY <1>1, <1>2, CarryIs
  <1>4. Base \in Nat /\ Base > 2
    BY BaseIs
  <1>5. z \div Base \in Nat /\ z % Base \in Nat /\ z % Base < Base /\ z = Base * (z \div Base) + (z % Base)
    BY <1>4, DivFacts
  <1> QED
    BY <1>1, <1>2, <1>3, <1>4, <1>5

(* The digits and carries of a sum.                                        *)
LEMMA SumOfDigits ==
    ASSUME NEW x, NEW y, IntOK(x), IntOK(y), NEW n \in Nat, x.d <= n, y.d <= n,
           NEW m \in Nat, n <= m, NEW g \in Halves(m), \A k \in 1 .. n : g[k] = Column(x, y, k - 1) % Base
    PROVE  Magnitude(x) + Magnitude(y) = Amount(g)[n] + Carry(x, y)[n] * Power(Base, n)
  <1> DEFINE X == Digits(x, n)
             Y == Digits(y, n)
             S == {k \in 0 .. n : Amount(X)[k] + Amount(Y)[k] = Amount(g)[k] + Carry(x, y)[k] * Power(Base, k)}
  <1>1. /\ X \in Halves(n) /\ Amount(X)[n] = Magnitude(x) /\ \A k \in 1 .. n : X[k] = Digit(x, k - 1)
        /\ Y \in Halves(n) /\ Amount(Y)[n] = Magnitude(y) /\ \A k \in 1 .. n : Y[k] = Digit(y, k - 1)
    BY DigitsAre
  <1> HIDE DEF X, Y
  <1>2. 0 \in S
    <2>1. Amount(X)[0] = 0 /\ Amount(Y)[0] = 0 /\ Amount(g)[0] = 0 /\ Carry(x, y)[0] = 0 /\ Power(Base, 0) = 1
      BY <1>1, AmountIs, CarryIs, SmallPowers
    <2> QED
      BY <2>1
  <1>3. ASSUME NEW k \in 0 .. n - 1, k \in S PROVE k + 1 \in S
    <2>1. k \in Nat /\ k + 1 \in 1 .. n /\ k \in 0 .. m - 1 /\ k \in 0 .. n /\ k \in 0 .. m /\ (k + 1) - 1 = k /\ k + 1 \in 0 .. n
      OBVIOUS
    <2>2. PICK u \in Nat, v \in Nat, c \in Nat, e \in Nat :
            u = Digit(x, k) /\ v = Digit(y, k) /\ c = Carry(x, y)[k] /\ e = Carry(x, y)[k + 1]
      <3>1. k + 1 \in Nat
        BY <2>1
      <3>2. Digit(x, k) \in Nat /\ Digit(y, k) \in Nat
        BY <2>1, DigitIs
      <3>3. Carry(x, y)[k] \in Nat /\ Carry(x, y)[k + 1] \in Nat
        BY <2>1, <3>1, CarryIs
      <3> QED
        BY <3>2, <3>3
    <2>3. PICK w \in Nat : w = g[k + 1] /\ u + v + c = Base * e + w
      <3>1. g[k + 1] = Column(x, y, k) % Base
        BY <2>1
      <3>2. Column(x, y, k) = u + v + c
        BY <2>2 DEF Column
      <3>3. Column(x, y, k) % Base \in Nat /\ Column(x, y, k) = Base * e + (Column(x, y, k) % Base)
        BY <2>1, <2>2, ColumnIs, BaseIs
      <3> QED
        BY <3>1, <3>2, <3>3
    <2>4. PICK p \in Nat, s \in Nat, t \in Nat, z \in Nat :
            p = Power(Base, k) /\ s = Amount(X)[k] /\ t = Amount(Y)[k] /\ z = Amount(g)[k]
      BY <1>1, <2>1, BasePower, AmountIs
    <2>5. /\ Amount(X)[k + 1] = s + u * p /\ Amount(Y)[k + 1] = t + v * p
          /\ Amount(g)[k + 1] = z + w * p /\ Power(Base, k + 1) = Base * p
      <3>1. X[k + 1] = u /\ Y[k + 1] = v
        BY <1>1, <2>1, <2>2
      <3>2. Amount(X)[k + 1] = Amount(X)[k] + X[k + 1] * Power(Base, k)
        BY <1>1, AmountIs
      <3>3. Amount(Y)[k + 1] = Amount(Y)[k] + Y[k + 1] * Power(Base, k)
        BY <1>1, AmountIs
      <3>4. Amount(g)[k + 1] = Amount(g)[k] + g[k + 1] * Power(Base, k)
        BY <2>1, AmountIs
      <3> QED
        BY <2>1, <2>3, <2>4, <3>1, <3>2, <3>3, <3>4, BasePower
    <2>6. s + t = z + c * p
      BY <1>3, <2>2, <2>4
    <2>7. (u + v + c) * p = (Base * e + w) * p
      BY <2>3
    <2>8. /\ (u + v + c) * p = u * p + v * p + c * p
          /\ (Base * e + w) * p = e * (Base * p) + w * p
      BY BaseIs
    <2>9. (s + u * p) + (t + v * p) = (z + w * p) + e * (Base * p)
      <3>1. PICK up \in Nat, vp \in Nat, cp \in Nat, ep \in Nat, wp \in Nat :
              up = u * p /\ vp = v * p /\ cp = c * p /\ ep = e * (Base * p) /\ wp = w * p
        BY BaseIs
      <3>2. up + vp + cp = ep + wp /\ s + t = z + cp
        BY <2>6, <2>7, <2>8, <3>1
      <3>3. (s + up) + (t + vp) = (z + wp) + ep
        BY <3>2
      <3> QED
        BY <3>1, <3>3
    <2> QED
      BY <2>1, <2>2, <2>5, <2>9
  <1> HIDE DEF S
  <1>4. n \in S
    <2>1. n \in 0 .. n
      OBVIOUS
    <2> QED
      BY <1>2, <1>3, <2>1, InductionTo
  <1> QED
    BY <1>1, <1>4 DEF S

(* What addPos leaves, in each of its cases.                               *)
AddFacts(x, y, r, s, n, c) ==
    /\ IntOK(s) /\ s.m = r.m /\ s.neg = r.neg /\ (r.over => s.over)
    /\ n < r.m => /\ s.d = n + c /\ s.h[n + 1] = c /\ s.over = r.over
                  /\ c = 1 /\ n + 2 <= r.m => s.h[n + 2] = 0
                  /\ \A k \in 1 .. n : s.h[k] = Column(x, y, k - 1) % Base
    /\ ~(n < r.m) /\ (\A k \in r.m .. n - 1 : Column(x, y, k) = 0) =>
         /\ s.d = r.m /\ (c = 1 => s.over) /\ (c = 0 => s.over = r.over)
         /\ \A k \in 1 .. r.m : s.h[k] = Column(x, y, k - 1) % Base
    /\ (\E k \in r.m .. n - 1 : Column(x, y, k) # 0) => s.over

LEMMA AddCases ==
    ASSUME NEW x, NEW y, NEW r, IntOK(x), IntOK(y), IntOK(r),
           NEW n \in Nat, n = Max({x.d, y.d}), NEW c \in 0 .. 1, c = Carry(x, y)[n]
    PROVE  AddFacts(x, y, r, addPos(x, y, r), n, c) /\ n > 0
  <1> DEFINE f == [k \in 0 .. n - 1 |-> Column(x, y, k) % Base]
             sum == Store(r, f)
             e == [k \in n .. n + c |-> IF k = n THEN c ELSE 0]
             more == Store(sum, e)
             noRoom == \E k \in r.m .. n - 1 : Column(x, y, k) # 0
             s == CASE noRoom -> [sum EXCEPT !.over = TRUE]
                    [] n < r.m -> [more EXCEPT !.d = n + c]
                    [] OTHER -> [sum EXCEPT !.over = @ \/ c > 0, !.d = r.m]
  <1>1. /\ r.m \in Nat /\ r.m > 1 /\ r.d \in 1 .. r.m /\ r.neg \in BOOLEAN /\ r.over \in BOOLEAN
        /\ Base \in Nat /\ Base > 2
    BY IntFacts, BaseIs
  <1>2. n > 0
    <2>1. x.d \in Nat /\ y.d \in Nat /\ x.d > 0 /\ y.d > 0
      BY IntFacts
    <2> QED
      BY <2>1, MaxOfTwo
  <1>3. addPos(x, y, r) = s
    <2> DEFINE ps == [k \in 0 .. n - 1 |-> Digit(x, k) + Digit(y, k) + Carry(x, y)[k]]
    <2>1. \A k \in 0 .. n - 1 : ps[k] = Column(x, y, k)
      BY DEF Column
    <2>2. f = [k \in 0 .. n - 1 |-> ps[k] % Base]
      <3> HIDE DEF ps
      <3> QED
        BY <2>1
    <2>3. noRoom <=> \E k \in r.m .. n - 1 : ps[k] # 0
      <3> HIDE DEF ps
      <3>1. \A k \in r.m .. n - 1 : k \in 0 .. n - 1
        BY <1>1
      <3> QED
        BY <2>1, <3>1
    <2> HIDE DEF f
    <2>4. addPos(x, y, r) = CASE \E k \in r.m .. n - 1 : ps[k] # 0 -> [sum EXCEPT !.over = TRUE]
                              [] n < r.m -> [more EXCEPT !.d = n + c]
                              [] OTHER -> [sum EXCEPT !.over = @ \/ c > 0, !.d = r.m]
      BY <2>2 DEF addPos
    <2> HIDE DEF ps, sum, more, noRoom
    <2> QED
      BY <2>3, <2>4
  <1>4. /\ IntOK(sum) /\ sum.m = r.m /\ sum.d = r.d /\ sum.neg = r.neg /\ sum.over = r.over
        /\ \A k \in 1 .. n : k <= r.m => sum.h[k] = Column(x, y, k - 1) % Base
    <2>1. \A k \in 0 .. r.m - 1 : k \in DOMAIN f => f[k] \in 0 .. Base - 1
      BY ColumnIs
    <2>2. ASSUME NEW k \in 1 .. n, k <= r.m
          PROVE  k \in 1 .. r.m /\ k - 1 \in DOMAIN f /\ f[k - 1] = Column(x, y, k - 1) % Base
      BY <1>1, <2>2
    <2> HIDE DEF f
    <2> QED
      BY <2>1, <2>2, StoreFacts
  <1> HIDE DEF sum, f
  <1>5. /\ IntOK(more) /\ more.m = r.m /\ more.d = r.d /\ more.neg = r.neg /\ more.over = r.over
        /\ n < r.m => more.h[n + 1] = c
        /\ c = 1 /\ n + 2 <= r.m => more.h[n + 2] = 0
        /\ \A k \in 1 .. n : k <= r.m => more.h[k] = sum.h[k]
    <2>1. \A k \in 0 .. r.m - 1 : k \in DOMAIN e => e[k] \in 0 .. Base - 1
      BY <1>1
    <2>2. /\ n + 1 - 1 \in DOMAIN e /\ e[n + 1 - 1] = c
          /\ c = 1 => n + 2 - 1 \in DOMAIN e /\ e[n + 2 - 1] = 0
          /\ \A k \in 1 .. n : k - 1 \notin DOMAIN e
      <3>1. DOMAIN e = n .. n + c /\ \A k \in n .. n + c : e[k] = IF k = n THEN c ELSE 0
        OBVIOUS
      <3>2. n + 1 - 1 = n /\ n \in n .. n + c
        OBVIOUS
      <3>3. ASSUME c = 1 PROVE n + 2 - 1 \in n .. n + c /\ n + 2 - 1 # n
        BY <3>3
      <3>4. \A k \in 1 .. n : k - 1 \notin n .. n + c
        OBVIOUS
      <3> HIDE DEF e
      <3> QED
        BY <3>1, <3>2, <3>3, <3>4
    <2>3. /\ n < r.m => n + 1 \in 1 .. r.m
          /\ n + 2 <= r.m => n + 2 \in 1 .. r.m
          /\ \A k \in 1 .. n : k <= r.m => k \in 1 .. r.m
      BY <1>1
    <2> HIDE DEF e
    <2>4. /\ IntOK(more) /\ more.m = r.m /\ more.d = r.d /\ more.neg = r.neg /\ more.over = r.over
          /\ \A k \in 1 .. r.m : more.h[k] = IF k - 1 \in DOMAIN e THEN e[k - 1] ELSE sum.h[k]
      BY <1>4, <2>1, StoreFacts
    <2> HIDE DEF more
    <2>5. n < r.m => more.h[n + 1] = c
      BY <2>2, <2>3, <2>4
    <2>6. c = 1 /\ n + 2 <= r.m => more.h[n + 2] = 0
      BY <2>2, <2>3, <2>4
    <2>7. \A k \in 1 .. n : k <= r.m => more.h[k] = sum.h[k]
      BY <2>2, <2>3, <2>4
    <2> QED
      BY <2>4, <2>5, <2>6, <2>7
  <1> HIDE DEF more, e
  <1>6. CASE noRoom
    <2>1. s = [sum EXCEPT !.over = TRUE] /\ ~(n < r.m)
      <3>1. ~(n < r.m)
        BY <1>1, <1>6
      <3> HIDE DEF noRoom
      <3> QED
        BY <1>6, <3>1
    <2> HIDE DEF s
    <2>2. sum \in Ints(r.m) /\ Room(r.m)
      BY <1>4 DEF IntOK
    <2>3. s \in Ints(r.m) /\ s.m = r.m /\ s.neg = r.neg /\ s.over
      BY <1>4, <2>1, <2>2 DEF Ints
    <2>4. IntOK(s)
      BY <2>2, <2>3 DEF IntOK
    <2> QED
      BY <1>2, <1>3, <1>6, <2>1, <2>3, <2>4 DEF AddFacts
  <1>7. CASE ~noRoom /\ n < r.m
    <2>1. s = [more EXCEPT !.d = n + c]
      BY <1>7
    <2> HIDE DEF s
    <2>2. more \in Ints(r.m) /\ Room(r.m) /\ n + c \in 1 .. r.m
      BY <1>1, <1>2, <1>5, <1>7 DEF IntOK
    <2>3. s \in Ints(r.m) /\ s.m = r.m /\ s.neg = r.neg /\ s.over = r.over /\ s.d = n + c /\ s.h = more.h
      BY <1>5, <2>1, <2>2 DEF Ints
    <2>4. IntOK(s)
      BY <2>2, <2>3 DEF IntOK
    <2>5. \A k \in 1 .. n : s.h[k] = Column(x, y, k - 1) % Base
      <3> TAKE k \in 1 .. n
      <3>1. k <= r.m
        BY <1>1, <1>7
      <3> QED
        BY <1>4, <1>5, <2>3, <3>1
    <2> QED
      BY <1>2, <1>3, <1>5, <1>7, <2>3, <2>4, <2>5 DEF AddFacts
  <1>8. CASE ~noRoom /\ ~(n < r.m)
    <2>1. s = [sum EXCEPT !.over = @ \/ c > 0, !.d = r.m]
      BY <1>8
    <2> HIDE DEF s
    <2>2. sum \in Ints(r.m) /\ Room(r.m) /\ r.m \in 1 .. r.m
      BY <1>1, <1>4 DEF IntOK
    <2>3. PICK o \in BOOLEAN : o = (sum.over \/ c > 0)
      OBVIOUS
    <2>4. s = [sum EXCEPT !.over = o, !.d = r.m]
      BY <2>1, <2>3
    <2>5. s \in Ints(r.m) /\ s.m = r.m /\ s.neg = r.neg /\ s.over = o /\ s.d = r.m /\ s.h = sum.h
      BY <1>4, <2>4, <2>2 DEF Ints
    <2>6. IntOK(s)
      BY <2>2, <2>5 DEF IntOK
    <2>7. (r.over => o) /\ (c = 1 => o) /\ (c = 0 => o = r.over)
      <3>1. c = 0 <=> ~(c > 0)
        OBVIOUS
      <3>2. c = 1 => c > 0
        OBVIOUS
      <3>3. o <=> (r.over \/ c > 0)
        BY <1>4, <2>3
      <3> QED
        BY <1>1, <3>1, <3>2, <3>3
    <2>8. \A k \in 1 .. r.m : s.h[k] = Column(x, y, k - 1) % Base
      <3> TAKE k \in 1 .. r.m
      <3>1. k <= r.m /\ k \in 1 .. n
        BY <1>1, <1>8
      <3> QED
        BY <1>4, <2>5, <3>1
    <2> QED
      BY <1>2, <1>3, <1>8, <2>5, <2>6, <2>7, <2>8 DEF AddFacts
  <1> QED
    BY <1>6, <1>7, <1>8

(* The longer of two numbers is at least a power.                          *)
LEMMA Longest ==
    ASSUME NEW x, NEW y, Number(x), Number(y), NEW n \in Nat, n = Max({x.d, y.d})
    PROVE  /\ x.d <= n /\ y.d <= n /\ n > 0
           /\ n > 1 => /\ Power(Base, n - 1) <= Magnitude(x) + Magnitude(y)
                       /\ Column(x, y, n - 1) # 0
  <1>1. x.d \in Nat /\ y.d \in Nat /\ x.d > 0 /\ y.d > 0 /\ IntOK(x) /\ IntOK(y)
    BY IntFacts DEF Number
  <1>2. (n = x.d \/ n = y.d) /\ x.d <= n /\ y.d <= n
    BY <1>1, MaxOfTwo
  <1>3. Magnitude(x) \in Nat /\ Magnitude(y) \in Nat
    BY <1>1, MagnitudeIs
  <1>4. ASSUME n > 1 PROVE Power(Base, n - 1) <= Magnitude(x) + Magnitude(y) /\ Column(x, y, n - 1) # 0
    <2>1. n - 1 \in Nat /\ Power(Base, n - 1) \in Nat /\ n - 1 < n
      BY <1>4, BasePower
    <2>2. PICK u \in Nat, v \in Nat, c \in Nat :
            u = Digit(x, n - 1) /\ v = Digit(y, n - 1) /\ c = Carry(x, y)[n - 1]
      <3>1. Digit(x, n - 1) \in Nat /\ Digit(y, n - 1) \in Nat
        BY <1>1, <2>1, DigitIs
      <3>2. Carry(x, y)[n - 1] \in Nat
        BY <1>1, <2>1, CarryIs
      <3> QED
        BY <3>1, <3>2
    <2>3. Column(x, y, n - 1) = u + v + c
      BY <2>2 DEF Column
    <2>4. ASSUME n = x.d PROVE Power(Base, n - 1) <= Magnitude(x) /\ u # 0
      <3>1. Power(Base, n - 1) <= Magnitude(x)
        BY <1>4, <2>4, MagnitudeLeast
      <3>2. Half(x, x.d - 1) # 0
        BY <1>4, <2>4 DEF Number, Normal
      <3> QED
        BY <2>1, <2>2, <2>4, <3>1, <3>2 DEF Digit
    <2>5. ASSUME n = y.d PROVE Power(Base, n - 1) <= Magnitude(y) /\ v # 0
      <3>1. Power(Base, n - 1) <= Magnitude(y)
        BY <1>4, <2>5, MagnitudeLeast
      <3>2. Half(y, y.d - 1) # 0
        BY <1>4, <2>5 DEF Number, Normal
      <3> QED
        BY <2>1, <2>2, <2>5, <3>1, <3>2 DEF Digit
    <2> QED
      BY <1>2, <1>3, <2>1, <2>3, <2>4, <2>5
  <1> QED
    BY <1>1, <1>2, <1>4

(* A number that is at least that power has a digit there.                 *)
LEMMA TopDigit ==
    ASSUME NEW m \in Nat, NEW h \in Halves(m), NEW n \in 1 .. m, Power(Base, n - 1) <= Amount(h)[n]
    PROVE  h[n] # 0
  <1> SUFFICES ASSUME h[n] = 0 PROVE FALSE
    OBVIOUS
  <1>1. n - 1 \in Nat /\ n - 1 \in 0 .. m /\ n \in n - 1 .. m /\ \A k \in (n - 1) + 1 .. n : h[k] = 0
    OBVIOUS
  <1>2. Amount(h)[n] = Amount(h)[n - 1]
    BY <1>1, AmountZeros
  <1>3. Amount(h)[n - 1] \in Nat /\ Amount(h)[n - 1] < Power(Base, n - 1) /\ Power(Base, n - 1) \in Nat
    BY <1>1, AmountBound, BasePower
  <1> QED
    BY <1>2, <1>3

(* A result is the number it should be, or it has no room and is flagged.  *)
Exactly(s, m, v) ==
    IF v < Power(Base, m) THEN Holds(s, m, v) ELSE s.over

(* addPos gives the sum of the magnitudes, in normal form, if the result   *)
(* has room for it, and otherwise sets the flag: the early return on a     *)
(* digit without room and the carry out of the last one miss no case.      *)
THEOREM AddPos ==
    ASSUME NEW x, NEW y, Number(x), Number(y), NEW r, IntOK(r), ~r.over
    PROVE  Exactly(addPos(x, y, r), r.m, Magnitude(x) + Magnitude(y))
  <1>1. IntOK(x) /\ IntOK(y) /\ x.d \in Nat /\ y.d \in Nat
    BY IntFacts DEF Number
  <1>2. PICK n \in Nat : n = Max({x.d, y.d})
    BY <1>1, MaxOfTwo
  <1>3. /\ x.d <= n /\ y.d <= n /\ n > 0
        /\ n > 1 => Power(Base, n - 1) <= Magnitude(x) + Magnitude(y) /\ Column(x, y, n - 1) # 0
    BY <1>2, Longest
  <1>4. PICK c \in 0 .. 1 : c = Carry(x, y)[n]
    BY <1>1, CarryIs
  <1>5. PICK s : s = addPos(x, y, r)
    OBVIOUS
  <1>6. AddFacts(x, y, r, s, n, c)
    BY <1>1, <1>2, <1>4, <1>5, AddCases
  <1>7. IntOK(s) /\ s.m = r.m /\ r.m \in Nat /\ r.m > 1 /\ s.h \in Halves(r.m) /\ r.m % 2 = 0 /\ r.over \in BOOLEAN
    BY <1>6, IntFacts DEF AddFacts
  <1>8. PICK t \in Nat, p \in Nat : t = Magnitude(x) + Magnitude(y) /\ p = Power(Base, r.m)
    BY <1>1, <1>7, MagnitudeIs, BasePower
  <1>9. CASE n < r.m
    <2>1. /\ s.d = n + c /\ s.h[n + 1] = c /\ s.over = r.over
          /\ (c = 1 /\ n + 2 <= r.m => s.h[n + 2] = 0)
          /\ \A k \in 1 .. n : s.h[k] = Column(x, y, k - 1) % Base
      BY <1>6, <1>9 DEF AddFacts
    <2>2. n \in 0 .. r.m /\ n \in 0 .. r.m - 1 /\ n <= r.m /\ n \in 1 .. r.m /\ n + 1 \in 1 .. r.m
      BY <1>3, <1>7, <1>9
    <2>3. t = Amount(s.h)[n] + c * Power(Base, n)
      BY <1>1, <1>3, <1>4, <1>7, <1>8, <2>1, <2>2, SumOfDigits
    <2>4. Amount(s.h)[n + 1] = Amount(s.h)[n] + c * Power(Base, n) /\ Amount(s.h)[n] \in Nat
      BY <1>7, <2>1, <2>2, AmountIs
    <2>5. Magnitude(s) = t
      <3>1. CASE c = 0
        <4>1. n + c = n /\ Power(Base, n) \in Nat
          BY <3>1, BasePower
        <4> QED
          BY <2>1, <2>3, <2>4, <3>1, <4>1 DEF Magnitude
      <3>2. CASE c = 1
        BY <2>1, <2>3, <2>4, <3>2 DEF Magnitude
      <3> QED
        BY <3>1, <3>2
    <2>6. Number(s)
      <3>1. CASE c = 0
        <4>1. s.d = n /\ s.h[n + 1] = 0
          BY <2>1, <3>1
        <4>2. Amount(s.h)[n] = t
          BY <2>5, <4>1 DEF Magnitude
        <4>3. n > 1 => s.h[n] # 0
          BY <1>3, <1>7, <1>8, <2>2, <4>2, TopDigit
        <4> QED
          BY <1>7, <4>1, <4>3, NumberIs
      <3>2. CASE c = 1
        <4>1. s.d = n + 1 /\ s.h[n + 1] # 0
          BY <2>1, <3>2
        <4>2. (n + 1) % 2 = 1 => s.h[(n + 1) + 1] = 0
          <5>1. (n + 1) % 2 = 1 => n + 2 <= r.m
            BY <1>7, <1>9
          <5>2. (n + 1) + 1 = n + 2
            OBVIOUS
          <5> QED
            BY <2>1, <3>2, <5>1, <5>2
        <4> QED
          BY <1>7, <4>1, <4>2, NumberIs
      <3> QED
        BY <3>1, <3>2
    <2>7. t < p
      <3>1. t < Power(Base, s.d) /\ s.d \in Nat /\ s.d <= r.m
        BY <1>7, <2>5, MagnitudeIs, IntFacts
      <3>2. Base \in Nat /\ Base > 0
        BY BaseIs
      <3>3. Power(Base, s.d) <= Power(Base, r.m) /\ Power(Base, s.d) \in Nat
        BY <1>7, <3>1, <3>2, PowerGrows, BasePower
      <3> QED
        BY <1>8, <3>1, <3>3
    <2> QED
      BY <1>5, <1>7, <1>8, <2>1, <2>5, <2>6, <2>7 DEF Exactly, Holds
  <1>10. CASE n > r.m
    <2>1. n - 1 \in r.m .. n - 1 /\ n > 1 /\ n - 1 \in Nat /\ r.m <= n - 1
      BY <1>7, <1>10
    <2>2. s.over
      BY <1>3, <1>6, <2>1 DEF AddFacts
    <2>3. p <= Power(Base, n - 1) /\ Power(Base, n - 1) \in Nat
      <3>1. Base \in Nat /\ Base > 0
        BY BaseIs
      <3> QED
        BY <1>7, <1>8, <2>1, <3>1, PowerGrows, BasePower
    <2>4. ~(t < p)
      BY <1>3, <1>8, <2>1, <2>3
    <2> QED
      BY <1>5, <1>8, <2>2, <2>4 DEF Exactly
  <1>11. CASE n = r.m
    <2>1. ~(n < r.m) /\ \A k \in r.m .. n - 1 : FALSE
      BY <1>7, <1>11
    <2>2. /\ s.d = r.m /\ (c = 1 => s.over) /\ (c = 0 => s.over = r.over)
          /\ \A k \in 1 .. r.m : s.h[k] = Column(x, y, k - 1) % Base
      BY <1>6, <2>1 DEF AddFacts
    <2>3. t = Amount(s.h)[n] + c * Power(Base, n)
      <3>1. n <= r.m
        BY <1>11
      <3> QED
        BY <1>1, <1>3, <1>4, <1>7, <1>8, <1>11, <2>2, <3>1, SumOfDigits
    <2>4. Amount(s.h)[n] \in Nat /\ Amount(s.h)[n] < Power(Base, n) /\ Power(Base, n) = p
      <3>1. n \in 0 .. r.m
        BY <1>11
      <3> QED
        BY <1>7, <1>8, <1>11, <3>1, AmountBound
    <2>5. CASE c = 0
      <3>1. t = Amount(s.h)[n] /\ t < p
        BY <2>3, <2>4, <2>5
      <3>2. s.h[n] # 0 /\ n > 1
        <4>1. n > 1 /\ n \in 1 .. r.m
          BY <1>7, <1>11
        <4> QED
          BY <1>3, <1>7, <1>8, <3>1, <4>1, TopDigit
      <3>3. ~(s.d % 2 = 1) /\ s.d = n
        BY <1>7, <1>11, <2>2
      <3>4. Number(s)
        BY <1>7, <3>2, <3>3, NumberIs
      <3> QED
        BY <1>5, <1>7, <1>8, <2>2, <2>5, <3>1, <3>3, <3>4 DEF Exactly, Holds, Magnitude
    <2>6. CASE c = 1
      <3>1. ~(t < p)
        BY <2>3, <2>4, <2>6
      <3> QED
        BY <1>5, <1>8, <2>2, <2>6, <3>1 DEF Exactly
    <2> QED
      BY <2>5, <2>6
  <1> QED
    BY <1>7, <1>9, <1>10, <1>11

LEMMA AmountGrows ==
    ASSUME NEW m \in Nat, NEW h \in Halves(m), NEW j \in 0 .. m, NEW k \in j .. m
    PROVE  Amount(h)[j] <= Amount(h)[k]
  <1> DEFINE S == {i \in 0 .. k - j : Amount(h)[j] <= Amount(h)[j + i]}
  <1>1. k - j \in Nat /\ j + (k - j) = k /\ k - j \in 0 .. k - j /\ j + 0 = j /\ 0 \in 0 .. k - j
    OBVIOUS
  <1>2. 0 \in S
    <2>1. Amount(h)[j] \in Nat
      BY AmountIs
    <2> QED
      BY <1>1, <2>1
  <1>3. ASSUME NEW i \in 0 .. (k - j) - 1, i \in S PROVE i + 1 \in S
    <2>1. j + i \in 0 .. m - 1 /\ j + i \in 0 .. m /\ j + i + 1 \in 1 .. m /\ j + (i + 1) = j + i + 1 /\ i + 1 \in 0 .. k - j
      OBVIOUS
    <2>2. PICK x \in Nat, c \in Nat, p \in Nat : x = Amount(h)[j + i] /\ c = h[j + i + 1] /\ p = Power(Base, j + i)
      <3>1. Amount(h)[j + i] \in Nat
        BY <2>1, AmountIs
      <3>2. h[j + i + 1] \in Nat
        BY <2>1, HalfIs
      <3>3. Power(Base, j + i) \in Nat
        BY <2>1, BasePower
      <3> QED
        BY <3>1, <3>2, <3>3
    <2>3. Amount(h)[j + i + 1] = x + c * p
      BY <2>1, <2>2, AmountIs
    <2>4. c * p \in Nat /\ Amount(h)[j] <= x /\ Amount(h)[j] \in Nat
      BY <1>3, <2>2, AmountIs
    <2> QED
      BY <2>1, <2>3, <2>4
  <1> HIDE DEF S
  <1>4. k - j \in S
    BY <1>1, <1>2, <1>3, InductionTo
  <1> QED
    BY <1>1, <1>4 DEF S

Wrapped(u, v, b) == (u - v - b) % Base
Difference(x, y, k) == Wrapped(Half(x, k), Digit(y, k), Borrow(x, y)[k])

LEMMA ModIs ==
    ASSUME NEW u \in Nat, NEW v \in Nat, NEW b \in 0 .. 1, u < Base, v < Base
    PROVE  /\ Wrapped(u, v, b) \in 0 .. Base - 1
           /\ v + b > u => u + Base = v + b + Wrapped(u, v, b)
           /\ ~(v + b > u) => u = v + b + Wrapped(u, v, b)
  <1>1. CASE v + b > u
    <2>1. PICK z \in Nat : z = u - v - b + Base /\ z < Base
      BY <1>1, BaseIs
    <2>2. u - v - b = Base * (-1) + z
      BY <2>1, BaseIs
    <2>3. (Base * (-1) + z) % Base = z
      BY <2>1, BaseIs
    <2>4. Wrapped(u, v, b) = z
      BY <2>2, <2>3 DEF Wrapped
    <2> QED
      BY <1>1, <2>1, <2>4, BaseIs
  <1>2. CASE ~(v + b > u)
    <2>1. PICK z \in Nat : z = u - v - b /\ z < Base
      BY <1>2, BaseIs
    <2>2. z % Base = z
      BY <2>1, BaseIs
    <2> QED
      BY <1>2, <2>1, <2>2, BaseIs DEF Wrapped
  <1> QED
    BY <1>1, <1>2

LEMMA DifferenceIs ==
    ASSUME NEW x, NEW y, IntOK(x), IntOK(y), NEW k \in Nat, k < x.d
    PROVE  /\ Difference(x, y, k) \in 0 .. Base - 1 /\ Borrow(x, y)[k] \in 0 .. 1 /\ Borrow(x, y)[k + 1] \in 0 .. 1
           /\ Digit(x, k) + Base * Borrow(x, y)[k + 1] = Digit(y, k) + Borrow(x, y)[k] + Difference(x, y, k)
  <1>1. k + 1 \in Nat /\ Half(x, k) = Digit(x, k) /\ Base \in Nat /\ Base > 2
    BY BaseIs DEF Digit
  <1>2. PICK u \in Nat, v \in Nat : u = Digit(x, k) /\ v = Digit(y, k) /\ u < Base /\ v < Base
    BY DigitIs
  <1>3. PICK b \in 0 .. 1, e \in 0 .. 1 : b = Borrow(x, y)[k] /\ e = Borrow(x, y)[k + 1]
    BY <1>1, BorrowIs
  <1>4. e = IF v + b > u THEN 1 ELSE 0
    BY <1>2, <1>3, BorrowIs
  <1>5. PICK z : z = Difference(x, y, k) /\ z = Wrapped(u, v, b)
    BY <1>1, <1>2, <1>3 DEF Difference
  <1>6. /\ z \in 0 .. Base - 1
        /\ v + b > u => u + Base = v + b + z
        /\ ~(v + b > u) => u = v + b + z
    <2>1. u < Base /\ v < Base
      BY <1>2
    <2>2. Wrapped(u, v, b) \in 0 .. Base - 1
      BY <2>1, ModIs
    <2>3. ASSUME v + b > u PROVE u + Base = v + b + Wrapped(u, v, b)
      BY <2>1, <2>3, ModIs
    <2>4. ASSUME ~(v + b > u) PROVE u = v + b + Wrapped(u, v, b)
      BY <2>1, <2>4, ModIs
    <2> QED
      BY <1>5, <2>2, <2>3, <2>4
  <1>7. u + Base * e = v + b + z
    <2>1. CASE v + b > u
      BY <1>1, <1>4, <1>6, <2>1
    <2>2. CASE ~(v + b > u)
      BY <1>1, <1>4, <1>6, <2>2
    <2> QED
      BY <2>1, <2>2
  <1> QED
    BY <1>2, <1>3, <1>5, <1>6, <1>7

(* The digits and borrows of a difference.                                 *)
LEMMA DifferenceOfDigits ==
    ASSUME NEW x, NEW y, IntOK(x), IntOK(y), NEW n \in Nat, n = x.d, y.d <= n,
           NEW g \in Halves(n), \A k \in 1 .. n : g[k] = Difference(x, y, k - 1)
    PROVE  Magnitude(x) + Borrow(x, y)[n] * Power(Base, n) = Magnitude(y) + Amount(g)[n]
  <1> DEFINE X == Digits(x, n)
             Y == Digits(y, n)
             S == {k \in 0 .. n : Amount(X)[k] + Borrow(x, y)[k] * Power(Base, k) = Amount(Y)[k] + Amount(g)[k]}
  <1>1. /\ X \in Halves(n) /\ Amount(X)[n] = Magnitude(x) /\ \A k \in 1 .. n : X[k] = Digit(x, k - 1)
        /\ Y \in Halves(n) /\ Amount(Y)[n] = Magnitude(y) /\ \A k \in 1 .. n : Y[k] = Digit(y, k - 1)
    BY DigitsAre
  <1> HIDE DEF X, Y
  <1>2. 0 \in S
    <2>1. Amount(X)[0] = 0 /\ Amount(Y)[0] = 0 /\ Amount(g)[0] = 0 /\ Borrow(x, y)[0] = 0 /\ Power(Base, 0) = 1
      BY <1>1, AmountIs, BorrowIs, SmallPowers
    <2> QED
      BY <2>1
  <1>3. ASSUME NEW k \in 0 .. n - 1, k \in S PROVE k + 1 \in S
    <2>1. k \in Nat /\ k + 1 \in 1 .. n /\ k \in 0 .. n /\ (k + 1) - 1 = k /\ k + 1 \in 0 .. n /\ k < x.d
      OBVIOUS
    <2>2. PICK u \in Nat, v \in Nat : u = Digit(x, k) /\ v = Digit(y, k)
      BY <2>1, DigitIs
    <2>3. PICK c \in Nat, e \in Nat, w \in Nat :
            c = Borrow(x, y)[k] /\ e = Borrow(x, y)[k + 1] /\ w = Difference(x, y, k) /\ u + Base * e = v + c + w
      <3>1. Difference(x, y, k) \in Nat /\ Borrow(x, y)[k] \in Nat /\ Borrow(x, y)[k + 1] \in Nat
        BY <2>1, DifferenceIs, BaseIs
      <3> QED
        BY <2>1, <2>2, <3>1, DifferenceIs
    <2>4. PICK p \in Nat, s \in Nat, t \in Nat, z \in Nat :
            p = Power(Base, k) /\ s = Amount(X)[k] /\ t = Amount(Y)[k] /\ z = Amount(g)[k]
      BY <1>1, <2>1, BasePower, AmountIs
    <2>5. /\ Amount(X)[k + 1] = s + u * p /\ Amount(Y)[k + 1] = t + v * p
          /\ Amount(g)[k + 1] = z + w * p /\ Power(Base, k + 1) = Base * p
      <3>1. X[k + 1] = u /\ Y[k + 1] = v /\ g[k + 1] = w
        BY <1>1, <2>1, <2>2, <2>3
      <3>2. Amount(X)[k + 1] = Amount(X)[k] + X[k + 1] * Power(Base, k)
        BY <1>1, AmountIs
      <3>3. Amount(Y)[k + 1] = Amount(Y)[k] + Y[k + 1] * Power(Base, k)
        BY <1>1, AmountIs
      <3>4. Amount(g)[k + 1] = Amount(g)[k] + g[k + 1] * Power(Base, k)
        BY AmountIs
      <3> QED
        BY <2>1, <2>4, <3>1, <3>2, <3>3, <3>4, BasePower
    <2>6. s + c * p = t + z
      BY <1>3, <2>3, <2>4
    <2>7. (u + Base * e) * p = (v + c + w) * p
      BY <2>3
    <2>8. /\ (v + c + w) * p = v * p + c * p + w * p
          /\ (u + Base * e) * p = u * p + e * (Base * p)
      BY BaseIs
    <2>9. (s + u * p) + e * (Base * p) = (t + v * p) + (z + w * p)
      <3>1. PICK up \in Nat, vp \in Nat, cp \in Nat, ep \in Nat, wp \in Nat :
              up = u * p /\ vp = v * p /\ cp = c * p /\ ep = e * (Base * p) /\ wp = w * p
        BY BaseIs
      <3>2. up + ep = vp + cp + wp /\ s + cp = t + z
        BY <2>6, <2>7, <2>8, <3>1
      <3>3. (s + up) + ep = (t + vp) + (z + wp)
        BY <3>2
      <3> QED
        BY <3>1, <3>3
    <2> QED
      BY <2>1, <2>3, <2>5, <2>9
  <1> HIDE DEF S
  <1>4. n \in S
    <2>1. n \in 0 .. n
      OBVIOUS
    <2> QED
      BY <1>2, <1>3, <2>1, InductionTo
  <1> QED
    BY <1>1, <1>4 DEF S

(* What subAGtB leaves, in each of its cases.                              *)
SubFacts(x, y, r, s, n) ==
    /\ IntOK(s) /\ s.m = r.m /\ s.neg = r.neg /\ (r.over => s.over)
    /\ (\E k \in n .. x.d - 1 : Difference(x, y, k) # 0) => s.over
    /\ (\A k \in n .. x.d - 1 : Difference(x, y, k) = 0) =>
         /\ s.over = r.over /\ s.d \in 1 .. n /\ (s.d > 1 => s.h[s.d] # 0)
         /\ \A k \in 1 .. n : s.h[k] = Difference(x, y, k - 1)
         /\ n % 2 = 1 => s.h[n + 1] = 0
         /\ \A k \in s.d + 1 .. n : s.h[k] = 0

LEMMA SubCases ==
    ASSUME NEW x, NEW y, NEW r, IntOK(x), IntOK(y), IntOK(r), NEW n \in Nat, n = Min({x.d, r.m})
    PROVE  SubFacts(x, y, r, subAGtB(x, y, r), n) /\ n \in 1 .. r.m /\ n \in 1 .. x.d
  <1> DEFINE D(k) == Difference(x, y, k)
             f == [k \in 0 .. n - 1 |-> D(k)]
             part == Store(r, f)
             e == [k \in 0 .. n - 1 + (n % 2) |-> IF k < n THEN D(k) ELSE 0]
             diff == Store(r, e)
             used == {1} \cup {k \in 1 .. n : Half(diff, k - 1) # 0}
             noRoom == \E k \in n .. x.d - 1 : D(k) # 0
             s == IF noRoom THEN [part EXCEPT !.over = TRUE] ELSE [diff EXCEPT !.d = Max(used)]
  <1>1. /\ r.m \in Nat /\ r.m > 1 /\ r.m % 2 = 0 /\ r.d \in 1 .. r.m /\ r.neg \in BOOLEAN /\ r.over \in BOOLEAN
        /\ Base \in Nat /\ Base > 2 /\ x.d \in Nat /\ x.d > 0
    BY IntFacts, BaseIs
  <1>2. n \in 1 .. r.m /\ n \in 1 .. x.d /\ n + (n % 2) \in 1 .. r.m
    <2>1. n = IF x.d <= r.m THEN x.d ELSE r.m
      BY <1>1, MinOfTwo
    <2>2. n \in 1 .. r.m /\ n \in 1 .. x.d
      <3>1. PICK d \in Nat, m \in Nat : d = x.d /\ m = r.m
        BY <1>1
      <3>2. d > 0 /\ m > 1 /\ n = IF d <= m THEN d ELSE m
        BY <1>1, <2>1, <3>1
      <3>3. n \in 1 .. m /\ n \in 1 .. d
        BY <3>2
      <3> QED
        BY <3>1, <3>3
    <2>3. PICK m \in Nat : m = r.m
      BY <1>1
    <2>4. n \in 1 .. m /\ m % 2 = 0
      BY <1>1, <2>2, <2>3
    <2>5. n + (n % 2) \in 1 .. m
      <3>1. n % 2 = 0 \/ (n % 2 = 1 /\ n < m)
        BY <2>4
      <3> QED
        BY <2>4, <3>1
    <2> QED
      BY <2>2, <2>3, <2>5
  <1>3. \A k \in 0 .. x.d - 1 : D(k) \in 0 .. Base - 1
    <2> TAKE k \in 0 .. x.d - 1
    <2>1. k \in Nat /\ k < x.d
      BY <1>1
    <2> QED
      BY <2>1, DifferenceIs
  <1>4. subAGtB(x, y, r) = s
    <2> DEFINE pd == [k \in 0 .. x.d - 1 |-> (Half(x, k) - Digit(y, k) - Borrow(x, y)[k]) % Base]
    <2>1. \A k \in 0 .. x.d - 1 : pd[k] = D(k)
      BY DEF Difference, Wrapped
    <2> HIDE DEF pd
    <2>2. \A k \in 0 .. n - 1 : pd[k] = D(k)
      BY <1>1, <1>2, <2>1
    <2> HIDE DEF D
    <2>3. f = [k \in 0 .. n - 1 |-> pd[k]]
      BY <2>2
    <2>4. e = [k \in 0 .. n - 1 + (n % 2) |-> IF k < n THEN pd[k] ELSE 0]
      <3>1. \A k \in 0 .. n - 1 + (n % 2) : k < n => k \in 0 .. n - 1
        BY <1>2
      <3> QED
        BY <2>2, <3>1
    <2>5. noRoom <=> \E k \in n .. x.d - 1 : pd[k] # 0
      <3>1. \A k \in n .. x.d - 1 : k \in 0 .. x.d - 1
        BY <1>1, <1>2
      <3> QED
        BY <2>1, <3>1
    <2> HIDE DEF f, e, noRoom
    <2>6. subAGtB(x, y, r) = IF \E k \in n .. x.d - 1 : pd[k] # 0
                               THEN [part EXCEPT !.over = TRUE] ELSE [diff EXCEPT !.d = Max(used)]
      BY <2>3, <2>4 DEF subAGtB, pd
    <2> QED
      BY <2>5, <2>6
  <1>5. IntOK(part) /\ part.m = r.m /\ part.neg = r.neg
    <2>1. \A k \in 0 .. r.m - 1 : k \in DOMAIN f => f[k] \in 0 .. Base - 1
      <3>1. \A k \in 0 .. n - 1 : k \in 0 .. x.d - 1
        BY <1>1, <1>2
      <3> HIDE DEF D
      <3> QED
        BY <1>3, <3>1
    <2> HIDE DEF f
    <2> QED
      BY <2>1, StoreFacts
  <1> HIDE DEF part, f
  <1>6. /\ IntOK(diff) /\ diff.m = r.m /\ diff.neg = r.neg /\ diff.over = r.over
        /\ \A k \in 1 .. n : diff.h[k] = D(k - 1)
        /\ n % 2 = 1 => diff.h[n + 1] = 0
    <2>1. ASSUME NEW k \in 0 .. r.m - 1, k \in DOMAIN e PROVE e[k] \in 0 .. Base - 1
      <3>1. k < n => k \in 0 .. x.d - 1
        BY <1>1, <1>2
      <3>2. 0 \in 0 .. Base - 1
        BY <1>1
      <3> HIDE DEF D
      <3> QED
        BY <1>3, <2>1, <3>1, <3>2
    <2>2. \A k \in 1 .. n : k - 1 \in DOMAIN e /\ e[k - 1] = D(k - 1) /\ k \in 1 .. r.m
      <3> TAKE k \in 1 .. n
      <3>1. k - 1 \in 0 .. n - 1 + (n % 2) /\ k - 1 < n /\ k \in 1 .. r.m
        BY <1>1, <1>2
      <3> HIDE DEF D
      <3> QED
        BY <3>1
    <2>3. ASSUME n % 2 = 1 PROVE n + 1 - 1 \in DOMAIN e /\ e[n + 1 - 1] = 0 /\ n + 1 \in 1 .. r.m
      <3>1. n + 1 - 1 \in 0 .. n - 1 + (n % 2) /\ ~(n + 1 - 1 < n) /\ n + 1 \in 1 .. r.m
        BY <1>1, <1>2, <2>3
      <3> HIDE DEF D
      <3> QED
        BY <3>1
    <2> HIDE DEF e, D
    <2>4. /\ IntOK(diff) /\ diff.m = r.m /\ diff.neg = r.neg /\ diff.over = r.over
          /\ \A k \in 1 .. r.m : diff.h[k] = IF k - 1 \in DOMAIN e THEN e[k - 1] ELSE r.h[k]
      BY <2>1, StoreFacts
    <2> HIDE DEF diff
    <2>5. \A k \in 1 .. n : diff.h[k] = D(k - 1)
      BY <2>2, <2>4
    <2>6. n % 2 = 1 => diff.h[n + 1] = 0
      BY <2>3, <2>4
    <2> QED
      BY <2>4, <2>5, <2>6
  <1> HIDE DEF diff, e
  <1>7. PICK d \in 1 .. n : d = Max(used) /\ (d > 1 => diff.h[d] # 0) /\ \A k \in d + 1 .. n : diff.h[k] = 0
    <2>1. used \subseteq 0 .. n /\ used # {}
      BY <1>2
    <2> HIDE DEF used
    <2>2. Max(used) \in used /\ \A k \in used : Max(used) >= k
      BY <2>1, MaxIs
    <2>3. PICK d : d = Max(used)
      OBVIOUS
    <2>4. d \in used /\ \A k \in used : d >= k
      BY <2>2, <2>3
    <2>5. d \in 1 .. n /\ (d > 1 => Half(diff, d - 1) # 0)
      BY <1>2, <2>4 DEF used
    <2>6. d > 1 => diff.h[d] # 0
      <3>1. d - 1 + 1 = d
        BY <2>5
      <3> QED
        BY <2>5, <3>1 DEF Half
    <2>7. ASSUME NEW k \in d + 1 .. n PROVE diff.h[k] = 0
      <3>1. k \in 1 .. n /\ k - 1 + 1 = k /\ ~(d >= k)
        BY <2>5
      <3>2. k \notin used
        BY <2>4, <3>1
      <3>3. ~(Half(diff, k - 1) # 0)
        BY <3>1, <3>2 DEF used
      <3> QED
        BY <3>1, <3>3 DEF Half
    <2> QED
      BY <2>3, <2>5, <2>6, <2>7
  <1> HIDE DEF used
  <1>8. CASE noRoom
    <2>1. s = [part EXCEPT !.over = TRUE]
      BY <1>8
    <2> HIDE DEF s
    <2>2. part \in Ints(r.m) /\ Room(r.m)
      BY <1>5 DEF IntOK
    <2>3. s \in Ints(r.m) /\ s.m = r.m /\ s.neg = r.neg /\ s.over
      BY <1>5, <2>1, <2>2 DEF Ints
    <2>4. IntOK(s)
      BY <2>2, <2>3 DEF IntOK
    <2> QED
      BY <1>2, <1>4, <1>8, <2>3, <2>4 DEF SubFacts
  <1>9. CASE ~noRoom
    <2>1. s = [diff EXCEPT !.d = d]
      BY <1>7, <1>9
    <2> HIDE DEF s
    <2>2. diff \in Ints(r.m) /\ Room(r.m) /\ d \in 1 .. r.m
      BY <1>1, <1>2, <1>6, <1>7 DEF IntOK
    <2>3. s \in Ints(r.m) /\ s.m = r.m /\ s.neg = r.neg /\ s.over = r.over /\ s.d = d /\ s.h = diff.h
      BY <1>6, <2>1, <2>2 DEF Ints
    <2>4. IntOK(s)
      BY <2>2, <2>3 DEF IntOK
    <2> QED
      BY <1>2, <1>4, <1>6, <1>7, <1>9, <2>3, <2>4 DEF SubFacts
  <1> QED
    BY <1>8, <1>9

(* subAGtB gives the difference of the magnitudes, without leading zeros,  *)
(* if the result has room for it, and otherwise sets the flag.             *)
THEOREM SubAGtB ==
    ASSUME NEW x, NEW y, Number(x), Number(y), Magnitude(x) >= Magnitude(y), NEW r, IntOK(r), ~r.over
    PROVE  Exactly(subAGtB(x, y, r), r.m, Magnitude(x) - Magnitude(y))
  <1>1. IntOK(x) /\ IntOK(y) /\ x.d \in Nat /\ y.d \in Nat /\ x.d > 0 /\ r.m \in Nat /\ r.m > 1 /\ r.m % 2 = 0 /\ r.over \in BOOLEAN
    BY IntFacts DEF Number
  <1>2. PICK u \in Nat, v \in Nat : u = Magnitude(x) /\ v = Magnitude(y) /\ u >= v
    BY <1>1, MagnitudeIs
  <1>3. y.d <= x.d
    <2> SUFFICES ASSUME y.d > x.d PROVE FALSE
      BY <1>1
    <2>1. Magnitude(y) > Magnitude(x)
      BY LongerIsMore
    <2> QED
      BY <1>2, <2>1
  <1>4. PICK n \in Nat : n = Min({x.d, r.m})
    BY <1>1, MinOfTwo
  <1>5. PICK s : s = subAGtB(x, y, r)
    OBVIOUS
  <1>6. SubFacts(x, y, r, s, n) /\ n \in 1 .. r.m /\ n \in 1 .. x.d
    BY <1>1, <1>4, <1>5, SubCases
  <1>7. IntOK(s) /\ s.m = r.m /\ s.h \in Halves(r.m) /\ s.d \in Nat
    BY <1>6, IntFacts DEF SubFacts
  <1> DEFINE g == [k \in 1 .. x.d |-> Difference(x, y, k - 1)]
  <1>8. g \in Halves(x.d) /\ \A k \in 1 .. x.d : g[k] = Difference(x, y, k - 1)
    <2>1. ASSUME NEW k \in 1 .. x.d PROVE Difference(x, y, k - 1) \in 0 .. Base - 1
      <3>1. k - 1 \in Nat /\ k - 1 < x.d
        BY <1>1
      <3> QED
        BY <1>1, <3>1, DifferenceIs
    <2> QED
      BY <2>1 DEF Halves
  <1> HIDE DEF g
  <1>9. Amount(g)[x.d] = u - v
    <2>1. u + Borrow(x, y)[x.d] * Power(Base, x.d) = v + Amount(g)[x.d]
      BY <1>1, <1>2, <1>3, <1>8, DifferenceOfDigits
    <2>2. x.d \in 0 .. x.d
      BY <1>1
    <2>3. PICK t \in Nat, p \in Nat, b \in 0 .. 1 :
            t = Amount(g)[x.d] /\ p = Power(Base, x.d) /\ b = Borrow(x, y)[x.d] /\ t < p
      <3>1. Amount(g)[x.d] \in Nat /\ Amount(g)[x.d] < Power(Base, x.d)
        BY <1>1, <1>8, <2>2, AmountBound
      <3>2. Power(Base, x.d) \in Nat /\ Borrow(x, y)[x.d] \in 0 .. 1
        BY <1>1, BasePower, BorrowIs
      <3> QED
        BY <3>1, <3>2
    <2>4. u + b * p = v + t
      BY <2>1, <2>3
    <2>5. CASE b = 0
      BY <1>2, <2>3, <2>4, <2>5
    <2>6. CASE b = 1
      BY <1>2, <2>3, <2>4, <2>6
    <2> QED
      BY <2>5, <2>6
  <1>10. PICK p \in Nat : p = Power(Base, r.m)
    BY <1>1, BasePower
  <1>11. CASE \E k \in n .. x.d - 1 : Difference(x, y, k) # 0
    <2>1. s.over
      BY <1>6, <1>11 DEF SubFacts
    <2>2. PICK k \in n .. x.d - 1 : Difference(x, y, k) # 0
      BY <1>11
    <2>3. n = r.m
      BY <1>1, <1>4, <1>6, <2>2, MinOfTwo
    <2>4. k \in Nat /\ r.m <= k /\ k + 1 \in 1 .. x.d /\ k + 1 \in 0 .. x.d /\ x.d \in k + 1 .. x.d /\ (k + 1) - 1 = k
      BY <1>1, <1>6, <2>2, <2>3
    <2>5. g[k + 1] # 0
      BY <1>8, <2>2, <2>4
    <2>6. Power(Base, k) <= Amount(g)[k + 1]
      BY <1>1, <1>8, <2>4, <2>5, AmountLeast
    <2>7. Amount(g)[k + 1] <= Amount(g)[x.d] /\ Amount(g)[k + 1] \in Nat
      BY <1>1, <1>8, <2>4, AmountGrows, AmountIs
    <2>8. p <= Power(Base, k) /\ Power(Base, k) \in Nat
      <3>1. Base \in Nat /\ Base > 0
        BY BaseIs
      <3> QED
        BY <1>1, <1>10, <2>4, <3>1, PowerGrows, BasePower
    <2>9. ~(u - v < p)
      BY <1>2, <1>9, <1>10, <2>6, <2>7, <2>8
    <2> QED
      BY <1>2, <1>5, <1>10, <2>1, <2>9 DEF Exactly
  <1>12. CASE \A k \in n .. x.d - 1 : Difference(x, y, k) = 0
    <2>1. /\ s.over = r.over /\ s.d \in 1 .. n /\ (s.d > 1 => s.h[s.d] # 0)
          /\ \A k \in 1 .. n : s.h[k] = Difference(x, y, k - 1)
          /\ n % 2 = 1 => s.h[n + 1] = 0
          /\ \A k \in s.d + 1 .. n : s.h[k] = 0
      BY <1>6, <1>12 DEF SubFacts
    <2>2. Amount(g)[x.d] = Amount(g)[n]
      <3>1. n \in 0 .. x.d /\ x.d \in n .. x.d
        BY <1>1, <1>6
      <3>2. ASSUME NEW k \in n + 1 .. x.d PROVE g[k] = 0
        <4>1. k \in 1 .. x.d /\ k - 1 \in n .. x.d - 1
          BY <1>1, <1>6
        <4> QED
          BY <1>8, <1>12, <4>1
      <3> QED
        BY <1>1, <1>8, <3>1, <3>2, AmountZeros
    <2>3. Amount(s.h)[n] = Amount(g)[n]
      <3>1. n \in 0 .. r.m /\ n <= x.d
        BY <1>1, <1>6
      <3>2. \A k \in 1 .. n : s.h[k] = g[k]
        <4>1. \A k \in 1 .. n : k \in 1 .. x.d
          BY <1>1, <1>6
        <4> QED
          BY <1>8, <2>1, <4>1
      <3> QED
        BY <1>1, <1>7, <1>8, <3>1, <3>2, AmountSame
    <2>4. Amount(s.h)[n] = Amount(s.h)[s.d]
      <3>1. s.d \in 0 .. r.m /\ n \in s.d .. r.m
        BY <1>1, <1>6, <1>7, <2>1
      <3> QED
        BY <1>1, <1>7, <2>1, <3>1, AmountZeros
    <2>5. Magnitude(s) = u - v
      BY <1>9, <2>2, <2>3, <2>4 DEF Magnitude
    <2>6. s.d % 2 = 1 => s.h[s.d + 1] = 0
      <3>1. CASE s.d = n
        BY <2>1, <3>1
      <3>2. CASE s.d # n
        <4>1. s.d + 1 \in s.d + 1 .. n
          BY <1>6, <2>1, <3>2
        <4> QED
          BY <2>1, <4>1
      <3> QED
        BY <3>1, <3>2
    <2>7. Number(s)
      BY <1>7, <2>1, <2>6, NumberIs
    <2>8. u - v < p
      <3>1. Magnitude(s) < Power(Base, s.d) /\ s.d <= r.m
        BY <1>7, MagnitudeIs, IntFacts
      <3>2. Base \in Nat /\ Base > 0
        BY BaseIs
      <3>3. Power(Base, s.d) <= Power(Base, r.m) /\ Power(Base, s.d) \in Nat
        BY <1>1, <1>7, <3>1, <3>2, PowerGrows, BasePower
      <3> QED
        BY <1>2, <1>10, <2>5, <3>1, <3>3
    <2> QED
      BY <1>2, <1>5, <1>7, <1>10, <2>1, <2>5, <2>7, <2>8 DEF Exactly, Holds
  <1> QED
    BY <1>11, <1>12

-----------------------------------------------------------------------------
(* Signed addition and subtraction.                                        *)
Gives(s, m, v) ==
    IF Abs(v) < Power(Base, m) THEN Number(s) /\ s.m = m /\ ~s.over /\ Val(s) = v ELSE s.over
Keeps(s, r) == IntOK(s) /\ s.m = r.m /\ (r.over => s.over)

LEMMA YesAndNo == (\E o \in BOOLEAN : o) /\ (\E o \in BOOLEAN : ~o)
  <1>1. TRUE \in BOOLEAN /\ FALSE \in BOOLEAN /\ ~FALSE
    OBVIOUS
  <1> QED
    BY <1>1, Zenon

LEMMA Signed ==
    ASSUME NEW r, NEW s, Keeps(s, r), NEW b \in BOOLEAN, NEW t, t = [s EXCEPT !.neg = b]
    PROVE  /\ Keeps(t, r)
           /\ \A v \in Nat : Exactly(s, r.m, v) => Gives(t, r.m, IF b THEN -v ELSE v)
  <1>1. IntOK(s) /\ s.m = r.m /\ (r.over => s.over)
    BY DEF Keeps
  <1>2. /\ IntOK(t) /\ t.m = s.m /\ t.neg = b /\ t.over = s.over
        /\ Magnitude(t) = Magnitude(s) /\ (Number(s) => Number(t))
    BY <1>1, SignAside
  <1>3. Keeps(t, r)
    BY <1>1, <1>2 DEF Keeps
  <1>4. ASSUME NEW v \in Nat, Exactly(s, r.m, v) PROVE Gives(t, r.m, IF b THEN -v ELSE v)
    <2>1. Abs(IF b THEN -v ELSE v) = v
      BY DEF Abs
    <2>2. CASE v < Power(Base, r.m)
      <3>1. Number(s) /\ ~s.over /\ Magnitude(s) = v
        BY <1>4, <2>2 DEF Exactly, Holds
      <3>2. Val(t) = IF b THEN -v ELSE v
        BY <1>2, <3>1 DEF Val
      <3> QED
        BY <1>1, <1>2, <2>1, <2>2, <3>1, <3>2 DEF Gives
    <2>3. CASE ~(v < Power(Base, r.m))
      BY <1>2, <1>4, <2>1, <2>3 DEF Gives, Exactly
    <2> QED
      BY <2>2, <2>3
  <1> QED
    BY <1>3, <1>4

LEMMA AddShape ==
    ASSUME NEW x, NEW y, NEW r, IntOK(x), IntOK(y), IntOK(r) PROVE Keeps(addPos(x, y, r), r)
  <1>1. x.d \in Nat /\ y.d \in Nat
    BY IntFacts
  <1>2. PICK n \in Nat : n = Max({x.d, y.d})
    BY <1>1, MaxOfTwo
  <1>3. PICK c \in 0 .. 1 : c = Carry(x, y)[n]
    BY CarryIs
  <1> QED
    BY <1>2, <1>3, AddCases DEF AddFacts, Keeps

LEMMA SubShape ==
    ASSUME NEW x, NEW y, NEW r, IntOK(x), IntOK(y), IntOK(r) PROVE Keeps(subAGtB(x, y, r), r)
  <1>1. x.d \in Nat /\ r.m \in Nat
    BY IntFacts
  <1>2. PICK n \in Nat : n = Min({x.d, r.m})
    BY <1>1, MinOfTwo
  <1> QED
    BY <1>2, SubCases DEF SubFacts, Keeps

LEMMA SubAbsShape ==
    ASSUME NEW x, NEW y, NEW r, IntOK(x), IntOK(y), IntOK(r) PROVE Keeps(int_sub_abs(x, y, r), r)
  <1>1. PICK yes \in BOOLEAN : yes
    BY YesAndNo
  <1>2. PICK no \in BOOLEAN : ~no
    BY YesAndNo
  <1>3. Keeps([subAGtB(y, x, r) EXCEPT !.neg = yes], r)
    BY SubShape, Signed
  <1>4. Keeps([subAGtB(x, y, r) EXCEPT !.neg = no], r)
    BY SubShape, Signed
  <1>5. yes = TRUE /\ no = FALSE
    BY <1>1, <1>2
  <1> QED
    BY <1>3, <1>4, <1>5 DEF int_sub_abs

LEMMA SubAbs ==
    ASSUME NEW x, NEW y, NEW r, Number(x), Number(y), IntOK(r), ~r.over
    PROVE  Gives(int_sub_abs(x, y, r), r.m, Magnitude(x) - Magnitude(y))
  <1>1. PICK yes \in BOOLEAN : yes
    BY YesAndNo
  <1>2. PICK no \in BOOLEAN : ~no
    BY YesAndNo
  <1>3. IntOK(x) /\ IntOK(y)
    BY DEF Number
  <1>4. PICK u \in Nat, v \in Nat : u = Magnitude(x) /\ v = Magnitude(y)
    BY <1>3, MagnitudeIs
  <1>5. int_is_abs(x, y) = Order(u, v)
    BY <1>4, CompareAbs
  <1>6. yes = TRUE /\ no = FALSE
    BY <1>1, <1>2
  <1>7. CASE u < v
    <2>1. Keeps(subAGtB(y, x, r), r)
      BY <1>3, SubShape
    <2>2. PICK w \in Nat : w = v - u
      BY <1>7
    <2>3. Exactly(subAGtB(y, x, r), r.m, w)
      <3>1. Magnitude(y) >= Magnitude(x) /\ Magnitude(y) - Magnitude(x) = w
        BY <1>4, <1>7, <2>2
      <3>2. Exactly(subAGtB(y, x, r), r.m, Magnitude(y) - Magnitude(x))
        BY <3>1, SubAGtB
      <3> QED
        BY <3>1, <3>2
    <2>4. PICK t : t = [subAGtB(y, x, r) EXCEPT !.neg = yes]
      OBVIOUS
    <2>5. Gives(t, r.m, IF yes THEN -w ELSE w)
      BY <2>1, <2>3, <2>4, Signed
    <2>6. (IF yes THEN -w ELSE w) = u - v
      BY <1>1, <2>2
    <2>7. int_sub_abs(x, y, r) = t
      BY <1>5, <1>6, <1>7, <2>4 DEF int_sub_abs, Order
    <2> QED
      BY <1>4, <2>5, <2>6, <2>7
  <1>8. CASE ~(u < v)
    <2>1. Keeps(subAGtB(x, y, r), r)
      BY <1>3, SubShape
    <2>2. PICK w \in Nat : w = u - v
      BY <1>8
    <2>3. Exactly(subAGtB(x, y, r), r.m, w)
      <3>1. Magnitude(x) >= Magnitude(y) /\ Magnitude(x) - Magnitude(y) = w
        BY <1>4, <1>8, <2>2
      <3>2. Exactly(subAGtB(x, y, r), r.m, Magnitude(x) - Magnitude(y))
        BY <3>1, SubAGtB
      <3> QED
        BY <3>1, <3>2
    <2>4. PICK t : t = [subAGtB(x, y, r) EXCEPT !.neg = no]
      OBVIOUS
    <2>5. Gives(t, r.m, IF no THEN -w ELSE w)
      BY <2>1, <2>3, <2>4, Signed
    <2>6. (IF no THEN -w ELSE w) = u - v
      BY <1>2, <2>2
    <2>7. int_sub_abs(x, y, r) = t
      <3>1. Order(u, v) # "LT"
        BY <1>8 DEF Order
      <3> QED
        BY <1>5, <1>6, <2>4, <3>1 DEF int_sub_abs
    <2> QED
      BY <1>4, <2>5, <2>6, <2>7
  <1> QED
    BY <1>7, <1>8

LEMMA AddSigned ==
    ASSUME NEW x, NEW y, NEW r, IntOK(x), IntOK(y), IntOK(r)
    PROVE  /\ Keeps([addPos(x, y, r) EXCEPT !.neg = x.neg], r)
           /\ Number(x) /\ Number(y) /\ ~r.over =>
                Gives([addPos(x, y, r) EXCEPT !.neg = x.neg], r.m,
                      IF x.neg THEN -(Magnitude(x) + Magnitude(y)) ELSE Magnitude(x) + Magnitude(y))
  <1>1. PICK b \in BOOLEAN : b = x.neg
    BY IntFacts
  <1>2. PICK w \in Nat : w = Magnitude(x) + Magnitude(y)
    BY MagnitudeIs
  <1>3. PICK t : t = [addPos(x, y, r) EXCEPT !.neg = b]
    OBVIOUS
  <1>4. Keeps(addPos(x, y, r), r)
    BY AddShape
  <1>5. Keeps(t, r)
    BY <1>3, <1>4, Signed
  <1>6. ASSUME Number(x), Number(y), ~r.over PROVE Gives(t, r.m, IF b THEN -w ELSE w)
    <2>1. Exactly(addPos(x, y, r), r.m, w)
      BY <1>2, <1>6, AddPos
    <2> QED
      BY <1>3, <1>4, <2>1, Signed
  <1> QED
    BY <1>1, <1>2, <1>3, <1>5, <1>6

LEMMA IntAddShape ==
    ASSUME NEW x, NEW y, NEW r, IntOK(x), IntOK(y), IntOK(r) PROVE Keeps(int_add(x, y, r), r)
  <1>1. x.neg \in BOOLEAN /\ y.neg \in BOOLEAN
    BY IntFacts
  <1>2. Keeps([addPos(x, y, r) EXCEPT !.neg = x.neg], r) /\ Keeps(int_sub_abs(x, y, r), r) /\ Keeps(int_sub_abs(y, x, r), r)
    BY AddSigned, SubAbsShape
  <1> QED
    BY <1>1, <1>2 DEF int_add

LEMMA IntSubShape ==
    ASSUME NEW x, NEW y, NEW r, IntOK(x), IntOK(y), IntOK(r) PROVE Keeps(int_sub(x, y, r), r)
  <1>1. x.neg \in BOOLEAN /\ y.neg \in BOOLEAN
    BY IntFacts
  <1>2. Keeps([addPos(x, y, r) EXCEPT !.neg = x.neg], r) /\ Keeps(int_sub_abs(x, y, r), r) /\ Keeps(int_sub_abs(y, x, r), r)
    BY AddSigned, SubAbsShape
  <1> QED
    BY <1>1, <1>2 DEF int_sub

(* int_add gives the sum for either sign of either number, or sets the     *)
(* flag if the result has no room for it.                                  *)
THEOREM IntAdd ==
    ASSUME NEW x, NEW y, NEW r, Number(x), Number(y), IntOK(r), ~r.over
    PROVE  Gives(int_add(x, y, r), r.m, Val(x) + Val(y))
  <1>1. IntOK(x) /\ IntOK(y) /\ x.neg \in BOOLEAN /\ y.neg \in BOOLEAN
    BY IntFacts DEF Number
  <1>2. PICK u \in Nat, v \in Nat : u = Magnitude(x) /\ v = Magnitude(y)
    BY <1>1, MagnitudeIs
  <1>3. Gives([addPos(x, y, r) EXCEPT !.neg = x.neg], r.m, IF x.neg THEN -(u + v) ELSE u + v)
    BY <1>1, <1>2, AddSigned
  <1>4. Gives(int_sub_abs(x, y, r), r.m, u - v) /\ Gives(int_sub_abs(y, x, r), r.m, v - u)
    BY <1>2, SubAbs
  <1>5. Val(x) = (IF x.neg THEN -u ELSE u) /\ Val(y) = (IF y.neg THEN -v ELSE v)
    BY <1>2 DEF Val
  <1>6. CASE x.neg = y.neg
    <2>1. int_add(x, y, r) = [addPos(x, y, r) EXCEPT !.neg = x.neg]
      BY <1>1, <1>6 DEF int_add
    <2>2. Val(x) + Val(y) = IF x.neg THEN -(u + v) ELSE u + v
      BY <1>5, <1>6
    <2> QED
      BY <1>3, <2>1, <2>2
  <1>7. CASE x.neg /\ ~y.neg
    <2>1. int_add(x, y, r) = int_sub_abs(y, x, r)
      BY <1>1, <1>7 DEF int_add
    <2>2. Val(x) + Val(y) = v - u
      BY <1>5, <1>7
    <2> QED
      BY <1>4, <2>1, <2>2
  <1>8. CASE ~x.neg /\ y.neg
    <2>1. int_add(x, y, r) = int_sub_abs(x, y, r)
      BY <1>1, <1>8 DEF int_add
    <2>2. Val(x) + Val(y) = u - v
      BY <1>5, <1>8
    <2> QED
      BY <1>4, <2>1, <2>2
  <1> QED
    BY <1>1, <1>6, <1>7, <1>8

(* int_sub gives the difference for either sign of either number, or sets  *)
(* the flag if the result has no room for it.                              *)
THEOREM IntSub ==
    ASSUME NEW x, NEW y, NEW r, Number(x), Number(y), IntOK(r), ~r.over
    PROVE  Gives(int_sub(x, y, r), r.m, Val(x) - Val(y))
  <1>1. IntOK(x) /\ IntOK(y) /\ x.neg \in BOOLEAN /\ y.neg \in BOOLEAN
    BY IntFacts DEF Number
  <1>2. PICK u \in Nat, v \in Nat : u = Magnitude(x) /\ v = Magnitude(y)
    BY <1>1, MagnitudeIs
  <1>3. Gives([addPos(x, y, r) EXCEPT !.neg = x.neg], r.m, IF x.neg THEN -(u + v) ELSE u + v)
    BY <1>1, <1>2, AddSigned
  <1>4. Gives(int_sub_abs(x, y, r), r.m, u - v) /\ Gives(int_sub_abs(y, x, r), r.m, v - u)
    BY <1>2, SubAbs
  <1>5. Val(x) = (IF x.neg THEN -u ELSE u) /\ Val(y) = (IF y.neg THEN -v ELSE v)
    BY <1>2 DEF Val
  <1>6. CASE x.neg # y.neg
    <2>1. int_sub(x, y, r) = [addPos(x, y, r) EXCEPT !.neg = x.neg]
      BY <1>1, <1>6 DEF int_sub
    <2>2. Val(x) - Val(y) = IF x.neg THEN -(u + v) ELSE u + v
      BY <1>1, <1>5, <1>6
    <2> QED
      BY <1>3, <2>1, <2>2
  <1>7. CASE x.neg /\ y.neg
    <2>1. int_sub(x, y, r) = int_sub_abs(y, x, r)
      BY <1>1, <1>7 DEF int_sub
    <2>2. Val(x) - Val(y) = v - u
      BY <1>5, <1>7
    <2> QED
      BY <1>4, <2>1, <2>2
  <1>8. CASE ~x.neg /\ ~y.neg
    <2>1. int_sub(x, y, r) = int_sub_abs(x, y, r)
      BY <1>1, <1>8 DEF int_sub
    <2>2. Val(x) - Val(y) = u - v
      BY <1>5, <1>8
    <2> QED
      BY <1>4, <2>1, <2>2
  <1> QED
    BY <1>1, <1>6, <1>7, <1>8

-----------------------------------------------------------------------------
(* Shifts by whole digits.                                                 *)
Shifted(g, h, s, j) == \A k \in 1 .. j : g[s + k] = h[k]

LEMMA AmountShift ==
    ASSUME NEW m \in Nat, NEW h \in Halves(m), NEW n \in Nat, NEW g \in Halves(n), NEW s \in Nat, NEW j \in Nat,
           j <= m, s + j <= n, Shifted(g, h, s, j)
    PROVE  Amount(g)[s + j] = Amount(g)[s] + Amount(h)[j] * Power(Base, s)
  <1> DEFINE S == {k \in 0 .. j : Amount(g)[s + k] = Amount(g)[s] + Amount(h)[k] * Power(Base, s)}
  <1>1. s \in 0 .. n /\ Power(Base, s) \in Nat
    BY BasePower
  <1>2. 0 \in S
    <2>1. Amount(h)[0] = 0 /\ Amount(g)[s] \in Nat /\ s + 0 = s
      BY <1>1, AmountIs
    <2> QED
      BY <1>1, <2>1
  <1>3. ASSUME NEW k \in 0 .. j - 1, k \in S PROVE k + 1 \in S
    <2>1. /\ k \in Nat /\ k + 1 \in 1 .. j /\ k + 1 \in 0 .. j /\ k \in 0 .. m - 1 /\ k \in 0 .. m /\ k + 1 \in 1 .. m
          /\ s + k \in 0 .. n - 1 /\ s + k \in 0 .. n /\ s + (k + 1) = s + k + 1
      OBVIOUS
    <2>2. PICK a \in Nat, b \in Nat, c \in Nat, p \in Nat, q \in Nat :
            /\ a = Amount(g)[s] /\ b = Amount(h)[k] /\ c = h[k + 1] /\ p = Power(Base, s) /\ q = Power(Base, k)
      <3>1. Amount(g)[s] \in Nat /\ Amount(h)[k] \in Nat
        BY <1>1, <2>1, AmountIs
      <3>2. h[k + 1] \in Nat
        BY <2>1, HalfIs
      <3>3. Power(Base, k) \in Nat
        BY <2>1, BasePower
      <3> QED
        BY <1>1, <3>1, <3>2, <3>3
    <2>3. Power(Base, s + k) = p * q
      BY <2>1, <2>2, BaseIs, PowerAdd
    <2>4. Amount(g)[s + k + 1] = (a + b * p) + c * (p * q)
      <3>1. Amount(g)[s + k + 1] = Amount(g)[s + k] + g[s + k + 1] * Power(Base, s + k)
        BY <2>1, AmountIs
      <3>2. g[s + k + 1] = c
        BY <2>1, <2>2 DEF Shifted
      <3> QED
        BY <1>3, <2>2, <2>3, <3>1, <3>2
    <2>5. Amount(h)[k + 1] = b + c * q
      BY <2>1, <2>2, AmountIs
    <2>6. (a + b * p) + c * (p * q) = a + (b + c * q) * p
      OBVIOUS
    <2> QED
      BY <2>1, <2>2, <2>4, <2>5, <2>6
  <1> HIDE DEF S
  <1>4. j \in S
    <2>1. j \in 0 .. j
      OBVIOUS
    <2> QED
      BY <1>2, <1>3, <2>1, InductionTo
  <1> QED
    BY <1>4 DEF S

LEMMA LowerPower ==
    ASSUME NEW j \in Nat, NEW k \in Nat, Power(Base, j) < Power(Base, k) PROVE j < k
  <1> SUFFICES ASSUME k <= j PROVE FALSE
    OBVIOUS
  <1>1. Base \in Nat /\ Base > 0
    BY BaseIs
  <1>2. Power(Base, k) <= Power(Base, j) /\ Power(Base, k) \in Nat /\ Power(Base, j) \in Nat
    BY <1>1, PowerGrows, BasePower
  <1> QED
    BY <1>2

(* A number that is not zero is at least its highest power.                *)
LEMMA NotLess ==
    ASSUME NEW i, Number(i), Magnitude(i) # 0 PROVE i.d - 1 \in Nat /\ Power(Base, i.d - 1) <= Magnitude(i)
  <1>1. i.d \in Nat /\ i.d > 0 /\ Magnitude(i) \in Nat
    BY IntFacts, MagnitudeIs DEF Number
  <1>2. CASE i.d = 1
    BY <1>1, <1>2, SmallPowers
  <1>3. CASE i.d > 1
    BY <1>1, <1>3, MagnitudeLeast
  <1> QED
    BY <1>1, <1>2, <1>3

LEMMA ShiftRoom ==
    ASSUME NEW i, Number(i), Magnitude(i) # 0, NEW s \in Nat, NEW m \in Nat, Magnitude(i) * Power(Base, s) < Power(Base, m)
    PROVE  i.d + s <= m
  <1>1. i.d \in Nat /\ i.d - 1 \in Nat /\ Power(Base, i.d - 1) <= Magnitude(i)
    BY NotLess, IntFacts DEF Number
  <1>2. PICK x \in Nat, p \in Nat, q \in Nat, w \in Nat :
          x = Magnitude(i) /\ p = Power(Base, i.d - 1) /\ q = Power(Base, s) /\ w = Power(Base, m)
    <2>1. Magnitude(i) \in Nat
      BY MagnitudeIs DEF Number
    <2>2. Power(Base, i.d - 1) \in Nat /\ Power(Base, s) \in Nat /\ Power(Base, m) \in Nat
      BY <1>1, BasePower
    <2> QED
      BY <2>1, <2>2
  <1>3. Power(Base, (i.d - 1) + s) = p * q /\ (i.d - 1) + s \in Nat
    <2>1. PICK e \in Nat : e = i.d - 1
      BY <1>1
    <2>2. Power(Base, e + s) = Power(Base, e) * Power(Base, s)
      BY BaseIs, PowerAdd
    <2> QED
      BY <1>2, <2>1, <2>2
  <1>4. p * q <= x * q
    <2>1. x - p \in Nat /\ x * q = p * q + (x - p) * q /\ (x - p) * q \in Nat
      BY <1>1, <1>2
    <2> QED
      BY <2>1
  <1>5. Power(Base, (i.d - 1) + s) < Power(Base, m)
    BY <1>2, <1>3, <1>4
  <1>6. (i.d - 1) + s < m
    BY <1>3, <1>5, LowerPower
  <1> QED
    BY <1>1, <1>6

LEMMA ShiftUp ==
    ASSUME NEW i, Number(i), NEW s \in Nat, Magnitude(i) * Power(Base, s) < Power(Base, i.m)
    PROVE  /\ Number(int_shift(s, i)) /\ int_shift(s, i).m = i.m
           /\ int_shift(s, i).neg = i.neg /\ int_shift(s, i).over = i.over
           /\ Magnitude(int_shift(s, i)) = Magnitude(i) * Power(Base, s)
           /\ Magnitude(i) # 0 => int_shift(s, i).d = i.d + s
  <1>1. CASE int_is_zero(i)
    <2>1. int_shift(s, i) = i
      BY <1>1 DEF int_shift
    <2>2. Magnitude(i) = 0 /\ Power(Base, s) \in Nat
      BY <1>1, ZeroIs, BasePower
    <2> QED
      BY <2>1, <2>2
  <1>2. CASE ~int_is_zero(i)
    <2>1. Magnitude(i) # 0
      BY <1>2, ZeroIs
    <2>2. i.m \in Nat /\ i.m > 1 /\ i.m % 2 = 0 /\ i.d \in Nat /\ i.d > 0 /\ i.d <= i.m /\ i.h \in Halves(i.m) /\ IntOK(i)
      BY IntFacts DEF Number
    <2>3. i.d + s <= i.m
      BY <2>1, <2>2, ShiftRoom
    <2> DEFINE f == [k \in 0 .. i.d + s |-> IF k \in s .. i.d + s - 1 THEN Half(i, k - s) ELSE 0]
               set == Store(i, f)
               t == [set EXCEPT !.d = @ + s]
    <2>4. int_shift(s, i) = t
      <3>1. s >= 0 /\ ~(i.d + s > i.m)
        BY <2>2, <2>3
      <3> QED
        BY <1>2, <2>3, <3>1 DEF int_shift
    <2>5. \A k \in 0 .. i.m - 1 : k \in DOMAIN f => f[k] \in 0 .. Base - 1
      <3> TAKE k \in 0 .. i.m - 1
      <3>1. ASSUME k \in s .. i.d + s - 1 PROVE i.h[k - s + 1] \in 0 .. Base - 1
        <4>1. k - s + 1 \in 1 .. i.m
          BY <2>2, <3>1
        <4> QED
          BY <2>2, <4>1 DEF Halves
      <3>2. 0 \in 0 .. Base - 1
        BY BaseIs
      <3> QED
        BY <3>1, <3>2 DEF Half
    <2>6. \A k \in 1 .. s : k - 1 \in DOMAIN f /\ f[k - 1] = 0 /\ k \in 1 .. i.m
      <3> TAKE k \in 1 .. s
      <3>1. k - 1 \in 0 .. i.d + s /\ k - 1 \notin s .. i.d + s - 1 /\ k \in 1 .. i.m
        BY <2>2, <2>3
      <3> QED
        BY <3>1
    <2>7. \A k \in 1 .. i.d : s + k - 1 \in DOMAIN f /\ f[s + k - 1] = i.h[k] /\ s + k \in 1 .. i.m
      <3> TAKE k \in 1 .. i.d
      <3>1. s + k - 1 \in 0 .. i.d + s /\ s + k - 1 \in s .. i.d + s - 1 /\ s + k \in 1 .. i.m /\ (s + k - 1) - s + 1 = k
        BY <2>2, <2>3
      <3> QED
        BY <3>1 DEF Half
    <2>8. i.d + s + 1 - 1 \in DOMAIN f /\ f[i.d + s + 1 - 1] = 0
      <3>1. i.d + s + 1 - 1 \in 0 .. i.d + s /\ i.d + s + 1 - 1 \notin s .. i.d + s - 1
        BY <2>2
      <3> QED
        BY <3>1
    <2> HIDE DEF f
    <2>9. /\ IntOK(set) /\ set.m = i.m /\ set.d = i.d /\ set.neg = i.neg /\ set.over = i.over
          /\ \A k \in 1 .. i.m : set.h[k] = IF k - 1 \in DOMAIN f THEN f[k - 1] ELSE i.h[k]
      BY <2>2, <2>5, StoreFacts
    <2> HIDE DEF set
    <2>10. \A k \in 1 .. s : set.h[k] = 0
      BY <2>6, <2>9
    <2>11. \A k \in 1 .. i.d : set.h[s + k] = i.h[k]
      BY <2>7, <2>9
    <2>12. i.d + s + 1 <= i.m => set.h[i.d + s + 1] = 0
      <3>1. i.d + s + 1 <= i.m => i.d + s + 1 \in 1 .. i.m
        BY <2>2
      <3>2. PICK z \in Nat : z = i.d + s + 1
        BY <2>2
      <3>3. z - 1 \in DOMAIN f /\ f[z - 1] = 0 /\ (z <= i.m => z \in 1 .. i.m)
        <4>1. z - 1 = i.d + s + 1 - 1
          BY <2>2, <3>2
        <4>2. z - 1 \in DOMAIN f /\ f[z - 1] = 0
          BY <2>8, <4>1
        <4>3. z <= i.m => z \in 1 .. i.m
          BY <2>2, <3>2
        <4> QED
          BY <4>2, <4>3
      <3>4. z <= i.m => set.h[z] = 0
        BY <2>9, <3>3
      <3> QED
        BY <3>2, <3>4
    <2>13. /\ IntOK(t) /\ t.m = i.m /\ t.d = i.d + s /\ t.neg = i.neg /\ t.over = i.over /\ t.h = set.h
      <3>1. set \in Ints(i.m) /\ Room(i.m) /\ i.d + s \in 1 .. i.m
        BY <2>2, <2>3, <2>9 DEF IntOK
      <3>2. t = [set EXCEPT !.d = i.d + s]
        BY <2>9
      <3> HIDE DEF t
      <3>3. t \in Ints(i.m) /\ t.m = i.m /\ t.d = i.d + s /\ t.neg = i.neg /\ t.over = i.over /\ t.h = set.h
        BY <2>9, <3>1, <3>2 DEF Ints
      <3> QED
        BY <3>1, <3>3 DEF IntOK
    <2> HIDE DEF t
    <2>14. set.h \in Halves(i.m)
      BY <2>9, IntFacts
    <2>15. Amount(set.h)[s] = 0
      <3>1. 0 \in 0 .. i.m /\ s \in 0 .. i.m /\ \A k \in 0 + 1 .. s : set.h[k] = 0
        BY <2>2, <2>3, <2>10
      <3>2. Amount(set.h)[s] = Amount(set.h)[0]
        BY <2>2, <2>14, <3>1, AmountZeros
      <3> QED
        BY <2>2, <2>14, <3>2, AmountIs
    <2>16. Amount(set.h)[s + i.d] = Amount(set.h)[s] + Amount(i.h)[i.d] * Power(Base, s)
      <3>1. s + i.d <= i.m
        BY <2>2, <2>3
      <3> QED
        <4>1. PICK d \in Nat : d = i.d
          BY <2>2
        <4>2. Shifted(set.h, i.h, s, d) /\ d <= i.m /\ s + d <= i.m
          BY <2>2, <2>11, <3>1, <4>1 DEF Shifted
        <4>3. Amount(set.h)[s + d] = Amount(set.h)[s] + Amount(i.h)[d] * Power(Base, s)
          BY <2>2, <2>14, <4>2, AmountShift
        <4> QED
          BY <4>1, <4>3
    <2>17. Magnitude(t) = Magnitude(i) * Power(Base, s)
      <3>1. PICK x \in Nat, p \in Nat : x = Magnitude(i) /\ p = Power(Base, s)
        BY <2>2, MagnitudeIs, BasePower
      <3>2. s + i.d = i.d + s
        BY <2>2
      <3>3. Magnitude(t) = 0 + x * p
        BY <2>13, <2>15, <2>16, <3>1, <3>2 DEF Magnitude
      <3> QED
        BY <3>1, <3>3
    <2>18. Number(t)
      <3>1. t.d % 2 = 1 => t.h[t.d + 1] = 0
        <4>1. (i.d + s) % 2 = 1 => i.d + s + 1 <= i.m
          <5>1. PICK d \in Nat, m \in Nat : d = i.d /\ m = i.m
            BY <2>2
          <5>2. m % 2 = 0 /\ d + s <= m
            BY <2>2, <2>3, <5>1
          <5>3. (d + s) % 2 = 1 => d + s + 1 <= m
            BY <5>2
          <5> QED
            BY <5>1, <5>3
        <4> QED
          BY <2>12, <2>13, <4>1
      <3>2. t.d > 1 => t.h[t.d] # 0
        <4>1. i.h[i.d] # 0
          <5>1. i.d \in 1 .. i.m /\ Power(Base, i.d - 1) <= Amount(i.h)[i.d]
            BY <2>1, <2>2, NotLess DEF Magnitude
          <5> QED
            BY <2>2, <5>1, TopDigit
        <4>2. i.d \in 1 .. i.d /\ s + i.d = i.d + s
          BY <2>2
        <4>3. set.h[s + i.d] = i.h[i.d]
          BY <2>11, <4>2
        <4> QED
          BY <2>13, <4>1, <4>2, <4>3
      <3> QED
        BY <2>13, <3>1, <3>2, NumberIs
    <2> QED
      BY <2>4, <2>13, <2>17, <2>18
  <1> QED
    BY <1>1, <1>2

(* Down by one digit, which is the quotient by the base.                   *)
LEMMA ShiftDown ==
    ASSUME NEW i, Number(i), i.d > 1, NEW z \in Nat, Magnitude(i) = Base * z
    PROVE  /\ Number(int_shift(-1, i)) /\ int_shift(-1, i).m = i.m /\ int_shift(-1, i).d = i.d - 1
           /\ int_shift(-1, i).neg = i.neg /\ int_shift(-1, i).over = i.over
           /\ Magnitude(int_shift(-1, i)) = z
  <1>1. i.m \in Nat /\ i.m > 1 /\ i.m % 2 = 0 /\ i.d \in Nat /\ i.d <= i.m /\ i.h \in Halves(i.m) /\ IntOK(i)
    BY IntFacts DEF Number
  <1>2. PICK d \in Nat : d = i.d /\ d > 1 /\ d <= i.m
    BY <1>1
  <1>3. ~int_is_zero(i)
    BY <1>2 DEF int_is_zero
  <1> DEFINE f == [k \in 0 .. d - 1 |-> IF k < d - 1 THEN Half(i, k + 1) ELSE 0]
             set == Store(i, f)
             t == [set EXCEPT !.d = d - 1]
  <1>4. int_shift(-1, i) = t
    <2>1. ~(-1 >= 0) /\ Max({1, d - 1}) = d - 1
      BY <1>2, MaxOfTwo
    <2>2. f = [k \in 0 .. i.d - 1 |-> IF k < i.d + (-1) THEN Half(i, k - (-1)) ELSE 0]
      <3>1. \A k \in 0 .. d - 1 : k - (-1) = k + 1 /\ (k < d + (-1) <=> k < d - 1)
        OBVIOUS
      <3> QED
        BY <1>2, <3>1
    <2>3. i.d + (-1) = d - 1
      BY <1>2
    <2> HIDE DEF f
    <2>4. int_shift(-1, i) = [set EXCEPT !.d = Max({1, @ + (-1)})]
      BY <1>3, <2>1, <2>2 DEF int_shift
    <2>5. set.d = i.d
      BY DEF Store
    <2> HIDE DEF set
    <2> QED
      BY <2>1, <2>3, <2>4, <2>5
  <1>5. \A k \in 0 .. i.m - 1 : k \in DOMAIN f => f[k] \in 0 .. Base - 1
    <2> TAKE k \in 0 .. i.m - 1
    <2>1. ASSUME k < d - 1 PROVE i.h[k + 1 + 1] \in 0 .. Base - 1
      <3>1. k + 1 + 1 \in 1 .. i.m
        BY <1>1, <1>2, <2>1
      <3> QED
        BY <1>1, <3>1 DEF Halves
    <2>2. 0 \in 0 .. Base - 1
      BY BaseIs
    <2> QED
      BY <2>1, <2>2 DEF Half
  <1>6. \A k \in 1 .. d - 1 : k - 1 \in DOMAIN f /\ f[k - 1] = i.h[1 + k] /\ k \in 1 .. i.m
    <2> TAKE k \in 1 .. d - 1
    <2>1. k - 1 \in 0 .. d - 1 /\ k - 1 < d - 1 /\ k - 1 + 1 + 1 = 1 + k /\ k \in 1 .. i.m
      BY <1>1, <1>2
    <2> QED
      BY <2>1 DEF Half
  <1>7. d - 1 \in DOMAIN f /\ f[d - 1] = 0 /\ d \in 1 .. i.m
    BY <1>1, <1>2
  <1> HIDE DEF f
  <1>8. /\ IntOK(set) /\ set.m = i.m /\ set.neg = i.neg /\ set.over = i.over
        /\ \A k \in 1 .. i.m : set.h[k] = IF k - 1 \in DOMAIN f THEN f[k - 1] ELSE i.h[k]
    BY <1>1, <1>5, StoreFacts
  <1> HIDE DEF set
  <1>9. \A k \in 1 .. d - 1 : set.h[k] = i.h[1 + k]
    BY <1>6, <1>8
  <1>10. set.h[d] = 0
    BY <1>7, <1>8
  <1>11. /\ IntOK(t) /\ t.m = i.m /\ t.d = d - 1 /\ t.neg = i.neg /\ t.over = i.over /\ t.h = set.h
    <2>1. set \in Ints(i.m) /\ Room(i.m) /\ d - 1 \in 1 .. i.m
      BY <1>1, <1>2, <1>8 DEF IntOK
    <2>2. t \in Ints(i.m) /\ t.m = i.m /\ t.d = d - 1 /\ t.neg = i.neg /\ t.over = i.over /\ t.h = set.h
      BY <1>8, <2>1 DEF Ints
    <2> HIDE DEF t
    <2> QED
      BY <2>1, <2>2 DEF IntOK
  <1> HIDE DEF t
  <1>12. set.h \in Halves(i.m)
    BY <1>8, IntFacts
  <1>13. Amount(i.h)[1 + (d - 1)] = Amount(i.h)[1] + Amount(set.h)[d - 1] * Power(Base, 1)
    <2>1. PICK j \in Nat : j = d - 1
      BY <1>2
    <2>2. Shifted(i.h, set.h, 1, j) /\ j <= i.m /\ 1 + j <= i.m /\ 1 \in Nat
      BY <1>1, <1>2, <1>9, <2>1 DEF Shifted
    <2>3. Amount(i.h)[1 + j] = Amount(i.h)[1] + Amount(set.h)[j] * Power(Base, 1)
      BY <1>1, <1>12, <2>2, AmountShift
    <2> QED
      BY <2>1, <2>3
  <1>14. PICK w \in Nat, u \in Nat : w = Magnitude(t) /\ u = Amount(i.h)[1] /\ u < Base /\ Base * z = u + w * Base
    <2>1. Magnitude(t) \in Nat /\ Magnitude(t) = Amount(set.h)[d - 1]
      BY <1>11, MagnitudeIs DEF Magnitude
    <2>2. Power(Base, 1) = Base /\ 1 \in 0 .. i.m
      BY <1>1, SmallPowers
    <2>3. Amount(i.h)[1] \in Nat /\ Amount(i.h)[1] < Base
      BY <1>1, <2>2, AmountBound
    <2>4. 1 + (d - 1) = d /\ Magnitude(i) = Amount(i.h)[d]
      BY <1>2 DEF Magnitude
    <2> QED
      BY <1>13, <2>1, <2>2, <2>3, <2>4
  <1>15. w = z
    <2>1. Base \in Nat /\ Base > 0
      BY BaseIs
    <2>2. PICK x \in Nat : x = Base * z
      BY <2>1
    <2>3. Splits(x, Base, z, 0) /\ 0 \in Nat
      BY <2>1, <2>2 DEF Splits
    <2>4. Splits(x, Base, w, u)
      <3>1. w * Base = Base * w
        BY <2>1
      <3> QED
        BY <1>14, <2>1, <2>2, <3>1 DEF Splits
    <2>5. x \div Base = z
      BY <2>1, <2>3, DivIs
    <2>6. x \div Base = w
      BY <2>1, <2>4, DivIs
    <2> QED
      BY <2>5, <2>6
  <1>16. Number(t)
    <2>1. t.d + 1 = d /\ (t.d > 1 => t.d \in 1 .. d - 1) /\ 1 + (d - 1) = d
      BY <1>2, <1>11
    <2>2. i.h[d] # 0
      BY <1>2, NumberTop
    <2>3. t.d > 1 => t.h[t.d] # 0
      BY <1>9, <1>11, <2>1, <2>2
    <2> QED
      BY <1>10, <1>11, <2>1, <2>3, NumberIs
  <1> QED
    BY <1>2, <1>4, <1>11, <1>14, <1>15, <1>16

-----------------------------------------------------------------------------
(* Multiplication.                                                         *)
LEMMA TimesGrows ==
    ASSUME NEW u \in Nat, NEW v \in Nat, u <= v, NEW w \in Nat PROVE u * w <= v * w /\ w * u <= w * v
  <1>1. v - u \in Nat /\ v * w = u * w + (v - u) * w /\ (v - u) * w \in Nat /\ u * w \in Nat
    OBVIOUS
  <1>2. w * u = u * w /\ w * v = v * w
    OBVIOUS
  <1> QED
    BY <1>1, <1>2

LEMMA MaxDigitsIs == MaxDigits \in Nat /\ MaxDigits >= 4 /\ MaxDigits % 2 = 0
  BY BigIntAssumption

(* C variables hold every C integer.                                       *)
LEMMA InC ==
    ASSUME NEW v \in Nat, v < Power(Base, 4) PROVE v < Power(Base, MaxDigits)
  <1>1. Base \in Nat /\ Base > 0 /\ 4 \in Nat
    BY BaseIs
  <1>2. Power(Base, 4) <= Power(Base, MaxDigits) /\ Power(Base, 4) \in Nat /\ Power(Base, MaxDigits) \in Nat
    BY <1>1, MaxDigitsIs, PowerGrows, BasePower
  <1> QED
    BY <1>2

LEMMA SetC ==
    ASSUME NEW v \in Nat, v < Power(Base, 4)
    PROVE  Holds(int_set_i(v, Concrete254), MaxDigits, v) /\ ~int_set_i(v, Concrete254).neg
  <1>1. IntOK(Concrete254) /\ Concrete254.m = MaxDigits
    BY ConcreteIs DEF Holds
  <1>2. v < Power(Base, MaxDigits)
    BY InC
  <1> QED
    BY <1>1, <1>2, SetI

(* Two digits make a C integer.                                            *)
LEMMA TwoDigits ==
    ASSUME NEW u \in Nat, NEW v \in Nat, u < Base, v < Base
    PROVE  u * v \in Nat /\ u * v < Power(Base, 2) /\ u * v < Power(Base, 4)
  <1>1. Base \in Nat /\ Base > 2 /\ 2 \in Nat /\ 4 \in Nat
    BY BaseIs
  <1>2. u * v <= Base * v /\ v * Base + Base <= Base * Base /\ v * Base = Base * v
    <2>1. u <= Base
      BY <1>1
    <2>2. u * v <= Base * v
      BY <1>1, <2>1, TimesGrows
    <2>3. v * Base + Base <= Base * Base
      BY <1>1, OneMore
    <2>4. v * Base = Base * v
      BY <1>1
    <2> QED
      BY <2>2, <2>3, <2>4
  <1>3. PICK p \in Nat, q \in Nat, r \in Nat, s \in Nat : p = u * v /\ q = Base * v /\ r = Base * Base /\ s = v * Base
    BY <1>1
  <1>4. p < r
    BY <1>1, <1>2, <1>3
  <1>5. Power(Base, 2) = r /\ Power(Base, 2) <= Power(Base, 4) /\ Power(Base, 4) \in Nat
    BY <1>1, <1>3, SmallPowers, PowerGrows, BasePower
  <1> QED
    BY <1>3, <1>4, <1>5

MulStep(x, y, ka, kb, s) ==
    LET at == ka + kb
        pp == int_set_i(Half(x, ka) * Half(y, kb), Concrete254)
        sum == int_add(s.r, int_shift(at, pp), s.r)
    IN CASE s.broke = ka -> s
         [] s.broke # ka /\ at + pp.d > s.r.m -> [r |-> [s.r EXCEPT !.over = TRUE], broke |-> ka]
         [] OTHER -> [r |-> sum, broke |-> IF sum.over THEN ka ELSE s.broke]
MulOK(s, m) == s \in [r : Ints(m), broke : Int]

(* The partial product of two digits, shifted to its place.                *)
LEMMA PartialProduct ==
    ASSUME NEW w \in Nat, w < Power(Base, 4), NEW at \in Nat, NEW pp, pp = int_set_i(w, Concrete254)
    PROVE  /\ pp.d \in Nat /\ pp.d > 0 /\ (w = 0 => pp.d = 1)
           /\ w # 0 => pp.d - 1 \in Nat /\ Power(Base, pp.d - 1) <= w
           /\ at + pp.d <= MaxDigits =>
                /\ Number(int_shift(at, pp)) /\ ~int_shift(at, pp).neg
                /\ Magnitude(int_shift(at, pp)) = w * Power(Base, at)
  <1>2. Holds(pp, MaxDigits, w) /\ ~pp.neg
    BY SetC
  <1>3. Number(pp) /\ pp.m = MaxDigits /\ Magnitude(pp) = w
    BY <1>2 DEF Holds
  <1>4. pp.d \in Nat /\ pp.d > 0 /\ IntOK(pp)
    BY <1>3, IntFacts DEF Number
  <1>5. w = 0 => pp.d = 1
    BY <1>3, ZeroIs DEF int_is_zero
  <1>6. w # 0 => pp.d - 1 \in Nat /\ Power(Base, pp.d - 1) <= w
    BY <1>3, NotLess
  <1>7. ASSUME at + pp.d <= MaxDigits
        PROVE  /\ Number(int_shift(at, pp)) /\ ~int_shift(at, pp).neg
               /\ Magnitude(int_shift(at, pp)) = w * Power(Base, at)
    <2>1. PICK d \in Nat, p \in Nat, q \in Nat, t \in Nat :
            d = pp.d /\ p = Power(Base, d) /\ q = Power(Base, at) /\ t = Power(Base, MaxDigits) /\ q > 0
      BY <1>4, MaxDigitsIs, BasePower
    <2>2. w < p
      BY <1>3, <1>4, <2>1, MagnitudeIs
    <2>3. Power(Base, at + d) = q * p /\ at + d \in Nat /\ at + d <= MaxDigits
      <3>1. Power(Base, at + d) = Power(Base, at) * Power(Base, d)
        BY BaseIs, PowerAdd
      <3>2. at + d \in Nat /\ at + d <= MaxDigits
        BY <1>7, <2>1, MaxDigitsIs
      <3> QED
        BY <2>1, <3>1, <3>2
    <2>4. q * p <= t
      <3>1. Base \in Nat /\ Base > 0
        BY BaseIs
      <3> QED
        BY <2>1, <2>3, <3>1, MaxDigitsIs, PowerGrows
    <2>5. w * q + q <= p * q /\ p * q = q * p
      BY <2>1, <2>2, OneMore
    <2>6. w * q < t
      <3>1. PICK wq \in Nat, pq \in Nat : wq = w * q /\ pq = q * p
        OBVIOUS
      <3> QED
        BY <2>1, <2>4, <2>5, <3>1
    <2> QED
      BY <1>2, <1>3, <2>1, <2>6, ShiftUp
  <1> QED
    BY <1>4, <1>5, <1>6, <1>7

LEMMA HalfDigit ==
    ASSUME NEW i, IntOK(i), NEW k \in 0 .. i.d - 1
    PROVE  Half(i, k) \in Nat /\ Half(i, k) < Base /\ Half(i, k) = i.h[k + 1]
  <1>1. i.m \in Nat /\ i.h \in Halves(i.m) /\ i.d \in Nat /\ i.d <= i.m
    BY IntFacts
  <1>2. k + 1 \in 1 .. i.m
    BY <1>1
  <1> QED
    BY <1>1, <1>2, HalfIs DEF Half

(* A step of the loop keeps the shape of its state; the flag stays.        *)
LEMMA MulShape ==
    ASSUME NEW x, NEW y, IntOK(x), IntOK(y), NEW ka \in 0 .. x.d - 1, NEW kb \in 0 .. y.d - 1,
           NEW m, Room(m), m <= MaxDigits, NEW s, MulOK(s, m)
    PROVE  MulOK(MulStep(x, y, ka, kb, s), m) /\ (s.r.over => MulStep(x, y, ka, kb, s).r.over)
  <1>1. PICK u \in Nat, v \in Nat : u = Half(x, ka) /\ v = Half(y, kb) /\ u < Base /\ v < Base
    BY HalfDigit
  <1>2. PICK at \in Nat : at = ka + kb
    <2>1. x.d \in Nat /\ y.d \in Nat
      BY IntFacts
    <2> QED
      BY <2>1
  <1>3. PICK pp : pp = int_set_i(u * v, Concrete254)
    OBVIOUS
  <1>4. pp.d \in Nat /\ (at + pp.d <= MaxDigits => Number(int_shift(at, pp)))
    <2>1. PICK w \in Nat : w = u * v /\ w < Power(Base, 4)
      BY <1>1, TwoDigits
    <2>2. pp = int_set_i(w, Concrete254)
      BY <1>3, <2>1
    <2> QED
      BY <2>1, <2>2, PartialProduct
  <1>5. m \in Nat /\ IntOK(s.r) /\ s.r.m = m /\ s.r \in Ints(m) /\ s.r.over \in BOOLEAN
    <2>1. m \in Nat /\ s.r \in Ints(m)
      BY DEF Room, MulOK
    <2>2. s.r.m = m /\ s.r.over \in BOOLEAN
      BY <2>1 DEF Ints
    <2> QED
      BY <2>1, <2>2 DEF IntOK
  <1>6. PICK sum : sum = int_add(s.r, int_shift(at, pp), s.r)
    OBVIOUS
  <1>7. MulStep(x, y, ka, kb, s) =
          CASE s.broke = ka -> s
            [] s.broke # ka /\ at + pp.d > s.r.m -> [r |-> [s.r EXCEPT !.over = TRUE], broke |-> ka]
            [] OTHER -> [r |-> sum, broke |-> IF sum.over THEN ka ELSE s.broke]
    BY <1>1, <1>2, <1>3, <1>6 DEF MulStep
  <1>8. CASE s.broke = ka
    BY <1>7, <1>8
  <1>9. CASE s.broke # ka /\ at + pp.d > s.r.m
    <2>1. PICK o : o = [s.r EXCEPT !.over = TRUE]
      OBVIOUS
    <2>2. o \in Ints(m) /\ o.over
      BY <1>5, <2>1 DEF Ints
    <2>3. MulStep(x, y, ka, kb, s) = [r |-> o, broke |-> ka]
      BY <1>7, <1>9, <2>1
    <2>4. ka \in Int
      <3>1. x.d \in Nat
        BY IntFacts
      <3> QED
        BY <3>1
    <2> QED
      BY <2>2, <2>3, <2>4 DEF MulOK
  <1>10. CASE s.broke # ka /\ ~(at + pp.d > s.r.m)
    <2>1. at + pp.d <= MaxDigits
      BY <1>4, <1>5, <1>10, MaxDigitsIs
    <2>2. Keeps(sum, s.r)
      BY <1>4, <1>5, <1>6, <2>1, IntAddShape DEF Number
    <2>3. sum \in Ints(m) /\ (s.r.over => sum.over)
      BY <1>5, <2>2 DEF Keeps, IntOK
    <2>4. PICK k : k = IF sum.over THEN ka ELSE s.broke
      OBVIOUS
    <2>5. k \in Int
      <3>1. x.d \in Nat /\ s.broke \in Int
        BY IntFacts DEF MulOK
      <3> QED
        BY <2>4, <3>1
    <2>6. MulStep(x, y, ka, kb, s) = [r |-> sum, broke |-> k]
      BY <1>7, <1>10, <2>4
    <2> QED
      BY <2>3, <2>5, <2>6 DEF MulOK
  <1> QED
    BY <1>8, <1>9, <1>10

(* While there is room the result is the sum of the products so far; there *)
(* is none only if there is none for the whole product.                    *)
MulInv(s, m, v, product) ==
    /\ MulOK(s, m)
    /\ IF s.r.over THEN Power(Base, m) <= product
       ELSE s.broke = -1 /\ Number(s.r) /\ ~s.r.neg /\ Magnitude(s.r) = v

LEMMA MulStepIs ==
    ASSUME NEW x, NEW y, IntOK(x), IntOK(y), NEW ka \in 0 .. x.d - 1, NEW kb \in 0 .. y.d - 1,
           NEW m, Room(m), m <= MaxDigits, NEW s, NEW v \in Nat, NEW product \in Nat, MulInv(s, m, v, product),
           NEW w \in Nat, w = v + (Half(x, ka) * Half(y, kb)) * Power(Base, ka + kb), w <= product,
           ka + kb >= m => Power(Base, m) <= product
    PROVE  MulInv(MulStep(x, y, ka, kb, s), m, w, product)
  <1>1. PICK c \in Nat, e \in Nat : c = Half(x, ka) /\ e = Half(y, kb) /\ c < Base /\ e < Base
    BY HalfDigit
  <1>2. PICK at \in Nat : at = ka + kb
    <2>1. x.d \in Nat /\ y.d \in Nat
      BY IntFacts
    <2> QED
      BY <2>1
  <1>3. PICK z \in Nat : z = c * e /\ z < Power(Base, 4)
    BY <1>1, TwoDigits
  <1>8. PICK pp : pp = int_set_i(z, Concrete254)
    OBVIOUS
  <1>4. PICK t : t = MulStep(x, y, ka, kb, s)
    OBVIOUS
  <1>5. MulOK(s, m) /\ MulOK(t, m) /\ (s.r.over => t.r.over)
    BY <1>4, MulShape DEF MulInv
  <1>6. CASE s.r.over
    BY <1>4, <1>5, <1>6 DEF MulInv
  <1>7. CASE ~s.r.over
    <2>1. s.broke = -1 /\ Number(s.r) /\ ~s.r.neg /\ Magnitude(s.r) = v
      BY <1>7 DEF MulInv
    <2>2. m \in Nat /\ s.r.m = m /\ IntOK(s.r) /\ s.r \in Ints(m) /\ Power(Base, m) \in Nat
      <3>1. m \in Nat /\ s.r \in Ints(m)
        BY <1>5 DEF Room, MulOK
      <3>2. s.r.m = m
        BY <3>1 DEF Ints
      <3> QED
        BY <2>1, <3>1, <3>2, BasePower DEF Number
    <2>3. s.broke # ka
      <3>1. x.d \in Nat
        BY IntFacts
      <3> QED
        BY <2>1, <3>1
    <2>4. PICK sh, sum : sh = int_shift(at, pp) /\ sum = int_add(s.r, sh, s.r)
      OBVIOUS
    <2>5. t = CASE s.broke = ka -> s
                [] s.broke # ka /\ at + pp.d > s.r.m -> [r |-> [s.r EXCEPT !.over = TRUE], broke |-> ka]
                [] OTHER -> [r |-> sum, broke |-> IF sum.over THEN ka ELSE s.broke]
      BY <1>1, <1>2, <1>3, <1>8, <1>4, <2>4 DEF MulStep
    <2>6. /\ pp.d \in Nat /\ pp.d > 0 /\ (z = 0 => pp.d = 1)
          /\ z # 0 => pp.d - 1 \in Nat /\ Power(Base, pp.d - 1) <= z
      BY <1>2, <1>3, <1>8, PartialProduct
    <2>7. PICK p \in Nat, g \in Nat : p = Power(Base, at) /\ g = z * p /\ w = v + g
      <3>1. Power(Base, at) \in Nat
        BY BasePower
      <3>2. PICK p \in Nat : p = Power(Base, at)
        BY <3>1
      <3>3. w = v + z * p
        BY <1>1, <1>2, <1>3, <3>2
      <3>4. PICK g \in Nat : g = z * p
        BY <3>2
      <3> QED
        BY <3>2, <3>3, <3>4
    <2>8. CASE at + pp.d > m
      <3>1. t = [r |-> [s.r EXCEPT !.over = TRUE], broke |-> ka]
        BY <2>2, <2>3, <2>5, <2>8
      <3>2. t.r.over
        BY <2>2, <3>1 DEF Ints
      <3>3. Power(Base, m) <= product
        <4>1. CASE z = 0
          <5>1. pp.d = 1
            BY <2>6, <2>7, <4>1
          <5>2. at >= m
            BY <2>2, <2>8, <5>1
          <5>3. ka + kb >= m
            BY <1>2, <5>2
          <5> QED
            BY <5>3
        <4>2. CASE z # 0
          <5>1. PICK d \in Nat, q \in Nat : d = pp.d - 1 /\ q = Power(Base, d) /\ q <= z
            BY <2>6, <2>7, <4>2, BasePower
          <5>2. q * p <= g
            BY <2>7, <5>1, TimesGrows
          <5>3. Power(Base, d + at) = q * p /\ d + at \in Nat /\ m <= d + at
            <6>1. Power(Base, d + at) = Power(Base, d) * Power(Base, at)
              BY BaseIs, PowerAdd
            <6>2. m <= d + at
              BY <2>2, <2>6, <2>8, <5>1
            <6> QED
              BY <2>7, <5>1, <6>1, <6>2
          <5>4. Power(Base, m) <= q * p
            <6>1. Base \in Nat /\ Base > 0
              BY BaseIs
            <6>2. Power(Base, m) <= Power(Base, d + at)
              BY <2>2, <5>3, <6>1, PowerGrows
            <6> QED
              BY <5>3, <6>2
          <5>5. PICK k \in Nat : k = q * p
            OBVIOUS
          <5> QED
            BY <2>2, <2>7, <5>2, <5>4, <5>5
        <4> QED
          BY <4>1, <4>2
      <3> QED
        BY <1>4, <1>5, <3>2, <3>3 DEF MulInv
    <2>9. CASE ~(at + pp.d > m)
      <3>1. at + pp.d <= MaxDigits
        BY <2>2, <2>6, <2>9, MaxDigitsIs
      <3>2. Number(sh) /\ ~sh.neg /\ Magnitude(sh) = g
        BY <1>3, <1>8, <2>4, <2>7, <3>1, PartialProduct
      <3>3. t = [r |-> sum, broke |-> IF sum.over THEN ka ELSE s.broke]
        BY <2>2, <2>3, <2>5, <2>9
      <3>4. t.r = sum /\ (~sum.over => t.broke = -1)
        BY <2>1, <3>3
      <3>5. IntOK(sh)
        BY <3>2 DEF Number
      <3>6. PICK a1 : a1 = addPos(s.r, sh, s.r)
        OBVIOUS
      <3>7. Keeps(a1, s.r) /\ Exactly(a1, m, w)
        <4>1. Magnitude(s.r) + Magnitude(sh) = w
          BY <2>1, <2>7, <3>2
        <4> QED
          BY <1>7, <2>1, <2>2, <3>2, <3>5, <3>6, <4>1, AddShape, AddPos
      <3>8. PICK no \in BOOLEAN : no = s.r.neg
        BY <2>2, IntFacts
      <3>9. sum = [a1 EXCEPT !.neg = no]
        <4>1. sh.neg \in BOOLEAN /\ s.r.neg \in BOOLEAN
          BY <2>2, <3>5, IntFacts
        <4>2. s.r.neg = sh.neg
          BY <2>1, <3>2, <4>1
        <4> QED
          BY <2>4, <3>6, <3>8, <4>2 DEF int_add
      <3>10. /\ IntOK(sum) /\ sum.neg = no /\ sum.over = a1.over
             /\ Magnitude(sum) = Magnitude(a1) /\ (Number(a1) => Number(sum))
        BY <3>7, <3>9, SignAside DEF Keeps
      <3>11. CASE w < Power(Base, m)
        <4>1. Number(a1) /\ ~a1.over /\ Magnitude(a1) = w
          BY <3>7, <3>11 DEF Exactly, Holds
        <4>2. ~sum.over /\ Number(sum) /\ Magnitude(sum) = w /\ ~sum.neg
          BY <2>1, <3>8, <3>10, <4>1
        <4> QED
          BY <1>4, <1>5, <3>4, <4>2 DEF MulInv
      <3>12. CASE ~(w < Power(Base, m))
        <4>1. a1.over
          BY <3>7, <3>12 DEF Exactly
        <4>2. sum.over
          BY <3>10, <4>1
        <4>3. Power(Base, m) <= product
          BY <2>2, <3>12
        <4> QED
          BY <1>4, <1>5, <3>4, <4>2, <4>3 DEF MulInv
      <3> QED
        BY <3>11, <3>12
    <2> QED
      BY <2>8, <2>9
  <1> QED
    BY <1>6, <1>7

(* The turns of the two loops, counted together.                           *)
LEMMA Index ==
    ASSUME NEW X \in Nat, NEW Y \in Nat, Y > 0, NEW i \in Nat, i < X * Y
    PROVE  i \div Y \in 0 .. X - 1 /\ i % Y \in 0 .. Y - 1
  <1>1. PICK q \in Nat, r \in Nat : q = i \div Y /\ r = i % Y /\ r < Y /\ i = Y * q + r
    BY DivFacts
  <1>2. q < X
    <2> SUFFICES ASSUME X <= q PROVE FALSE
      OBVIOUS
    <2>1. X * Y <= q * Y /\ q * Y = Y * q
      BY TimesGrows
    <2>2. PICK u \in Nat, v \in Nat : u = X * Y /\ v = Y * q
      OBVIOUS
    <2> QED
      BY <1>1, <2>1, <2>2
  <1> QED
    BY <1>1, <1>2

Placed(X, Y, j, k) ==
    /\ j * Y + k \in Nat /\ j * Y + k < X * Y
    /\ (j * Y + k) \div Y = j /\ (j * Y + k) % Y = k
LEMMA IndexOf ==
    ASSUME NEW X \in Nat, NEW Y \in Nat, Y > 0, NEW j \in 0 .. X - 1, NEW k \in 0 .. Y - 1
    PROVE  Placed(X, Y, j, k)
  <1>1. j \in Nat /\ k \in Nat /\ j < X /\ k < Y
    OBVIOUS
  <1>2. j * Y + Y <= X * Y
    BY <1>1, OneMore
  <1>3. PICK u \in Nat, v \in Nat : u = j * Y /\ v = X * Y
    BY <1>1
  <1>4. u + k \in Nat /\ u + k < v
    BY <1>1, <1>2, <1>3
  <1>5. PICK i \in Nat : i = u + k
    BY <1>4
  <1>6. Splits(i, Y, j, k)
    BY <1>1, <1>3, <1>5 DEF Splits
  <1>7. i \div Y = j /\ i % Y = k
    BY <1>1, <1>6, DivIs
  <1> QED
    BY <1>3, <1>4, <1>5, <1>7 DEF Placed

MulStart(r) == [r |-> int_set_i(0, r), broke |-> -1]
MulTurns(f, x, y, r) ==
    /\ f[0] = MulStart(r)
    /\ \A ka \in 0 .. x.d - 1, kb \in 0 .. y.d - 1 :
         f[ka * y.d + kb + 1] = MulStep(x, y, ka, kb, f[ka * y.d + kb])
    /\ int_mul(x, y, r) = [f[x.d * y.d].r EXCEPT !.neg = x.neg # y.neg]

LEMMA MulLoop ==
    ASSUME NEW x, NEW y, IntOK(x), IntOK(y), NEW r, IntOK(r), r.m <= MaxDigits
    PROVE  \E f : MulTurns(f, x, y, r)
  <1>1. /\ x.d \in Nat /\ y.d \in Nat /\ y.d > 0 /\ x.d > 0 /\ Room(r.m) /\ r.m \in Nat
    BY IntFacts DEF IntOK
  <1>2. PICK X \in Nat, Y \in Nat, n \in Nat : X = x.d /\ Y = y.d /\ n = X * Y /\ Y > 0
    BY <1>1
  <1> DEFINE U == [r : Ints(r.m), broke : Int]
             step == [ks \in (1 .. n) \X U |-> MulStep(x, y, (ks[1] - 1) \div Y, (ks[1] - 1) % Y, ks[2])]
             body(f) == [j \in 0 .. x.d * y.d |->
                           IF j = 0 THEN MulStart(r) ELSE MulStep(x, y, (j - 1) \div y.d, (j - 1) % y.d, f[j - 1])]
  <1>3. MulStart(r) \in U
    <2>1. 0 < Power(Base, r.m) /\ 0 \in Nat
      BY <1>1, BasePower
    <2>2. Holds(int_set_i(0, r), r.m, 0)
      <3>1. 0 < Power(Base, 4)
        BY BasePower
      <3> QED
        BY <2>1, <3>1, SetI
    <2>3. int_set_i(0, r) \in Ints(r.m)
      BY <2>2 DEF Holds, Number, IntOK
    <2> QED
      BY <2>3 DEF MulStart
  <1>4. ASSUME NEW j \in 1 .. n, NEW s \in U
        PROVE  MulStep(x, y, (j - 1) \div Y, (j - 1) % Y, s) \in U
    <2>1. j - 1 \in Nat /\ j - 1 < X * Y
      BY <1>2
    <2>2. (j - 1) \div Y \in 0 .. x.d - 1 /\ (j - 1) % Y \in 0 .. y.d - 1
      BY <1>2, <2>1, Index
    <2>3. MulOK(s, r.m)
      BY DEF MulOK
    <2>4. MulOK(MulStep(x, y, (j - 1) \div Y, (j - 1) % Y, s), r.m)
      BY <1>1, <2>2, <2>3, MulShape
    <2> QED
      BY <2>4 DEF MulOK
  <1>5. StepTo(step, n, U)
    <2>1. \A ks \in (1 .. n) \X U : step[ks] \in U
      BY <1>4
    <2>2. step = [ks \in (1 .. n) \X U |-> step[ks]]
      OBVIOUS
    <2> HIDE DEF step, U
    <2> QED
      BY <2>1, <2>2 DEF StepTo
  <1>6. \A j \in 1 .. n, s \in U : step[<<j, s>>] = MulStep(x, y, (j - 1) \div Y, (j - 1) % Y, s)
    OBVIOUS
  <1> HIDE DEF step, U
  <1>7. PICK f : Follows(f, n, U, MulStart(r), step)
    BY <1>3, <1>5, RecursionTo
  <1>8. f \in [0 .. n -> U] /\ f[0] = MulStart(r)
    BY <1>7 DEF Follows
  <1>9. f = body(f)
    <2>1. ASSUME NEW j \in 1 .. n PROVE f[j] = MulStep(x, y, (j - 1) \div Y, (j - 1) % Y, f[j - 1])
      <3>1. j - 1 \in 0 .. n
        OBVIOUS
      <3>2. f[j - 1] \in U
        BY <1>8, <3>1
      <3> QED
        BY <1>6, <1>7, <3>2 DEF Follows
    <2>2. \A j \in 0 .. n : j # 0 => j \in 1 .. n
      OBVIOUS
    <2>3. DOMAIN f = 0 .. n /\ \A j \in 0 .. n : f[j] = body(f)[j]
      BY <1>2, <1>8, <2>1, <2>2
    <2> QED
      BY <1>2, <1>8, <2>3
  <1>10. PICK g : g = CHOOSE q : q = body(q)
    OBVIOUS
  <1>11. g = body(g)
    BY <1>9, <1>10
  <1>12. int_mul(x, y, r) = [g[x.d * y.d].r EXCEPT !.neg = x.neg # y.neg]
    BY <1>10 DEF int_mul, MulStep, MulStart
  <1>13. \A j \in 0 .. n : g[j] = IF j = 0 THEN MulStart(r) ELSE MulStep(x, y, (j - 1) \div Y, (j - 1) % Y, g[j - 1])
    BY <1>2, <1>11
  <1>14. g[0] = MulStart(r)
    <2>1. 0 \in 0 .. n
      OBVIOUS
    <2> QED
      BY <1>13, <2>1
  <1>15. ASSUME NEW ka \in 0 .. x.d - 1, NEW kb \in 0 .. y.d - 1
         PROVE  g[ka * y.d + kb + 1] = MulStep(x, y, ka, kb, g[ka * y.d + kb])
    <2>1. ka \in 0 .. X - 1 /\ kb \in 0 .. Y - 1 /\ X \in Nat /\ Y \in Nat /\ Y > 0
      BY <1>2
    <2>2. PICK i \in Nat : i = ka * Y + kb
      BY <2>1
    <2>9. Placed(X, Y, ka, kb)
      BY <2>1, IndexOf
    <2>5. i < n
      BY <1>2, <2>9, <2>2 DEF Placed
    <2>3. i + 1 \in 0 .. n /\ i + 1 # 0 /\ (i + 1) - 1 = i
      BY <2>5
    <2>4. g[i + 1] = MulStep(x, y, i \div Y, i % Y, g[i])
      BY <1>13, <2>3
    <2>6. i \div Y = ka /\ i % Y = kb
      BY <2>9, <2>2 DEF Placed
    <2>7. g[i + 1] = MulStep(x, y, ka, kb, g[i])
      BY <2>4, <2>6
    <2>8. ka * y.d + kb = i
      BY <1>2, <2>2
    <2> QED
      BY <2>7, <2>8
  <1> QED
    BY <1>12, <1>14, <1>15 DEF MulTurns

(* There is no room for a product of digits only if there is none for the  *)
(* whole.                                                                  *)
LEMMA MulRoom ==
    ASSUME NEW x, NEW y, Number(x), Number(y), NEW m \in Nat, x.d <= m, y.d <= m,
           NEW ka \in 0 .. x.d - 1, NEW kb \in 0 .. y.d - 1, ka + kb >= m
    PROVE  Power(Base, m) <= Magnitude(x) * Magnitude(y)
  <1>1. x.d \in Nat /\ y.d \in Nat /\ IntOK(x) /\ IntOK(y)
    BY IntFacts DEF Number
  <1>2. PICK u \in Nat, v \in Nat : u = Magnitude(x) /\ v = Magnitude(y)
    BY <1>1, MagnitudeIs
  <1>3. u # 0
    <2> SUFFICES ASSUME u = 0 PROVE FALSE
      OBVIOUS
    <2>1. x.d = 1
      BY <1>2, ZeroIs DEF int_is_zero
    <2> QED
      BY <1>1, <2>1
  <1>4. v # 0
    <2> SUFFICES ASSUME v = 0 PROVE FALSE
      OBVIOUS
    <2>1. y.d = 1
      BY <1>2, ZeroIs DEF int_is_zero
    <2> QED
      BY <1>1, <2>1
  <1>5. PICK i \in Nat : i = x.d - 1 /\ Power(Base, i) <= u
    BY <1>2, <1>3, NotLess
  <1>6. PICK j \in Nat : j = y.d - 1 /\ Power(Base, j) <= v
    BY <1>2, <1>4, NotLess
  <1>7. PICK p \in Nat, q \in Nat : p = Power(Base, i) /\ q = Power(Base, j)
    BY BasePower
  <1>8. p * q <= u * v
    <2>1. p * q <= u * q
      BY <1>5, <1>7, TimesGrows
    <2>2. u * q <= u * v
      BY <1>6, <1>7, TimesGrows
    <2>3. PICK k1 \in Nat, k2 \in Nat, k3 \in Nat : k1 = p * q /\ k2 = u * q /\ k3 = u * v
      OBVIOUS
    <2> QED
      BY <2>1, <2>2, <2>3
  <1>9. Power(Base, i + j) = p * q
    BY <1>7, BaseIs, PowerAdd
  <1>10. Power(Base, m) <= Power(Base, i + j)
    <2>1. Base \in Nat /\ Base > 0
      BY BaseIs
    <2>2. m <= i + j /\ i + j \in Nat
      BY <1>1, <1>5, <1>6
    <2> QED
      BY <2>1, <2>2, PowerGrows
  <1>11. PICK k1 \in Nat, k2 \in Nat : k1 = p * q /\ k2 = u * v
    OBVIOUS
  <1>12. PICK k3 \in Nat : k3 = Power(Base, m)
    BY BasePower
  <1>13. k3 <= k2
    BY <1>8, <1>9, <1>10, <1>11, <1>12
  <1> QED
    BY <1>2, <1>11, <1>12, <1>13

(* One turn of the outer loop.                                             *)
LEMMA MulRow ==
    ASSUME NEW x, NEW y, Number(x), Number(y), NEW m, Room(m), m <= MaxDigits, x.d <= m, y.d <= m,
           NEW r, NEW f, MulTurns(f, x, y, r), NEW ka \in 0 .. x.d - 1,
           NEW product \in Nat, product = Magnitude(x) * Magnitude(y),
           MulInv(f[ka * y.d], m, Amount(x.h)[ka] * Magnitude(y), product)
    PROVE  MulInv(f[ka * y.d + y.d], m, Amount(x.h)[ka + 1] * Magnitude(y), product)
  <1>1. /\ x.d \in Nat /\ y.d \in Nat /\ IntOK(x) /\ IntOK(y) /\ m \in Nat /\ ka \in Nat
        /\ x.m \in Nat /\ y.m \in Nat /\ x.h \in Halves(x.m) /\ y.h \in Halves(y.m) /\ x.d <= x.m /\ y.d <= y.m
    BY IntFacts DEF Number, Room
  <1>2. PICK X \in Nat, Y \in Nat, i \in Nat : X = x.d /\ Y = y.d /\ i = ka * Y
    BY <1>1
  <1>3. PICK u \in Nat, v \in Nat : u = Magnitude(x) /\ v = Magnitude(y)
    BY <1>1, MagnitudeIs
  <1>4. PICK A \in Nat, c \in Nat, p \in Nat, A1 \in Nat :
          A = Amount(x.h)[ka] /\ c = Half(x, ka) /\ p = Power(Base, ka) /\ A1 = Amount(x.h)[ka + 1]
    <2>1. Half(x, ka) \in Nat
      BY <1>1, HalfDigit
    <2>2. ka \in 0 .. x.m /\ ka + 1 \in 0 .. x.m
      BY <1>1
    <2>3. Amount(x.h)[ka] \in Nat /\ Amount(x.h)[ka + 1] \in Nat
      BY <1>1, <2>2, AmountIs
    <2>4. Power(Base, ka) \in Nat
      BY <1>1, BasePower
    <2> QED
      BY <2>1, <2>3, <2>4
  <1>5. PICK g \in Nat : g = c * p
    OBVIOUS
  <1>6. A1 = A + g
    <2>1. ka \in 0 .. x.m - 1
      BY <1>1
    <2>2. Half(x, ka) = x.h[ka + 1]
      BY DEF Half
    <2>3. Amount(x.h)[ka + 1] = Amount(x.h)[ka] + x.h[ka + 1] * Power(Base, ka)
      BY <1>1, <2>1, AmountIs
    <2> QED
      BY <1>4, <1>5, <2>2, <2>3
  <1>7. A1 <= u
    <2>1. ka + 1 \in 0 .. x.m /\ x.d \in ka + 1 .. x.m
      BY <1>1
    <2> QED
      BY <1>1, <1>3, <1>4, <2>1, AmountGrows DEF Magnitude
  <1> DEFINE S == {kb \in 0 .. Y : MulInv(f[i + kb], m, A * v + g * Amount(y.h)[kb], product)}
  <1>8. 0 \in S
    <2>1. Amount(y.h)[0] = 0 /\ i + 0 = i
      BY <1>1, AmountIs
    <2>2. A * v + g * 0 = A * v
      OBVIOUS
    <2>3. MulInv(f[i], m, A * v, product)
      BY <1>2, <1>3, <1>4
    <2> QED
      BY <2>1, <2>2, <2>3
  <1>9. ASSUME NEW kb \in 0 .. Y - 1, kb \in S PROVE kb + 1 \in S
    <2>1. kb \in Nat /\ kb \in 0 .. y.d - 1 /\ kb + 1 \in 0 .. Y /\ kb \in 0 .. y.m - 1 /\ kb \in 0 .. y.m /\ kb + 1 \in 0 .. y.m
      BY <1>1, <1>2
    <2>2. PICK E \in Nat, e \in Nat, q \in Nat, E1 \in Nat :
            E = Amount(y.h)[kb] /\ e = Half(y, kb) /\ q = Power(Base, kb) /\ E1 = Amount(y.h)[kb + 1]
      <3>1. Half(y, kb) \in Nat
        BY <1>1, <2>1, HalfDigit
      <3>2. Amount(y.h)[kb] \in Nat /\ Amount(y.h)[kb + 1] \in Nat
        BY <1>1, <2>1, AmountIs
      <3>3. Power(Base, kb) \in Nat
        BY <2>1, BasePower
      <3> QED
        BY <3>1, <3>2, <3>3
    <2>3. E1 = E + e * q
      <3>1. Half(y, kb) = y.h[kb + 1]
        BY DEF Half
      <3>2. Amount(y.h)[kb + 1] = Amount(y.h)[kb] + y.h[kb + 1] * Power(Base, kb)
        BY <1>1, <2>1, AmountIs
      <3> QED
        BY <2>2, <3>1, <3>2
    <2>4. E1 <= v
      <3>1. y.d \in kb + 1 .. y.m
        BY <1>1, <1>2
      <3> QED
        BY <1>1, <1>3, <2>1, <2>2, <3>1, AmountGrows DEF Magnitude
    <2>5. PICK V \in Nat, W \in Nat : V = A * v + g * E /\ W = A * v + g * E1
      OBVIOUS
    <2>6. W = V + (c * e) * Power(Base, ka + kb)
      <3>1. Power(Base, ka + kb) = p * q
        BY <1>1, <1>4, <2>1, <2>2, BaseIs, PowerAdd
      <3>2. g * E1 = g * E + g * (e * q)
        BY <2>3
      <3>3. g * (e * q) = (c * e) * (p * q)
        BY <1>5
      <3>4. PICK k1 \in Nat, k2 \in Nat, k3 \in Nat : k1 = A * v /\ k2 = g * E /\ k3 = g * (e * q)
        BY <2>2
      <3>5. W = V + k3
        BY <2>5, <3>2, <3>4
      <3> QED
        BY <3>1, <3>3, <3>4, <3>5
    <2>7. W <= product
      <3>1. g * E1 <= g * v
        BY <2>4, TimesGrows
      <3>2. A * v + g * v = A1 * v
        BY <1>6
      <3>3. A1 * v <= u * v
        BY <1>7, TimesGrows
      <3>4. PICK k1 \in Nat, k2 \in Nat, k3 \in Nat, k4 \in Nat, k5 \in Nat :
              k1 = A * v /\ k2 = g * E1 /\ k3 = g * v /\ k4 = A1 * v /\ k5 = u * v
        OBVIOUS
      <3>5. product = k5
        BY <1>3, <3>4
      <3> QED
        BY <2>5, <3>1, <3>2, <3>3, <3>4, <3>5
    <2>8. ka + kb >= m => Power(Base, m) <= product
      BY <1>1, <2>1, MulRoom
    <2>9. PICK s : s = f[i + kb]
      OBVIOUS
    <2>10. MulInv(s, m, V, product)
      BY <1>9, <2>2, <2>5, <2>9
    <2>11. MulInv(MulStep(x, y, ka, kb, s), m, W, product)
      BY <1>1, <1>4, <2>1, <2>2, <2>6, <2>7, <2>8, <2>10, MulStepIs
    <2>12. f[ka * y.d + kb + 1] = MulStep(x, y, ka, kb, f[ka * y.d + kb])
      BY <2>1 DEF MulTurns
    <2>13. f[i + (kb + 1)] = MulStep(x, y, ka, kb, s)
      <3>1. i + (kb + 1) = i + kb + 1
        BY <2>1
      <3> QED
        BY <1>2, <2>9, <2>12, <3>1
    <2> QED
      BY <2>1, <2>2, <2>5, <2>11, <2>13
  <1>10. Y \in S
    <2>1. Y \in 0 .. Y
      OBVIOUS
    <2> HIDE DEF S
    <2> QED
      BY <1>8, <1>9, <2>1, InductionTo
  <1>11. Amount(y.h)[Y] = v
    BY <1>2, <1>3 DEF Magnitude
  <1>12. A * v + g * v = A1 * v
    BY <1>6
  <1> QED
    BY <1>2, <1>3, <1>4, <1>10, <1>11, <1>12

LEMMA Fits ==
    ASSUME NEW i, IntOK(i) PROVE Magnitude(i) \in Nat /\ Magnitude(i) < Power(Base, i.m)
  <1>1. i.m \in Nat /\ i.d \in Nat /\ i.d <= i.m
    BY IntFacts
  <1>2. PICK d \in Nat, m \in Nat : d = i.d /\ m = i.m /\ d <= m
    BY <1>1
  <1>3. Base \in Nat /\ Base > 0
    BY BaseIs
  <1>4. Power(Base, d) <= Power(Base, m) /\ Power(Base, d) \in Nat /\ Power(Base, m) \in Nat
    BY <1>2, <1>3, PowerGrows, BasePower
  <1>5. Magnitude(i) \in Nat /\ Magnitude(i) < Power(Base, d)
    BY <1>2, MagnitudeIs
  <1> QED
    BY <1>2, <1>4, <1>5

(* int_mul gives the product, if it has room, and raises the flag if not;  *)
(* an overflow that breaks the inner loop is not lost in the outer.        *)
THEOREM IntMul ==
    ASSUME NEW x, NEW y, Number(x), Number(y), NEW r, IntOK(r), r.m <= MaxDigits, x.d <= r.m, y.d <= r.m
    PROVE  /\ IntOK(int_mul(x, y, r)) /\ int_mul(x, y, r).m = r.m
           /\ Exactly(int_mul(x, y, r), r.m, Magnitude(x) * Magnitude(y))
           /\ Gives(int_mul(x, y, r), r.m, Val(x) * Val(y))
  <1>1. /\ x.d \in Nat /\ y.d \in Nat /\ IntOK(x) /\ IntOK(y) /\ r.m \in Nat /\ Room(r.m)
        /\ x.m \in Nat /\ x.h \in Halves(x.m) /\ x.d <= x.m /\ x.neg \in BOOLEAN /\ y.neg \in BOOLEAN
    BY IntFacts DEF Number, IntOK
  <1>2. PICK X \in Nat, Y \in Nat, m \in Nat : X = x.d /\ Y = y.d /\ m = r.m
    BY <1>1
  <1>3. PICK u \in Nat, v \in Nat, P \in Nat : u = Magnitude(x) /\ v = Magnitude(y) /\ P = u * v
    <2>1. PICK u \in Nat, v \in Nat : u = Magnitude(x) /\ v = Magnitude(y)
      BY <1>1, MagnitudeIs
    <2>2. u * v \in Nat
      OBVIOUS
    <2> QED
      BY <2>1, <2>2
  <1>4. PICK f : MulTurns(f, x, y, r)
    BY <1>1, MulLoop
  <1> DEFINE S == {ka \in 0 .. X : MulInv(f[ka * Y], m, Amount(x.h)[ka] * v, P)}
  <1>5. 0 \in S
    <2>1. Amount(x.h)[0] = 0 /\ 0 * Y = 0 /\ 0 * v = 0
      BY <1>1, AmountIs
    <2>2. 0 < Power(Base, r.m) /\ 0 < Power(Base, 4)
      BY <1>1, BasePower
    <2>3. Holds(int_set_i(0, r), r.m, 0) /\ ~int_set_i(0, r).neg
      BY <2>2, SetI
    <2>4. f[0] = [r |-> int_set_i(0, r), broke |-> -1]
      BY <1>4 DEF MulTurns, MulStart
    <2>5. PICK i : i = int_set_i(0, r)
      OBVIOUS
    <2>6. Number(i) /\ i \in Ints(m) /\ ~i.over /\ ~i.neg /\ Magnitude(i) = 0
      BY <1>2, <2>3, <2>5 DEF Holds, Number, IntOK
    <2>7. PICK s : s = f[0]
      OBVIOUS
    <2>8. s \in [r : Ints(m), broke : Int] /\ s.r = i /\ s.broke = -1
      BY <2>4, <2>5, <2>6, <2>7
    <2>9. MulInv(s, m, 0, P)
      BY <2>6, <2>8 DEF MulInv, MulOK
    <2> QED
      BY <2>1, <2>7, <2>9
  <1>6. ASSUME NEW ka \in 0 .. X - 1, ka \in S PROVE ka + 1 \in S
    <2>1. MulInv(f[ka * y.d], r.m, Amount(x.h)[ka] * Magnitude(y), P)
      BY <1>2, <1>3, <1>6
    <2>2. ka \in 0 .. x.d - 1 /\ P = Magnitude(x) * Magnitude(y)
      BY <1>2, <1>3
    <2>3. MulInv(f[ka * y.d + y.d], r.m, Amount(x.h)[ka + 1] * Magnitude(y), P)
      BY <1>1, <1>4, <2>1, <2>2, MulRow
    <2>4. (ka + 1) * Y = ka * Y + Y /\ ka + 1 \in 0 .. X
      OBVIOUS
    <2> QED
      BY <1>2, <1>3, <2>3, <2>4
  <1>7. X \in S
    <2>1. X \in 0 .. X
      OBVIOUS
    <2> HIDE DEF S
    <2> QED
      BY <1>5, <1>6, <2>1, InductionTo
  <1>8. PICK s : s = f[X * Y]
    OBVIOUS
  <1>9. MulInv(s, m, P, P)
    BY <1>2, <1>3, <1>7, <1>8 DEF Magnitude
  <1>10. PICK i : i = s.r
    OBVIOUS
  <1>11. /\ IntOK(i) /\ i.m = m /\ i.over \in BOOLEAN
         /\ IF i.over THEN Power(Base, m) <= P ELSE Number(i) /\ Magnitude(i) = P
    <2>1. i \in Ints(m) /\ IF i.over THEN Power(Base, m) <= P ELSE Number(i) /\ Magnitude(i) = P
      BY <1>9, <1>10 DEF MulInv, MulOK
    <2>2. i.m = m /\ i.over \in BOOLEAN
      BY <2>1 DEF Ints
    <2> QED
      BY <1>1, <1>2, <2>1, <2>2 DEF IntOK
  <1>12. Exactly(i, m, P)
    <2>1. Power(Base, m) \in Nat
      BY BasePower
    <2>2. CASE i.over
      BY <1>11, <2>1, <2>2 DEF Exactly
    <2>3. CASE ~i.over
      <3>1. Number(i) /\ Magnitude(i) = P
        BY <1>11, <2>3
      <3>2. P < Power(Base, m)
        BY <1>11, <3>1, Fits
      <3> QED
        BY <1>11, <2>3, <3>1, <3>2 DEF Exactly, Holds
    <2> QED
      BY <2>2, <2>3
  <1>13. PICK b \in BOOLEAN : b = (x.neg # y.neg)
    BY <1>1
  <1>14. PICK t : t = [i EXCEPT !.neg = b]
    OBVIOUS
  <1>15. int_mul(x, y, r) = t
    BY <1>2, <1>4, <1>8, <1>10, <1>13, <1>14 DEF MulTurns
  <1>16. /\ IntOK(t) /\ t.m = m /\ t.over = i.over
         /\ Magnitude(t) = Magnitude(i) /\ (Number(i) => Number(t))
    BY <1>11, <1>14, SignAside
  <1>17. Exactly(t, m, P)
    <2>1. CASE P < Power(Base, m)
      BY <1>12, <1>16, <2>1 DEF Exactly, Holds
    <2>2. CASE ~(P < Power(Base, m))
      BY <1>12, <1>16, <2>2 DEF Exactly
    <2> QED
      BY <2>1, <2>2
  <1>18. Gives(t, m, IF b THEN -P ELSE P)
    <2>1. Keeps(i, i)
      BY <1>11 DEF Keeps
    <2>2. \A w \in Nat : Exactly(i, i.m, w) => Gives(t, i.m, IF b THEN -w ELSE w)
      BY <1>14, <2>1, Signed
    <2> QED
      BY <1>11, <1>12, <2>2
  <1>19. Val(x) * Val(y) = IF b THEN -P ELSE P
    <2>1. /\ x.neg /\ y.neg => (-u) * (-v) = P
          /\ x.neg /\ ~y.neg => (-u) * v = -P
          /\ ~x.neg /\ y.neg => u * (-v) = -P
      BY <1>3
    <2>2. Val(x) = (IF x.neg THEN -u ELSE u) /\ Val(y) = (IF y.neg THEN -v ELSE v)
      BY <1>3 DEF Val
    <2>3. CASE x.neg /\ y.neg
      BY <1>1, <1>13, <2>1, <2>2, <2>3
    <2>4. CASE x.neg /\ ~y.neg
      BY <1>1, <1>13, <2>1, <2>2, <2>4
    <2>5. CASE ~x.neg /\ y.neg
      BY <1>1, <1>13, <2>1, <2>2, <2>5
    <2>6. CASE ~x.neg /\ ~y.neg
      BY <1>1, <1>3, <1>13, <2>2, <2>6
    <2> QED
      BY <2>3, <2>4, <2>5, <2>6
  <1> QED
    BY <1>2, <1>3, <1>15, <1>16, <1>17, <1>18, <1>19

=============================================================================
