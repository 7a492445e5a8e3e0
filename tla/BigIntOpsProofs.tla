--------------------------- MODULE BigIntOpsProofs ---------------------------
(***************************************************************************)
(* The interpreter's operations on unlimited integers are exact, for       *)
(* operands of any length in any base: from the arithmetic of BigIntProofs *)
(* to the loops of int_div and of the conversions to and from text.        *)
(***************************************************************************)
EXTENDS BigIntOps, BigIntProofs

-----------------------------------------------------------------------------
(* The guess of int_div for the next digits of the quotient.               *)
Leading(rn, k) == Base * Digit(rn, k) + Half(rn, k - 1)

(* A number is not less than its digits from k down, at their places.      *)
LEMMA LeadingOfLonger ==
    ASSUME NEW i, IntOK(i), NEW k \in Nat, k > 0, k < i.d
    PROVE  /\ Leading(i, k) \in Nat /\ Leading(i, k) < Base * Base
           /\ Leading(i, k) * Power(Base, k - 1) <= Magnitude(i)
  <1>1. i.d \in Nat /\ i.m \in Nat /\ i.d <= i.m /\ i.h \in Halves(i.m)
    BY IntFacts
  <1>2. k - 1 \in 0 .. i.d - 1 /\ k \in 0 .. i.d - 1 /\ k - 1 \in Nat /\ k - 1 + 1 = k
    BY <1>1
  <1>3. PICK c \in Nat, e \in Nat :
          c = Half(i, k) /\ e = Half(i, k - 1) /\ c < Base /\ e < Base /\ c = i.h[k + 1] /\ e = i.h[k]
    <2>1. Half(i, k) \in Nat /\ Half(i, k) < Base /\ Half(i, k) = i.h[k + 1]
      BY <1>2, HalfDigit
    <2>2. Half(i, k - 1) \in Nat /\ Half(i, k - 1) < Base /\ Half(i, k - 1) = i.h[k - 1 + 1]
      BY <1>2, HalfDigit
    <2> QED
      BY <1>2, <2>1, <2>2
  <1>4. Base \in Nat /\ Base > 2
    BY BaseIs
  <1>5. Leading(i, k) = Base * c + e
    BY <1>3 DEF Leading, Digit
  <1>6. Base * c + e < Base * Base /\ Base * c + e \in Nat
    <2>1. c * Base + Base <= Base * Base /\ c * Base = Base * c
      BY <1>3, <1>4, OneMore
    <2>2. PICK u \in Nat, v \in Nat : u = Base * c /\ v = Base * Base
      BY <1>4
    <2> QED
      BY <1>3, <1>4, <2>1, <2>2
  <1>7. PICK p \in Nat, q \in Nat : p = Power(Base, k - 1) /\ q = Power(Base, k) /\ q = Base * p
    <2>1. Power(Base, k - 1) \in Nat /\ Power(Base, k - 1 + 1) = Base * Power(Base, k - 1)
      BY <1>2, BasePower
    <2>2. Power(Base, k) \in Nat
      BY BasePower
    <2> QED
      BY <1>2, <2>1, <2>2
  <1>8. PICK A \in Nat : A = Amount(i.h)[k - 1]
    <2>1. k - 1 \in 0 .. i.m
      BY <1>1, <1>2
    <2> QED
      BY <1>1, <2>1, AmountIs
  <1>9. Amount(i.h)[k] = A + e * p
    <2>1. k - 1 \in 0 .. i.m - 1
      BY <1>1, <1>2
    <2>2. Amount(i.h)[k - 1 + 1] = Amount(i.h)[k - 1] + i.h[k - 1 + 1] * Power(Base, k - 1)
      BY <1>1, <2>1, AmountIs
    <2> QED
      BY <1>2, <1>3, <1>7, <1>8, <2>2
  <1>10. Amount(i.h)[k + 1] = Amount(i.h)[k] + c * q
    <2>1. k \in 0 .. i.m - 1
      BY <1>1, <1>2
    <2> QED
      BY <1>1, <1>3, <1>7, <2>1, AmountIs
  <1>11. Amount(i.h)[k + 1] <= Magnitude(i)
    <2>1. k + 1 \in 0 .. i.m /\ i.d \in k + 1 .. i.m
      BY <1>1
    <2> QED
      BY <1>1, <2>1, AmountGrows DEF Magnitude
  <1>12. (Base * c + e) * p = c * q + e * p
    BY <1>4, <1>7
  <1>13. (Base * c + e) * p <= Magnitude(i)
    <2>1. PICK u \in Nat, v \in Nat : u = c * q /\ v = e * p
      OBVIOUS
    <2>2. PICK w \in Nat : w = Magnitude(i)
      BY MagnitudeIs
    <2>3. u + v <= w
      BY <1>9, <1>10, <1>11, <2>1, <2>2
    <2> QED
      BY <1>12, <2>1, <2>2, <2>3
  <1> QED
    BY <1>5, <1>6, <1>7, <1>13

(* Where a number ends, only the half-word at the top counts; above it, it *)
(* is whatever an earlier turn has left there.                             *)
LEMMA LeadingOfShorter ==
    ASSUME NEW i, IntOK(i), NEW k \in Nat, k > 0, k <= i.m, ~(k < i.d)
    PROVE  /\ Leading(i, k) \in Nat /\ Leading(i, k) < Base
           /\ k = i.d => Leading(i, k) * Power(Base, k - 1) <= Magnitude(i)
  <1>1. i.d \in Nat /\ i.m \in Nat /\ i.d <= i.m /\ i.h \in Halves(i.m) /\ Base \in Nat
    BY IntFacts, BaseIs
  <1>2. k - 1 \in Nat /\ k - 1 + 1 = k /\ k \in 1 .. i.m /\ k - 1 \in 0 .. i.m - 1
    BY <1>1
  <1>3. PICK e \in Nat : e = Half(i, k - 1) /\ e = i.h[k] /\ e < Base
    BY <1>1, <1>2, HalfIs DEF Half
  <1>4. Leading(i, k) = e
    BY <1>1, <1>3 DEF Leading, Digit
  <1>5. ASSUME k = i.d PROVE e * Power(Base, k - 1) <= Magnitude(i)
    <2>1. PICK A \in Nat, p \in Nat : A = Amount(i.h)[k - 1] /\ p = Power(Base, k - 1)
      <3>1. Amount(i.h)[k - 1] \in Nat
        BY <1>1, <1>2, AmountIs
      <3>2. Power(Base, k - 1) \in Nat
        BY <1>2, BasePower
      <3> QED
        BY <3>1, <3>2
    <2>2. Amount(i.h)[k - 1 + 1] = Amount(i.h)[k - 1] + i.h[k - 1 + 1] * Power(Base, k - 1)
      BY <1>1, <1>2, AmountIs
    <2>3. Magnitude(i) = A + e * p
      BY <1>2, <1>3, <1>5, <2>1, <2>2 DEF Magnitude
    <2>4. PICK v \in Nat : v = e * p
      OBVIOUS
    <2> QED
      BY <2>1, <2>3, <2>4
  <1> QED
    BY <1>3, <1>4, <1>5

(* What the guess is made from: it cannot overflow, and it is not too much *)
(* for a number that reaches up to its place.                              *)
LEMMA LeadingIs ==
    ASSUME NEW i, Number(i), NEW k \in Nat, k > 0, k <= i.m
    PROVE  /\ Leading(i, k) \in Nat /\ Leading(i, k) < Base * Base
           /\ Leading(i, k) * Power(Base, k - 1) < Power(Base, i.m)
           /\ Power(Base, k - 1) <= Magnitude(i) => Leading(i, k) * Power(Base, k - 1) <= Magnitude(i)
  <1>1. IntOK(i) /\ i.d \in Nat /\ i.m \in Nat /\ Base \in Nat /\ Base > 2 /\ k - 1 \in Nat
    BY IntFacts, BaseIs DEF Number
  <1>2. PICK M \in Nat, top \in Nat : M = Magnitude(i) /\ top = Power(Base, i.m) /\ M < top
    BY <1>1, Fits, BasePower
  <1>3. CASE k < i.d
    <2>1. PICK T \in Nat : T = Leading(i, k) /\ T < Base * Base /\ T * Power(Base, k - 1) <= M
      BY <1>1, <1>2, <1>3, LeadingOfLonger
    <2>2. PICK p \in Nat : p = Power(Base, k - 1)
      BY <1>1, BasePower
    <2>3. PICK w \in Nat : w = T * p
      OBVIOUS
    <2> QED
      BY <1>2, <2>1, <2>2, <2>3
  <1>4. CASE ~(k < i.d)
    <2>1. PICK T \in Nat : T = Leading(i, k) /\ T < Base /\ (k = i.d => T * Power(Base, k - 1) <= M)
      BY <1>1, <1>2, <1>4, LeadingOfShorter
    <2>2. T < Base * Base
      <3>1. Base <= Base * Base
        BY <1>1, Times
      <3>2. PICK u \in Nat : u = Base * Base
        BY <1>1
      <3> QED
        BY <1>1, <2>1, <3>1, <3>2
    <2>3. PICK p \in Nat : p = Power(Base, k - 1) /\ p > 0 /\ Power(Base, k) = Base * p
      <3>1. Power(Base, k - 1) \in Nat /\ Power(Base, k - 1) > 0 /\ Power(Base, k - 1 + 1) = Base * Power(Base, k - 1)
        BY <1>1, BasePower
      <3>2. k - 1 + 1 = k
        OBVIOUS
      <3> QED
        BY <3>1, <3>2
    <2>4. PICK w \in Nat, q \in Nat : w = T * p /\ q = Base * p
      BY <1>1
    <2>5. w < top
      <3>1. T * p + p <= Base * p
        BY <1>1, <2>1, OneMore
      <3>2. Power(Base, k) <= Power(Base, i.m)
        BY <1>1, PowerGrows
      <3> QED
        BY <1>2, <2>3, <2>4, <3>1, <3>2
    <2>6. p <= M => k = i.d
      <3> SUFFICES ASSUME p <= M, k # i.d PROVE FALSE
        OBVIOUS
      <3>1. i.d <= k - 1
        BY <1>1, <1>4
      <3>2. Power(Base, i.d) <= Power(Base, k - 1) /\ Power(Base, i.d) \in Nat
        <4>1. PICK j \in Nat, l \in Nat : j = i.d /\ l = k - 1 /\ j <= l
          BY <1>1, <3>1
        <4>2. Base \in Nat /\ Base > 0
          BY <1>1
        <4>3. Power(Base, j) <= Power(Base, l) /\ Power(Base, j) \in Nat
          BY <4>1, <4>2, PowerGrows, BasePower
        <4> QED
          BY <4>1, <4>3
      <3>3. M < Power(Base, i.d)
        BY <1>1, <1>2, MagnitudeIs
      <3> QED
        BY <2>3, <3>2, <3>3
    <2> QED
      BY <1>2, <2>1, <2>2, <2>3, <2>4, <2>5, <2>6
  <1> QED
    BY <1>3, <1>4

-----------------------------------------------------------------------------
(* The loop of int_div. N and D are the numerator and the denominator, low *)
(* the place of the denominator's highest digit, m the room of the         *)
(* quotient: the quotient so far, counted at the current shift, is what    *)
(* has been taken off the numerator.                                       *)
DivStates(m) ==
    [rn : Ints(MaxDigits), sd : Ints(MaxDigits), q : Ints(m),
     shift : Nat, nDigit : Nat, test : Nat, done : BOOLEAN]
DivNumbers(s, m, N, D) ==
    /\ s \in DivStates(m)
    /\ Number(s.rn) /\ ~s.rn.over /\ Number(s.q) /\ ~s.q.over
    /\ Holds(s.sd, MaxDigits, D * Power(Base, s.shift))
    /\ Magnitude(s.rn) + Magnitude(s.q) * Magnitude(s.sd) = N
DivPlaces(s, D, low) ==
    /\ s.nDigit = low + 1 + s.shift /\ s.nDigit <= MaxDigits
    /\ s.test > 0 /\ D < s.test * Power(Base, low) /\ Power(Base, low) <= D
DivInv(s, m, N, D, low) ==
    /\ DivNumbers(s, m, N, D) /\ DivPlaces(s, D, low)
    /\ s.done => Magnitude(s.rn) < D /\ s.shift = 0

(* The shifted denominator reaches up to the digit the guess starts at and *)
(* is below the tested digit, plus one, there.                             *)
LEMMA Scaled ==
    ASSUME NEW D \in Nat, NEW low \in Nat, NEW j \in Nat, NEW test \in Nat,
           D < test * Power(Base, low), Power(Base, low) <= D,
           NEW p \in Nat, p = Power(Base, low + j), NEW S \in Nat, S = D * Power(Base, j)
    PROVE  S < test * p /\ p <= S /\ S > 0 /\ p > 0
  <1>1. PICK x \in Nat, y \in Nat : x = Power(Base, low) /\ y = Power(Base, j) /\ x > 0 /\ y > 0
    BY BasePower
  <1>2. p = x * y
    BY <1>1, BaseIs, PowerAdd
  <1>3. PICK w \in Nat : w = test * x
    BY <1>1
  <1>4. D * y + y <= w * y
    BY <1>1, <1>3, OneMore
  <1>5. w * y = test * p
    BY <1>2, <1>3
  <1>6. x * y <= D * y
    BY <1>1, TimesGrows
  <1>7. x <= x * y
    BY <1>1, Times
  <1>8. PICK k1 \in Nat, k2 \in Nat : k1 = test * p /\ k2 = w * y
    OBVIOUS
  <1>9. S < k1
    BY <1>1, <1>4, <1>5, <1>8
  <1>10. p <= S
    BY <1>1, <1>2, <1>6
  <1> QED
    BY <1>1, <1>2, <1>7, <1>8, <1>9, <1>10

(* The guess is never zero, its product is always in range, and it is not  *)
(* too high when the shifted denominator can be subtracted.                *)
LEMMA GuessIs ==
    ASSUME NEW s, NEW m, NEW N, NEW D \in Nat, NEW low \in Nat, DivNumbers(s, m, N, D), DivPlaces(s, D, low)
    PROVE  \E g \in Nat :
             /\ g = Max({1, Guess(s)}) /\ g > 0 /\ g < Power(Base, 4)
             /\ g * Magnitude(s.sd) < Power(Base, MaxDigits)
             /\ Magnitude(s.sd) <= Magnitude(s.rn) => g * Magnitude(s.sd) <= Magnitude(s.rn)
  <1>1. /\ Number(s.rn) /\ s.rn.m = MaxDigits /\ Number(s.sd) /\ s.sd.m = MaxDigits
        /\ Magnitude(s.sd) = D * Power(Base, s.shift)
        /\ s.shift \in Nat /\ s.nDigit \in Nat /\ s.test \in Nat
    BY DEF DivNumbers, DivStates, Holds, Ints
  <1>2. PICK k \in Nat, j \in Nat, test \in Nat : k = s.nDigit /\ j = s.shift /\ test = s.test
    BY <1>1
  <1>3. k = low + 1 + j /\ k <= MaxDigits /\ test > 0 /\ D < test * Power(Base, low) /\ Power(Base, low) <= D
    BY <1>2 DEF DivPlaces
  <1>4. PICK p \in Nat : p = Power(Base, k - 1) /\ p = Power(Base, low + j)
    <2>1. k - 1 = low + j /\ low + j \in Nat
      BY <1>3
    <2>2. Power(Base, low + j) \in Nat
      BY <2>1, BasePower
    <2> QED
      BY <2>1, <2>2
  <1>5. PICK R \in Nat, S \in Nat, top \in Nat :
          R = Magnitude(s.rn) /\ S = Magnitude(s.sd) /\ top = Power(Base, MaxDigits) /\ S < top
    <2>1. Magnitude(s.rn) \in Nat
      BY <1>1, MagnitudeIs DEF Number
    <2>2. Magnitude(s.sd) \in Nat /\ Magnitude(s.sd) < Power(Base, MaxDigits)
      BY <1>1, Fits DEF Number
    <2>3. Power(Base, MaxDigits) \in Nat
      BY MaxDigitsIs, BasePower
    <2> QED
      BY <2>1, <2>2, <2>3
  <1>6. S < test * p /\ p <= S /\ S > 0 /\ p > 0
    <2>1. S = D * Power(Base, j)
      BY <1>1, <1>2, <1>5
    <2>2. D < test * Power(Base, low) /\ Power(Base, low) <= D
      BY <1>3
    <2>3. p = Power(Base, low + j)
      BY <1>4
    <2> QED
      BY <2>1, <2>2, <2>3, Scaled
  <1>7. PICK T \in Nat : /\ T = Leading(s.rn, k) /\ T < Base * Base
                         /\ T * p < top /\ (p <= R => T * p <= R)
    BY <1>1, <1>3, <1>4, <1>5, LeadingIs
  <1>8. PICK G \in Nat, e \in Nat : G = T \div test /\ T = test * G + e
    <2>1. T \div test \in Nat /\ T % test \in Nat /\ T = test * (T \div test) + (T % test)
      BY <1>3, DivFacts
    <2> QED
      BY <2>1, Zenon
  <1>9. Guess(s) = G
    <2>1. ~(s.nDigit < 1)
      BY <1>2, <1>3
    <2> QED
      BY <1>2, <1>7, <1>8, <2>1 DEF Guess, Leading
  <1>10. PICK b2 \in Nat, b4 \in Nat : b2 = Base * Base /\ b4 = Power(Base, 4) /\ b2 <= b4 /\ b2 > 1
    <2>1. Base \in Nat /\ Base > 2
      BY BaseIs
    <2>2. PICK b2 \in Nat : b2 = Base * Base
      BY <2>1
    <2>3. Base <= b2
      BY <2>1, <2>2, Times
    <2>4. Power(Base, 4) = b2 * b2 /\ b2 <= b2 * b2 /\ b2 * b2 \in Nat
      BY <2>1, <2>2, <2>3, SmallPowers, Times
    <2> QED
      BY <2>1, <2>2, <2>3, <2>4
  <1>11. G <= T
    <2>1. G <= G * test /\ G * test = test * G
      BY <1>3, Times
    <2>2. PICK u \in Nat : u = test * G
      OBVIOUS
    <2> QED
      BY <1>8, <2>1, <2>2
  <1>12. G * S <= T * p
    <2>1. PICK v \in Nat, u \in Nat : v = test * p /\ u = test * G
      OBVIOUS
    <2>2. G * S <= G * v
      <3>1. S <= v
        BY <1>6, <2>1
      <3> QED
        BY <3>1, TimesGrows
    <2>3. G * v = u * p
      BY <2>1
    <2>4. u * p <= T * p
      <3>1. T = u + e
        BY <1>8, <2>1
      <3>2. u <= T
        BY <3>1
      <3> QED
        BY <3>2, TimesGrows
    <2>5. PICK k1 \in Nat, k2 \in Nat, k3 \in Nat, k4 \in Nat : k1 = G * S /\ k2 = G * v /\ k3 = u * p /\ k4 = T * p
      OBVIOUS
    <2> QED
      BY <2>2, <2>3, <2>4, <2>5
  <1>13. PICK g \in Nat : g = Max({1, G}) /\ g = IF 1 >= G THEN 1 ELSE G
    <2>1. Max({1, G}) = IF 1 >= G THEN 1 ELSE G
      BY MaxOfTwo
    <2> QED
      BY <2>1
  <1>14. PICK w \in Nat, z \in Nat : w = g * S /\ z = T * p
    OBVIOUS
  <1>15. w < top /\ (S <= R => w <= R)
    <2>1. CASE g = 1
      BY <1>5, <1>14, <2>1
    <2>2. CASE g # 1
      <3>1. g = G
        BY <1>13, <2>2
      <3>2. w <= z
        BY <1>12, <1>14, <3>1
      <3>3. z < top /\ (p <= R => z <= R)
        BY <1>7, <1>14
      <3> QED
        BY <1>5, <1>6, <3>2, <3>3
    <2> QED
      BY <2>1, <2>2
  <1>16. g > 0 /\ g < b4
    BY <1>7, <1>10, <1>11, <1>13
  <1> QED
    BY <1>5, <1>9, <1>10, <1>13, <1>14, <1>15, <1>16

(* An Int of the loop: its size is that of its memory.                     *)
LEMMA DivParts ==
    ASSUME NEW s, NEW m, NEW N, NEW D, Room(m), DivNumbers(s, m, N, D)
    PROVE  /\ IntOK(s.rn) /\ Number(s.rn) /\ s.rn.m = MaxDigits /\ ~s.rn.over /\ Magnitude(s.rn) \in Nat
           /\ IntOK(s.sd) /\ Number(s.sd) /\ s.sd.m = MaxDigits /\ ~s.sd.over /\ Magnitude(s.sd) \in Nat
           /\ IntOK(s.q) /\ Number(s.q) /\ s.q.m = m /\ ~s.q.over /\ Magnitude(s.q) \in Nat
           /\ Magnitude(s.sd) = D * Power(Base, s.shift)
           /\ Magnitude(s.rn) + Magnitude(s.q) * Magnitude(s.sd) = N
           /\ s.shift \in Nat /\ s.nDigit \in Nat /\ s.test \in Nat /\ s.done \in BOOLEAN
  <1>1. /\ Number(s.rn) /\ s.rn.m = MaxDigits /\ ~s.rn.over
        /\ Number(s.sd) /\ s.sd.m = MaxDigits /\ ~s.sd.over
        /\ Number(s.q) /\ s.q.m = m /\ ~s.q.over
    BY DEF DivNumbers, DivStates, Holds, Ints
  <1>2. /\ Magnitude(s.sd) = D * Power(Base, s.shift)
        /\ Magnitude(s.rn) + Magnitude(s.q) * Magnitude(s.sd) = N
        /\ s.shift \in Nat /\ s.nDigit \in Nat /\ s.test \in Nat /\ s.done \in BOOLEAN
    BY DEF DivNumbers, DivStates, Holds
  <1>3. Magnitude(s.rn) \in Nat /\ Magnitude(s.sd) \in Nat /\ Magnitude(s.q) \in Nat
    BY <1>1, MagnitudeIs DEF Number
  <1> QED
    BY <1>1, <1>2, <1>3 DEF Number

(* Taking the guessed multiple off the numerator keeps the sum.            *)
LEMMA ReduceIs ==
    ASSUME NEW s, NEW m, Room(m), NEW N \in Nat, N < Power(Base, m), NEW D \in Nat, NEW low \in Nat,
           DivNumbers(s, m, N, D), DivPlaces(s, D, low), D > 0,
           NEW g \in Nat, g > 0, g < Power(Base, 4), g * Magnitude(s.sd) < Power(Base, MaxDigits)
    PROVE  /\ DivNumbers(Reduce(s, g), m, N, D) /\ DivPlaces(Reduce(s, g), D, low)
           /\ Reduce(s, g).shift = s.shift /\ Reduce(s, g).done = s.done
           /\ g * Magnitude(s.sd) <= Magnitude(s.rn) => Magnitude(Reduce(s, g).rn) < Magnitude(s.rn)
  <1>1. /\ IntOK(s.rn) /\ Number(s.rn) /\ s.rn.m = MaxDigits /\ ~s.rn.over
        /\ Number(s.sd) /\ s.sd.m = MaxDigits /\ s.sd.d <= MaxDigits
        /\ IntOK(s.q) /\ Number(s.q) /\ s.q.m = m /\ ~s.q.over
        /\ Magnitude(s.sd) = D * Power(Base, s.shift) /\ s.shift \in Nat
        /\ Magnitude(s.rn) + Magnitude(s.q) * Magnitude(s.sd) = N
    BY DivParts, IntFacts
  <1>2. PICK R \in Nat, S \in Nat, Q \in Nat : R = Magnitude(s.rn) /\ S = Magnitude(s.sd) /\ Q = Magnitude(s.q)
    BY DivParts
  <1>3. S > 0
    <2>1. PICK y \in Nat : y = Power(Base, s.shift) /\ y > 0
      BY <1>1, BasePower
    <2>2. D <= D * y
      BY <2>1, Times
    <2>3. S = D * y
      BY <1>1, <1>2, <2>1
    <2> QED
      BY <2>2, <2>3
  <1>4. PICK w \in Nat : w = g * S
    OBVIOUS
  <1>5. PICK qd : qd = int_set_i(g, Concrete254)
    OBVIOUS
  <1>6. Number(qd) /\ qd.m = MaxDigits /\ Magnitude(qd) = g /\ qd.d <= MaxDigits
    <2>1. Number(qd) /\ qd.m = MaxDigits /\ Magnitude(qd) = g
      BY <1>5, SetC DEF Holds
    <2> QED
      BY <2>1, IntFacts DEF Number
  <1>7. PICK by : by = int_mul(s.sd, qd, Concrete254)
    OBVIOUS
  <1>8. Number(by) /\ Magnitude(by) = w
    <2>1. IntOK(Concrete254) /\ Concrete254.m = MaxDigits /\ MaxDigits <= MaxDigits
      BY ConcreteIs, MaxDigitsIs DEF Holds
    <2>2. Exactly(by, MaxDigits, Magnitude(s.sd) * Magnitude(qd))
      BY <1>1, <1>6, <1>7, <2>1, IntMul
    <2>3. Magnitude(s.sd) * Magnitude(qd) = w
      BY <1>2, <1>4, <1>6
    <2>4. w < Power(Base, MaxDigits)
      BY <1>2, <1>4
    <2> QED
      BY <2>2, <2>3, <2>4 DEF Exactly, Holds
  <1>9. PICK t : t = Reduce(s, g)
    OBVIOUS
  <1>10. int_is_abs(s.rn, by) = Order(R, w)
    BY <1>1, <1>2, <1>8, CompareAbs
  <1>11. t = IF int_is_abs(s.rn, by) = "LT" THEN s
             ELSE [s EXCEPT !.rn = subAGtB(s.rn, by, s.rn), !.q = addPos(qd, s.q, s.q)]
    BY <1>5, <1>7, <1>9 DEF Reduce
  <1>12. CASE R < w
    <2>1. t = s
      BY <1>10, <1>11, <1>12 DEF Order
    <2> QED
      BY <1>2, <1>4, <1>9, <1>12, <2>1
  <1>13. CASE ~(R < w)
    <2>1. PICK rn, q : rn = subAGtB(s.rn, by, s.rn) /\ q = addPos(qd, s.q, s.q)
      OBVIOUS
    <2>2. t = [s EXCEPT !.rn = rn, !.q = q]
      <3>1. Order(R, w) # "LT"
        BY <1>13 DEF Order
      <3> QED
        BY <1>10, <1>11, <2>1, <3>1
    <2>3. PICK R1 \in Nat, Q1 \in Nat : R1 = R - w /\ Q1 = g + Q
      BY <1>13
    <2>4. Holds(rn, MaxDigits, R1)
      <3>1. Magnitude(s.rn) >= Magnitude(by) /\ Magnitude(s.rn) - Magnitude(by) = R1
        BY <1>2, <1>8, <1>13, <2>3
      <3>2. Exactly(rn, MaxDigits, Magnitude(s.rn) - Magnitude(by))
        BY <1>1, <1>8, <2>1, <3>1, SubAGtB
      <3>3. R < Power(Base, MaxDigits) /\ Power(Base, MaxDigits) \in Nat
        BY <1>1, <1>2, Fits, BasePower, MaxDigitsIs
      <3>4. R1 < Power(Base, MaxDigits)
        BY <1>13, <2>3, <3>3
      <3> QED
        BY <3>1, <3>2, <3>4 DEF Exactly
    <2>5. R1 + Q1 * S = N
      <3>1. Q1 * S = w + Q * S
        BY <1>4, <2>3
      <3>2. R + Q * S = N
        BY <1>1, <1>2
      <3>3. PICK z \in Nat : z = Q * S
        OBVIOUS
      <3> QED
        BY <1>13, <2>3, <3>1, <3>2, <3>3
    <2>6. Q1 < Power(Base, m)
      <3>1. Q1 <= Q1 * S
        BY <1>3, Times
      <3>2. PICK z \in Nat : z = Q1 * S
        OBVIOUS
      <3>3. Power(Base, m) \in Nat
        BY BasePower DEF Room
      <3> QED
        BY <2>5, <3>1, <3>2, <3>3
    <2>7. Holds(q, m, Q1)
      <3>1. Magnitude(qd) + Magnitude(s.q) = Q1
        BY <1>2, <1>6, <2>3
      <3>2. Exactly(q, m, Magnitude(qd) + Magnitude(s.q))
        BY <1>1, <1>6, <2>1, AddPos
      <3> QED
        BY <2>6, <3>1, <3>2 DEF Exactly
    <2>8. rn \in Ints(MaxDigits) /\ q \in Ints(m)
      BY <2>4, <2>7 DEF Holds, Number, IntOK
    <2>9. /\ t \in DivStates(m) /\ t.rn = rn /\ t.q = q /\ t.sd = s.sd /\ t.shift = s.shift
          /\ t.nDigit = s.nDigit /\ t.test = s.test /\ t.done = s.done
      <3>1. s \in DivStates(m)
        BY DEF DivNumbers
      <3> QED
        BY <2>2, <2>8, <3>1 DEF DivStates
    <2>10. DivNumbers(t, m, N, D)
      <3>1. Holds(s.sd, MaxDigits, D * Power(Base, s.shift))
        BY DEF DivNumbers
      <3>2. Number(t.rn) /\ ~t.rn.over /\ Magnitude(t.rn) = R1
        BY <2>4, <2>9 DEF Holds
      <3>3. Number(t.q) /\ ~t.q.over /\ Magnitude(t.q) = Q1
        BY <2>7, <2>9 DEF Holds
      <3>4. Magnitude(t.rn) + Magnitude(t.q) * Magnitude(t.sd) = N
        BY <1>2, <2>5, <2>9, <3>2, <3>3
      <3> QED
        BY <2>9, <3>1, <3>2, <3>3, <3>4 DEF DivNumbers
    <2>11. DivPlaces(t, D, low)
      BY <2>9 DEF DivPlaces
    <2>12. Magnitude(t.rn) < Magnitude(s.rn)
      <3>1. g * S >= S
        <4>1. S <= S * g /\ S * g = g * S
          BY Times
        <4> QED
          BY <4>1
      <3>2. Magnitude(t.rn) = R1
        BY <2>4, <2>9 DEF Holds
      <3> QED
        BY <1>2, <1>3, <1>4, <2>3, <3>1, <3>2
    <2> QED
      BY <1>9, <2>9, <2>10, <2>11, <2>12
  <1> QED
    BY <1>12, <1>13

(* Moving on to the next digit keeps it too.                               *)
NextPlace(s) ==
    [s EXCEPT !.shift = s.shift - 1, !.nDigit = s.nDigit - 1,
              !.sd = int_shift(-1, s.sd), !.q = int_shift(1, s.q)]
LEMMA NextDigit ==
    ASSUME NEW s, NEW m, Room(m), NEW N \in Nat, N < Power(Base, m), NEW D \in Nat, NEW low \in Nat,
           DivNumbers(s, m, N, D), DivPlaces(s, D, low), D > 0, s.shift > 0,
           NEW t, t = NextPlace(s)
    PROVE  DivNumbers(t, m, N, D) /\ DivPlaces(t, D, low) /\ t.shift = s.shift - 1 /\ t.done = s.done
  <1>1. /\ Number(s.rn) /\ ~s.rn.over
        /\ Number(s.sd) /\ s.sd.m = MaxDigits /\ ~s.sd.over /\ IntOK(s.sd)
        /\ Number(s.q) /\ s.q.m = m /\ ~s.q.over
        /\ Magnitude(s.sd) = D * Power(Base, s.shift) /\ s.shift \in Nat /\ s.nDigit \in Nat
        /\ Magnitude(s.rn) + Magnitude(s.q) * Magnitude(s.sd) = N
    BY DivParts
  <1>2. PICK R \in Nat, S \in Nat, Q \in Nat : R = Magnitude(s.rn) /\ S = Magnitude(s.sd) /\ Q = Magnitude(s.q)
    BY DivParts
  <1>3. PICK j \in Nat : j = s.shift - 1
    BY <1>1
  <1>4. PICK y \in Nat : y = Power(Base, j) /\ y > 0 /\ Power(Base, s.shift) = Base * y
    <2>1. Power(Base, j) \in Nat /\ Power(Base, j) > 0 /\ Power(Base, j + 1) = Base * Power(Base, j)
      BY BasePower
    <2>2. j + 1 = s.shift
      BY <1>1, <1>3
    <2> QED
      BY <2>1, <2>2
  <1>5. Base \in Nat /\ Base > 2
    BY BaseIs
  <1>6. PICK z \in Nat : z = D * y /\ S = Base * z /\ z > 0
    <2>1. PICK z \in Nat : z = D * y
      OBVIOUS
    <2>2. D * (Base * y) = Base * z
      BY <1>5, <2>1
    <2>3. S = Base * z
      BY <1>1, <1>2, <1>4, <2>2
    <2>4. D <= D * y
      BY <1>4, Times
    <2> QED
      BY <2>1, <2>3, <2>4
  <1>7. s.sd.d > 1
    <2>1. s.sd.d \in Nat /\ s.sd.d > 0 /\ S < Power(Base, s.sd.d)
      BY <1>1, <1>2, IntFacts, MagnitudeIs
    <2>2. Base <= Base * z
      BY <1>5, <1>6, Times
    <2>3. s.sd.d # 1
      <3> SUFFICES ASSUME s.sd.d = 1 PROVE FALSE
        OBVIOUS
      <3>1. S < Base
        BY <2>1, SmallPowers
      <3> QED
        BY <1>5, <1>6, <2>2, <3>1
    <2> QED
      BY <2>1, <2>3
  <1>8. PICK sd : sd = int_shift(-1, s.sd)
    OBVIOUS
  <1>9. Holds(sd, MaxDigits, z)
    BY <1>1, <1>2, <1>6, <1>7, <1>8, ShiftDown DEF Holds
  <1>10. PICK Q1 \in Nat : Q1 = Q * Base
    BY <1>5
  <1>11. R + Q1 * z = N
    <2>1. Q1 * z = Q * (Base * z)
      BY <1>5, <1>10
    <2>2. R + Q * S = N
      BY <1>1, <1>2
    <2> QED
      BY <1>6, <2>1, <2>2
  <1>12. Q1 < Power(Base, m)
    <2>1. Q1 <= Q1 * z
      BY <1>6, Times
    <2>2. PICK k \in Nat : k = Q1 * z
      OBVIOUS
    <2>3. Power(Base, m) \in Nat
      BY BasePower DEF Room
    <2> QED
      BY <1>11, <2>1, <2>2, <2>3
  <1>13. PICK q : q = int_shift(1, s.q)
    OBVIOUS
  <1>14. Holds(q, m, Q1)
    <2>1. Magnitude(s.q) * Power(Base, 1) = Q1
      BY <1>2, <1>10, SmallPowers
    <2>2. Magnitude(s.q) * Power(Base, 1) < Power(Base, s.q.m) /\ 1 \in Nat
      BY <1>1, <1>12, <2>1
    <2> QED
      BY <1>1, <1>13, <2>1, <2>2, ShiftUp DEF Holds
  <1>15. sd \in Ints(MaxDigits) /\ q \in Ints(m)
    BY <1>9, <1>14 DEF Holds, Number, IntOK
  <1>16. PICK n \in Nat : n = s.nDigit - 1 /\ s.nDigit = low + 1 + s.shift /\ s.nDigit <= MaxDigits
    BY <1>1 DEF DivPlaces
  <1>17. /\ t \in DivStates(m) /\ t.rn = s.rn /\ t.q = q /\ t.sd = sd /\ t.shift = j
         /\ t.nDigit = n /\ t.test = s.test /\ t.done = s.done
    <2>1. s \in DivStates(m)
      BY DEF DivNumbers
    <2>2. t = [s EXCEPT !.shift = j, !.nDigit = n, !.sd = sd, !.q = q]
      BY <1>3, <1>8, <1>13, <1>16 DEF NextPlace
    <2> QED
      BY <1>15, <2>1, <2>2 DEF DivStates
  <1>18. DivNumbers(t, m, N, D)
    <2>1. D * Power(Base, t.shift) = z
      BY <1>4, <1>6, <1>17
    <2>2. Number(t.q) /\ ~t.q.over /\ Magnitude(t.q) = Q1 /\ Magnitude(t.sd) = z
      BY <1>9, <1>14, <1>17 DEF Holds
    <2>3. Magnitude(t.rn) + Magnitude(t.q) * Magnitude(t.sd) = N
      BY <1>2, <1>11, <1>17, <2>2
    <2> QED
      BY <1>1, <1>9, <1>17, <2>1, <2>2, <2>3 DEF DivNumbers
  <1>19. DivPlaces(t, D, low)
    <2>1. n = low + 1 + j /\ n <= MaxDigits
      BY <1>1, <1>3, <1>16, MaxDigitsIs
    <2>2. s.test > 0 /\ D < s.test * Power(Base, low) /\ Power(Base, low) <= D
      BY DEF DivPlaces
    <2> QED
      BY <1>17, <2>1, <2>2 DEF DivPlaces
  <1> QED
    BY <1>3, <1>17, <1>18, <1>19

(* A turn that is not the last makes progress.                             *)
DivProgress(s, t) ==
    ~t.done => \/ t.shift < s.shift
               \/ t.shift = s.shift /\ Magnitude(t.rn) < Magnitude(s.rn)

(* A turn of the loop of int_div keeps the sum, the places of the digits   *)
(* and the normal form, whether it guesses too high, moves on to the next  *)
(* digit or ends; one that is not the last moves on or takes something off *)
(* the numerator.                                                          *)
THEOREM DivTurn ==
    ASSUME NEW s, NEW m, Room(m), NEW N \in Nat, N < Power(Base, m), NEW D \in Nat, D > 0, NEW low \in Nat,
           DivInv(s, m, N, D, low), ~s.done
    PROVE  DivInv(DivStep(s), m, N, D, low) /\ DivProgress(s, DivStep(s))
  <1>1. DivNumbers(s, m, N, D) /\ DivPlaces(s, D, low)
    BY DEF DivInv
  <1>2. /\ Number(s.rn) /\ Number(s.sd) /\ s.shift \in Nat
        /\ Magnitude(s.sd) = D * Power(Base, s.shift)
        /\ Magnitude(s.rn) \in Nat /\ Magnitude(s.sd) \in Nat /\ s.done \in BOOLEAN
        /\ ~s.q.over
    BY <1>1, DivParts
  <1>3. int_is_abs(s.rn, s.sd) = Order(Magnitude(s.rn), Magnitude(s.sd))
    BY <1>2, CompareAbs
  <1>4. PICK less \in BOOLEAN : less = (int_is_abs(s.rn, s.sd) = "LT")
    OBVIOUS
  <1>5. less <=> Magnitude(s.rn) < Magnitude(s.sd)
    BY <1>3, <1>4 DEF Order
  <1>6. PICK next : next = NextPlace(s)
    OBVIOUS
  <1>7. DivStep(s) = IF less /\ s.shift = 0 THEN [s EXCEPT !.done = TRUE]
                     ELSE IF (IF less THEN next ELSE s).q.over THEN [(IF less THEN next ELSE s) EXCEPT !.done = TRUE]
                     ELSE Reduce(IF less THEN next ELSE s, Max({1, Guess(IF less THEN next ELSE s)}))
    BY <1>4, <1>6 DEF DivStep, NextPlace
  <1>8. CASE less /\ s.shift = 0
    <2>1. PICK t : t = [s EXCEPT !.done = TRUE]
      OBVIOUS
    <2>2. /\ t \in DivStates(m) /\ t.rn = s.rn /\ t.q = s.q /\ t.sd = s.sd /\ t.shift = s.shift
          /\ t.nDigit = s.nDigit /\ t.test = s.test /\ t.done
      <3>1. s \in DivStates(m) /\ TRUE \in BOOLEAN
        BY <1>1 DEF DivNumbers
      <3> QED
        BY <2>1, <3>1 DEF DivStates
    <2>3. DivNumbers(t, m, N, D) /\ DivPlaces(t, D, low)
      BY <1>1, <2>2 DEF DivNumbers, DivPlaces
    <2>4. Magnitude(t.rn) < D
      <3>1. D * Power(Base, s.shift) = D
        BY <1>8, SmallPowers
      <3> QED
        BY <1>2, <1>5, <1>8, <2>2, <3>1
    <2>5. DivInv(t, m, N, D, low) /\ DivProgress(s, t)
      BY <1>8, <2>2, <2>3, <2>4 DEF DivInv, DivProgress
    <2> QED
      BY <1>7, <1>8, <2>1, <2>5
  <1>9. CASE less /\ s.shift # 0
    <2>1. DivNumbers(next, m, N, D) /\ DivPlaces(next, D, low) /\ next.shift = s.shift - 1 /\ next.done = s.done
      <3>1. s.shift > 0
        BY <1>2, <1>9
      <3> QED
        BY <1>1, <1>6, <3>1, NextDigit
    <2>2. ~next.q.over /\ next.shift \in Nat
      BY <2>1, DivParts
    <2>3. PICK g \in Nat : /\ g = Max({1, Guess(next)}) /\ g > 0 /\ g < Power(Base, 4)
                           /\ g * Magnitude(next.sd) < Power(Base, MaxDigits)
      BY <2>1, GuessIs
    <2>4. PICK t : t = Reduce(next, g)
      OBVIOUS
    <2>5. DivNumbers(t, m, N, D) /\ DivPlaces(t, D, low) /\ t.shift = next.shift /\ t.done = next.done
      BY <2>1, <2>3, <2>4, ReduceIs
    <2>6. DivStep(s) = t
      BY <1>7, <1>9, <2>2, <2>3, <2>4
    <2>7. t.shift < s.shift /\ ~t.done
      BY <1>2, <2>1, <2>5
    <2> QED
      BY <2>5, <2>6, <2>7 DEF DivInv, DivProgress
  <1>10. CASE ~less
    <2>3. PICK g \in Nat : /\ g = Max({1, Guess(s)}) /\ g > 0 /\ g < Power(Base, 4)
                           /\ g * Magnitude(s.sd) < Power(Base, MaxDigits)
                           /\ Magnitude(s.sd) <= Magnitude(s.rn) => g * Magnitude(s.sd) <= Magnitude(s.rn)
      BY <1>1, GuessIs
    <2>4. PICK t : t = Reduce(s, g)
      OBVIOUS
    <2>5. /\ DivNumbers(t, m, N, D) /\ DivPlaces(t, D, low) /\ t.shift = s.shift /\ t.done = s.done
          /\ g * Magnitude(s.sd) <= Magnitude(s.rn) => Magnitude(t.rn) < Magnitude(s.rn)
      BY <1>1, <2>3, <2>4, ReduceIs
    <2>6. DivStep(s) = t
      BY <1>2, <1>7, <1>10, <2>3, <2>4
    <2>7. Magnitude(t.rn) < Magnitude(s.rn)
      BY <1>2, <1>5, <1>10, <2>3, <2>5
    <2> QED
      BY <2>5, <2>6, <2>7 DEF DivInv, DivProgress
  <1> QED
    BY <1>8, <1>9, <1>10

(* The copies int_div works on, and the denominator's highest digit.       *)
LEMMA CopyOf ==
    ASSUME NEW i, Number(i), ~i.over, i.d <= MaxDigits, NEW t, t = int_set_t([i EXCEPT !.neg = FALSE], Concrete254)
    PROVE  Holds(t, MaxDigits, Magnitude(i)) /\ t.d = i.d
  <1>1. PICK o \in BOOLEAN : o = FALSE
    OBVIOUS
  <1>2. PICK u : u = [i EXCEPT !.neg = o]
    OBVIOUS
  <1>3. IntOK(i)
    BY DEF Number
  <1>4. IntOK(u) /\ u.d = i.d /\ u.over = i.over /\ Magnitude(u) = Magnitude(i) /\ Number(u)
    BY <1>2, <1>3, SignAside
  <1>5. IntOK(Concrete254) /\ Concrete254.m = MaxDigits
    BY ConcreteIs DEF Holds
  <1>6. t = int_set_t(u, Concrete254)
    BY <1>1, <1>2
  <1> QED
    BY <1>4, <1>5, <1>6, SetT DEF Holds

LEMMA TestDigit ==
    ASSUME NEW i, Number(i), NEW low \in Nat, low = i.d - 1, Magnitude(i) # 0
    PROVE  /\ Half(i, low) \in Nat
           /\ Magnitude(i) < (Half(i, low) + 1) * Power(Base, low) /\ Power(Base, low) <= Magnitude(i)
  <1>1. i.d \in Nat /\ i.m \in Nat /\ i.d <= i.m /\ i.h \in Halves(i.m) /\ IntOK(i) /\ i.d > 0
    BY IntFacts DEF Number
  <1>2. low \in 0 .. i.m - 1 /\ low \in 0 .. i.m /\ low + 1 = i.d /\ low \in 0 .. i.d - 1
    BY <1>1
  <1>3. PICK c \in Nat, p \in Nat, A \in Nat : c = Half(i, low) /\ c = i.h[low + 1] /\ p = Power(Base, low) /\ A = Amount(i.h)[low] /\ A < p
    <2>1. Half(i, low) \in Nat /\ Half(i, low) = i.h[low + 1]
      BY <1>1, <1>2, HalfDigit
    <2>2. Power(Base, low) \in Nat
      BY BasePower
    <2>3. Amount(i.h)[low] \in Nat /\ Amount(i.h)[low] < Power(Base, low)
      BY <1>1, <1>2, AmountBound
    <2> QED
      BY <2>1, <2>2, <2>3
  <1>4. Magnitude(i) = A + c * p
    BY <1>1, <1>2, <1>3, AmountIs DEF Magnitude
  <1>5. (c + 1) * p = c * p + p
    OBVIOUS
  <1>6. PICK w \in Nat : w = c * p
    OBVIOUS
  <1>7. A + w < w + p
    BY <1>3
  <1>8. Power(Base, low) <= Magnitude(i)
    BY NotLess
  <1> QED
    BY <1>3, <1>4, <1>5, <1>6, <1>7, <1>8

(* int_div starts with nothing taken off the numerator and the denominator *)
(* shifted to the place where the first guess is made.                     *)
THEOREM DivBegin ==
    ASSUME NEW n, NEW d, NEW q, Number(n), ~n.over, n.d <= MaxDigits, Number(d), ~d.over, d.d <= MaxDigits, IntOK(q),
           NEW N \in Nat, NEW D \in Nat, N = Magnitude(n), D = Magnitude(d), D > 0, D <= N
    PROVE  DivInv(DivStart(n, d, q), q.m, N, D, d.d - 1) /\ ~DivStart(n, d, q).done /\ d.d - 1 \in Nat
  <1>1. n.d \in Nat /\ d.d \in Nat /\ d.d > 0 /\ IntOK(n) /\ IntOK(d) /\ MaxDigits \in Nat
    BY IntFacts, MaxDigitsIs DEF Number
  <1>2. PICK x \in Nat, y \in Nat, low \in Nat : x = n.d /\ y = d.d /\ low = d.d - 1 /\ y = low + 1
    BY <1>1
  <1>3. PICK c \in Nat : c = Half(d, low) /\ D < (c + 1) * Power(Base, low) /\ Power(Base, low) <= D
    <2>1. Magnitude(d) # 0 /\ low = d.d - 1
      BY <1>2
    <2>2. /\ Half(d, low) \in Nat
          /\ D < (Half(d, low) + 1) * Power(Base, low) /\ Power(Base, low) <= D
      BY <2>1, TestDigit
    <2> QED
      BY <2>2
  <1>4. y <= x
    <2>1. N < Power(Base, x) /\ Power(Base, x) \in Nat /\ Power(Base, low) \in Nat
      BY <1>1, <1>2, MagnitudeIs, BasePower
    <2>2. Power(Base, low) < Power(Base, x)
      BY <1>3, <2>1
    <2>3. low < x
      BY <2>2, LowerPower
    <2> QED
      BY <1>2, <2>3
  <1>5. PICK sh \in Int : sh = n.d - d.d - 1 /\ sh = x - y - 1 /\ x <= MaxDigits
    BY <1>1, <1>2
  <1>20. y = low + 1 /\ sh = x - y - 1 /\ x <= MaxDigits /\ y <= x
    BY <1>2, <1>4, <1>5
  <1>6. PICK j \in Nat : j = Max({sh, 0}) /\ j = (IF sh >= 0 THEN sh ELSE 0)
    <2>1. Max({sh, 0}) = IF sh >= 0 THEN sh ELSE 0
      BY MaxOfTwo
    <2> QED
      BY <2>1
  <1>7. PICK rn, sd0 : rn = int_set_t([n EXCEPT !.neg = FALSE], Concrete254) /\ sd0 = int_set_t([d EXCEPT !.neg = FALSE], Concrete254)
    OBVIOUS
  <1>8. Holds(rn, MaxDigits, N) /\ Holds(sd0, MaxDigits, D)
    BY <1>7, CopyOf
  <1>9. PICK sd : sd = IF sh >= 1 THEN int_shift(sh, sd0) ELSE sd0
    OBVIOUS
  <1>10. Holds(sd, MaxDigits, D * Power(Base, j))
    <2>1. CASE sh >= 1
      <3>1. j = sh
        BY <1>6, <2>1
      <3>2. D * Power(Base, j) < Power(Base, MaxDigits)
        <4>1. PICK p \in Nat, r \in Nat, top \in Nat : p = Power(Base, j) /\ p > 0 /\ r = Power(Base, y) /\ top = Power(Base, MaxDigits)
          BY <1>1, BasePower
        <4>2. D < r
          BY <1>1, <1>2, <4>1, MagnitudeIs
        <4>3. D * p + p <= r * p
          BY <4>1, <4>2, OneMore
        <4>4. Power(Base, y + j) = r * p
          BY <4>1, BaseIs, PowerAdd
        <4>5. Power(Base, y + j) <= Power(Base, MaxDigits)
          <5>1. y + j <= MaxDigits /\ y + j \in Nat
            BY <1>1, <1>5, <3>1
          <5>2. Base \in Nat /\ Base > 0
            BY BaseIs
          <5> QED
            BY <1>1, <5>1, <5>2, PowerGrows
        <4>6. PICK u \in Nat, v \in Nat : u = D * p /\ v = r * p
          OBVIOUS
        <4> QED
          BY <4>1, <4>3, <4>4, <4>5, <4>6
      <3>3. Number(sd0) /\ sd0.m = MaxDigits /\ ~sd0.over /\ Magnitude(sd0) = D
        BY <1>8 DEF Holds
      <3>4. sd = int_shift(j, sd0)
        BY <1>9, <2>1, <3>1
      <3> QED
        BY <3>2, <3>3, <3>4, ShiftUp DEF Holds
    <2>2. CASE ~(sh >= 1)
      <3>1. j = 0 /\ sd = sd0
        BY <1>6, <1>9, <2>2
      <3>2. D * Power(Base, j) = D
        BY <3>1, SmallPowers
      <3> QED
        BY <1>8, <3>1, <3>2
    <2> QED
      BY <2>1, <2>2
  <1>11. PICK k \in Nat : k = (IF sh = -1 THEN n.d ELSE n.d - 1) /\ k = low + 1 + j /\ k <= MaxDigits
    <2>1. CASE sh = -1
      <3>1. j = 0 /\ x = low + 1 + 0 /\ x <= MaxDigits
        BY <1>20, <1>6, <2>1
      <3> QED
        BY <1>2, <2>1, <3>1
    <2>2. CASE sh # -1
      <3>1. sh >= 0
        BY <1>20, <2>2
      <3>2. j = sh
        BY <1>6, <3>1
      <3>3. x - 1 = low + 1 + j /\ x - 1 <= MaxDigits
        BY <1>1, <1>2, <1>5, <3>2
      <3> QED
        BY <1>2, <2>2, <3>3
    <2> QED
      BY <2>1, <2>2
  <1>12. PICK z : z = int_init(q)
    OBVIOUS
  <1>13. Holds(z, q.m, 0)
    BY <1>12, InitIs
  <1>14. PICK s : s = DivStart(n, d, q)
    OBVIOUS
  <1>15. s = [rn |-> rn, sd |-> sd, q |-> z, shift |-> j, nDigit |-> k, test |-> c + 1, done |-> FALSE]
    BY <1>2, <1>3, <1>5, <1>6, <1>7, <1>9, <1>11, <1>12, <1>14 DEF DivStart
  <1>16. /\ s \in DivStates(q.m) /\ s.rn = rn /\ s.q = z /\ s.sd = sd /\ s.shift = j
         /\ s.nDigit = k /\ s.test = c + 1 /\ ~s.done
    <2>1. rn \in Ints(MaxDigits) /\ sd \in Ints(MaxDigits) /\ z \in Ints(q.m) /\ c + 1 \in Nat /\ FALSE \in BOOLEAN
      BY <1>8, <1>10, <1>13 DEF Holds, Number, IntOK
    <2> QED
      BY <1>15, <2>1 DEF DivStates
  <1>17. DivNumbers(s, q.m, N, D)
    <2>1. /\ Number(s.rn) /\ ~s.rn.over /\ Magnitude(s.rn) = N
          /\ Number(s.q) /\ ~s.q.over /\ Magnitude(s.q) = 0
      BY <1>8, <1>13, <1>16 DEF Holds
    <2>2. PICK v \in Nat : v = Magnitude(s.sd)
      BY <1>10, <1>16, MagnitudeIs DEF Holds, Number
    <2>3. N + 0 * v = N
      OBVIOUS
    <2> QED
      BY <1>10, <1>16, <2>1, <2>2, <2>3 DEF DivNumbers
  <1>18. DivPlaces(s, D, low)
    BY <1>3, <1>11, <1>16 DEF DivPlaces
  <1> QED
    BY <1>2, <1>14, <1>16, <1>17, <1>18 DEF DivInv

-----------------------------------------------------------------------------
(* What int_div returns.                                                   *)
LEMMA DivDone ==
    ASSUME NEW s, NEW m, Room(m), NEW N \in Nat, NEW D \in Nat, D > 0, NEW low, DivInv(s, m, N, D, low), s.done
    PROVE  Splits(N, D, Magnitude(s.q), Magnitude(s.rn))
  <1>1. PICK R \in Nat, Q \in Nat : /\ R = Magnitude(s.rn) /\ Q = Magnitude(s.q)
                                    /\ R + Q * Magnitude(s.sd) = N /\ Magnitude(s.sd) = D * Power(Base, s.shift)
    BY DivParts DEF DivInv
  <1>2. R < D /\ Magnitude(s.sd) = D
    BY <1>1, SmallPowers DEF DivInv
  <1>3. R + Q * D = D * Q + R
    OBVIOUS
  <1> QED
    BY <1>1, <1>2, <1>3 DEF Splits

(* Truncated division and what it leaves, from the magnitudes.             *)
LEMMA TruncatedIs ==
    ASSUME NEW x \in Int, NEW y \in Int, NEW N \in Nat, NEW D \in Nat, N = Abs(x), D = Abs(y), D > 0,
           NEW Q \in Nat, NEW R \in Nat, Splits(N, D, Q, R)
    PROVE  /\ Truncated(x, y) = IF (x < 0) # (y < 0) THEN -Q ELSE Q
           /\ x - y * Truncated(x, y) = IF x < 0 THEN -R ELSE R
  <1>1. N \div D = Q
    BY DivIs
  <1>2. Truncated(x, y) = (IF (x < 0) # (y < 0) THEN -1 ELSE 1) * Q
    BY <1>1 DEF Truncated
  <1>3. (-1) * Q = -Q /\ 1 * Q = Q
    OBVIOUS
  <1>4. Truncated(x, y) = IF (x < 0) # (y < 0) THEN -Q ELSE Q
    BY <1>2, <1>3
  <1>5. PICK w \in Nat : w = D * Q /\ N = w + R
    BY DEF Splits
  <1>6. /\ x < 0 => x = -N
        /\ ~(x < 0) => x = N
        /\ y < 0 => y = -D
        /\ ~(y < 0) => y = D
    BY DEF Abs
  <1>7. (-D) * Q = -w /\ D * (-Q) = -w /\ (-D) * (-Q) = w
    BY <1>5
  <1>8. CASE x < 0 /\ y < 0
    BY <1>4, <1>5, <1>6, <1>7, <1>8
  <1>9. CASE x < 0 /\ ~(y < 0)
    BY <1>4, <1>5, <1>6, <1>7, <1>9
  <1>10. CASE ~(x < 0) /\ y < 0
    BY <1>4, <1>5, <1>6, <1>7, <1>10
  <1>11. CASE ~(x < 0) /\ ~(y < 0)
    BY <1>4, <1>5, <1>6, <1>7, <1>11
  <1> QED
    BY <1>8, <1>9, <1>10, <1>11

(* The sign of a number that is not zero.                                  *)
LEMMA SignOf ==
    ASSUME NEW i, IntOK(i)
    PROVE  /\ Val(i) \in Int /\ Abs(Val(i)) = Magnitude(i)
           /\ Magnitude(i) > 0 => (Val(i) < 0 <=> i.neg)
           /\ Magnitude(i) = 0 <=> Val(i) = 0
           /\ Val(i) = IF i.neg THEN -Magnitude(i) ELSE Magnitude(i)
  <1>1. PICK M \in Nat : M = Magnitude(i)
    BY MagnitudeIs
  <1>2. Val(i) = IF i.neg THEN -M ELSE M
    BY <1>1 DEF Val
  <1>3. CASE i.neg
    BY <1>1, <1>2, <1>3 DEF Abs
  <1>4. CASE ~i.neg
    BY <1>1, <1>2, <1>4 DEF Abs
  <1> QED
    BY <1>3, <1>4

(* A number is its own exact value.                                        *)
LEMMA GivesIt ==
    ASSUME NEW t, Number(t), ~t.over
    PROVE  Gives(t, t.m, Val(t))
  <1>1. IntOK(t)
    BY DEF Number
  <1>2. Abs(Val(t)) < Power(Base, t.m)
    BY <1>1, Fits, SignOf
  <1> QED
    BY <1>2 DEF Gives

(* The result has the room it was given and is exact in it.                *)
Answers(r, m, v) == IntOK(r) /\ r.m = m /\ Gives(r, m, v)

LEMMA QuotientIs ==
    ASSUME NEW n, NEW d, Number(n), Number(d), NEW N \in Nat, NEW D \in Nat, N = Magnitude(n), D = Magnitude(d),
           D > 0, D <= N, NEW s, NEW m, Room(m), NEW low, DivInv(s, m, N, D, low), s.done
    PROVE  /\ Answers(Quotient(n, d, s), m, Truncated(Val(n), Val(d)))
           /\ Number(Quotient(n, d, s)) /\ ~Quotient(n, d, s).over /\ Quotient(n, d, s).m = m
           /\ Magnitude(Quotient(n, d, s)) = Magnitude(s.q)
  <1>1. IntOK(n) /\ IntOK(d) /\ n.neg \in BOOLEAN /\ d.neg \in BOOLEAN
    BY IntFacts DEF Number
  <1>2. PICK R \in Nat, Q \in Nat : R = Magnitude(s.rn) /\ Q = Magnitude(s.q) /\ Holds(s.q, m, Q)
    BY DivParts DEF DivInv, Holds
  <1>3. Splits(N, D, Q, R)
    BY <1>2, DivDone
  <1>4. PICK sg \in BOOLEAN : sg = (n.neg # d.neg)
    BY <1>1
  <1>5. PICK q : q = s.q
    OBVIOUS
  <1>12. PICK t : t = [q EXCEPT !.neg = sg]
    OBVIOUS
  <1>6. /\ Number(t) /\ IntOK(t) /\ t.m = m /\ ~t.over /\ Magnitude(t) = Q
        /\ sg => Val(t) = -Q
        /\ ~sg => Val(t) = Q
    <2>1. Holds(q, m, Q)
      BY <1>2, <1>5
    <2>2. IntOK(q) /\ Number(q) /\ q.m = m /\ ~q.over /\ Magnitude(q) = Q
      BY <2>1 DEF Holds, Number
    <2>3. /\ IntOK(t) /\ t.m = q.m /\ t.neg = sg /\ t.over = q.over
          /\ Magnitude(t) = Magnitude(q) /\ (Number(q) => Number(t))
      BY <1>12, <2>2, SignAside
    <2> QED
      BY <2>2, <2>3 DEF Val
  <1>7. Quotient(n, d, s) = t
    BY <1>2, <1>4, <1>5, <1>12 DEF Quotient, Holds
  <1>8. PICK x \in Int, y \in Int : x = Val(n) /\ y = Val(d) /\ Abs(x) = N /\ Abs(y) = D /\ (x < 0 <=> n.neg) /\ (y < 0 <=> d.neg)
    <2>1. Val(n) \in Int /\ Abs(Val(n)) = N /\ (Val(n) < 0 <=> n.neg)
      BY <1>1, SignOf
    <2>2. Val(d) \in Int /\ Abs(Val(d)) = D /\ (Val(d) < 0 <=> d.neg)
      BY <1>1, SignOf
    <2> QED
      BY <2>1, <2>2
  <1>9. Truncated(x, y) = IF (x < 0) # (y < 0) THEN -Q ELSE Q
    BY <1>3, <1>8, TruncatedIs
  <1>10. Truncated(x, y) = Val(t)
    <2>1. CASE sg
      <3>1. (x < 0) # (y < 0)
        <4>1. n.neg # d.neg
          BY <1>4, <2>1
        <4>2. CASE n.neg
          <5>1. ~d.neg
            BY <1>1, <4>1, <4>2
          <5> QED
            BY <1>8, <4>2, <5>1
        <4>3. CASE ~n.neg
          <5>1. d.neg
            BY <1>1, <4>1, <4>3
          <5> QED
            BY <1>8, <4>3, <5>1
        <4> QED
          BY <4>2, <4>3
      <3> QED
        BY <1>6, <1>9, <2>1, <3>1
    <2>2. CASE ~sg
      <3>1. ~((x < 0) # (y < 0))
        BY <1>1, <1>4, <1>8, <2>2
      <3> QED
        BY <1>6, <1>9, <2>2, <3>1
    <2> QED
      BY <2>1, <2>2
  <1>11. Gives(t, m, Val(t))
    BY <1>6, GivesIt
  <1> QED
    BY <1>2, <1>6, <1>7, <1>8, <1>10, <1>11 DEF Answers

(* What int_mod gives: what truncated division leaves, and the divisor     *)
(* when the signs differ.                                                  *)
Modulo(x, y) == x - y * Truncated(x, y) + (IF x # 0 /\ (x < 0) # (y < 0) THEN y ELSE 0)

(* Division of a negative number goes to the next lower one.               *)
LEMMA FloorOf ==
    ASSUME NEW N \in Nat, NEW D \in Nat, D > 0, NEW Q \in Nat, NEW R \in Nat, Splits(N, D, Q, R), R > 0
    PROVE  (-N) \div D = -Q - 1
  <1>1. N = D * Q + R /\ R < D
    BY DEF Splits
  <1>2. -N = D * (-Q - 1) + (D - R) /\ D - R \in Nat /\ D - R < D
    BY <1>1
  <1> QED
    BY <1>2

(* That is x modulo y of Python, the remainder of floored division, but    *)
(* for operands of different signs that divide evenly.                     *)
LEMMA ModuloIs ==
    ASSUME NEW x \in Int, NEW y \in Int, y # 0,
           ~(x # 0 /\ (x < 0) # (y < 0) /\ Abs(x) % Abs(y) = 0)
    PROVE  Modulo(x, y) = x - y * Floored(x, y)
  <1>1. PICK N \in Nat, D \in Nat : N = Abs(x) /\ D = Abs(y) /\ D > 0
    BY DEF Abs
  <1>2. PICK Q \in Nat, R \in Nat : Splits(N, D, Q, R) /\ N \div D = Q /\ N % D = R
    <2>1. N \div D \in Nat /\ N % D \in Nat /\ N % D < D /\ N = D * (N \div D) + (N % D)
      BY <1>1, DivFacts
    <2> QED
      BY <2>1 DEF Splits
  <1>3. Truncated(x, y) = IF (x < 0) # (y < 0) THEN -Q ELSE Q
    BY <1>1, <1>2, TruncatedIs
  <1>4. CASE (x < 0) # (y < 0) /\ x # 0
    <2>1. R # 0
      BY <1>1, <1>2, <1>4
    <2>2. (-N) \div D = -Q - 1
      BY <1>1, <1>2, <2>1, FloorOf
    <2>3. Floored(x, y) = (-N) \div D
      <3>1. CASE x < 0
        <4>1. ~(y < 0) /\ y = D /\ x = -N
          BY <1>1, <1>4, <3>1 DEF Abs
        <4> QED
          BY <1>1, <4>1 DEF Floored
      <3>2. CASE ~(x < 0)
        <4>1. y < 0 /\ -y = D /\ -x = -N
          BY <1>1, <1>4, <3>2 DEF Abs
        <4> QED
          BY <1>1, <4>1 DEF Floored
      <3> QED
        BY <3>1, <3>2
    <2>4. Modulo(x, y) = x - y * (-Q) + y
      BY <1>3, <1>4 DEF Modulo
    <2>5. x - y * (-Q) + y = x - y * (-Q - 1)
      OBVIOUS
    <2> QED
      BY <2>2, <2>3, <2>4, <2>5
  <1>5. CASE ~((x < 0) # (y < 0)) /\ x # 0
    <2>1. Floored(x, y) = N \div D
      <3>1. CASE x < 0
        <4>1. y < 0 /\ -y = D /\ -x = N
          BY <1>1, <1>5, <3>1 DEF Abs
        <4> QED
          BY <1>1, <4>1 DEF Floored
      <3>2. CASE ~(x < 0)
        <4>1. y = D /\ x = N
          BY <1>1, <1>5, <3>2 DEF Abs
        <4> QED
          BY <1>1, <4>1 DEF Floored
      <3> QED
        BY <3>1, <3>2
    <2>2. Modulo(x, y) = x - y * Q + 0
      BY <1>3, <1>5 DEF Modulo
    <2>3. x - y * Q + 0 = x - y * Q
      OBVIOUS
    <2> QED
      BY <1>2, <2>1, <2>2, <2>3
  <1>6. CASE x = 0
    <2>1. x <= 0 /\ x >= 0
      BY <1>6
    <2>2. N = 0 /\ -x = 0
      BY <1>1, <2>1 DEF Abs
    <2>3. Splits(0, D, 0, 0)
      BY <1>1 DEF Splits
    <2>4. Q = 0 /\ 0 \div D = 0
      BY <1>1, <1>2, <2>2, <2>3, DivIs
    <2>5. Floored(x, y) = 0
      <3>1. CASE y > 0
        <4>1. y = D
          BY <1>1, <3>1 DEF Abs
        <4> QED
          BY <1>6, <2>4, <3>1, <4>1 DEF Floored
      <3>2. CASE ~(y > 0)
        <4>1. -y = D
          BY <1>1, <3>2 DEF Abs
        <4> QED
          BY <2>2, <2>4, <3>2, <4>1 DEF Floored
      <3> QED
        BY <3>1, <3>2
    <2>6. Q <= 0 /\ -Q >= 0
      BY <2>4
    <2>7. Truncated(x, y) = 0
      BY <1>3, <2>6
    <2>8. Modulo(x, y) = 0 - y * 0 + 0
      BY <1>6, <2>7 DEF Modulo
    <2> QED
      BY <1>6, <2>5, <2>8
  <1> QED
    BY <1>4, <1>5, <1>6

LEMMA Signs ==
    ASSUME NEW n, NEW d, IntOK(n), IntOK(d), Magnitude(n) > 0, Magnitude(d) > 0
    PROVE  /\ Val(n) # 0 /\ ((Val(n) < 0) # (Val(d) < 0) <=> n.neg # d.neg)
           /\ Val(n) < 0 <=> n.neg
  <1>1. n.neg \in BOOLEAN /\ d.neg \in BOOLEAN
    BY IntFacts
  <1>2. (Val(n) < 0 <=> n.neg) /\ (Val(d) < 0 <=> d.neg) /\ Val(n) # 0
    BY SignOf
  <1>3. PICK x \in BOOLEAN, y \in BOOLEAN : x = n.neg /\ y = d.neg
    BY <1>1
  <1>4. CASE x /\ y
    BY <1>2, <1>3, <1>4
  <1>5. CASE x /\ ~y
    BY <1>2, <1>3, <1>5
  <1>6. CASE ~x /\ y
    BY <1>2, <1>3, <1>6
  <1>7. CASE ~x /\ ~y
    BY <1>2, <1>3, <1>7
  <1> QED
    BY <1>4, <1>5, <1>6, <1>7

LEMMA RemainderIs ==
    ASSUME NEW n, NEW d, Number(n), Number(d), NEW N \in Nat, NEW D \in Nat, N = Magnitude(n), D = Magnitude(d),
           D > 0, D <= N, NEW s, NEW m, Room(m), NEW low, DivInv(s, m, N, D, low), s.done,
           NEW r, IntOK(r), d.d <= r.m
    PROVE  Answers(Remainder(n, d, s, r), r.m, Modulo(Val(n), Val(d)))
  <1>1. IntOK(n) /\ IntOK(d) /\ n.neg \in BOOLEAN /\ d.neg \in BOOLEAN /\ d.d \in Nat /\ d.d > 0 /\ r.m \in Nat
    BY IntFacts DEF Number
  <1>2. PICK R \in Nat, Q \in Nat : R = Magnitude(s.rn) /\ Q = Magnitude(s.q) /\ Number(s.rn) /\ ~s.rn.over
    BY DivParts DEF DivInv
  <1>3. Splits(N, D, Q, R)
    BY <1>2, DivDone
  <1>4. s.rn.d <= r.m
    <2>1. R < Power(Base, d.d)
      <3>1. D < Power(Base, d.d) /\ Power(Base, d.d) \in Nat /\ R < D
        BY <1>1, <1>3, MagnitudeIs, BasePower DEF Splits
      <3> QED
        BY <3>1
    <2>2. s.rn.d <= d.d /\ s.rn.d \in Nat
      BY <1>1, <1>2, <2>1, Shortest, IntFacts DEF Number
    <2> QED
      BY <1>1, <2>2
  <1>5. PICK u : u = int_set_t(s.rn, r)
    OBVIOUS
  <1>6. Number(u) /\ IntOK(u) /\ u.m = r.m /\ ~u.over /\ Magnitude(u) = R
    BY <1>2, <1>4, <1>5, SetT DEF Number
  <1>7. PICK sg \in BOOLEAN : sg = n.neg
    BY <1>1
  <1>8. PICK t : t = [u EXCEPT !.neg = sg]
    OBVIOUS
  <1>9. /\ IntOK(t) /\ t.m = u.m /\ t.neg = sg /\ t.over = u.over
        /\ Magnitude(t) = Magnitude(u) /\ (Number(u) => Number(t))
    BY <1>6, <1>8, SignAside
  <1>10. Number(t) /\ ~t.over /\ t.m = r.m /\ Magnitude(t) = R /\ Val(t) = IF n.neg THEN -R ELSE R
    BY <1>6, <1>7, <1>9 DEF Val
  <1>11. PICK x \in Int, y \in Int : x = Val(n) /\ y = Val(d) /\ Abs(x) = N /\ Abs(y) = D
    BY <1>1, SignOf
  <1>12. x # 0 /\ ((x < 0) # (y < 0) <=> n.neg # d.neg) /\ (x < 0 <=> n.neg)
    BY <1>1, <1>11, Signs
  <1>13. x - y * Truncated(x, y) = IF x < 0 THEN -R ELSE R
    BY <1>3, <1>11, TruncatedIs
  <1>14. x - y * Truncated(x, y) = Val(t)
    BY <1>10, <1>12, <1>13
  <1>15. Remainder(n, d, s, r) = IF ~int_is_zero(n) /\ n.neg # d.neg THEN int_add(t, d, t) ELSE t
    BY <1>5, <1>7, <1>8 DEF Remainder
  <1>16. ~int_is_zero(n)
    BY ZeroIs
  <1>17. Val(t) \in Int
    BY <1>9, SignOf
  <1>18. CASE n.neg # d.neg
    <2>1. Remainder(n, d, s, r) = int_add(t, d, t)
      BY <1>15, <1>16, <1>18
    <2>2. Modulo(x, y) = Val(t) + Val(d)
      BY <1>11, <1>12, <1>14, <1>18 DEF Modulo
    <2>3. Gives(int_add(t, d, t), r.m, Val(t) + Val(d))
      BY <1>9, <1>10, IntAdd
    <2>4. IntOK(int_add(t, d, t)) /\ int_add(t, d, t).m = r.m
      BY <1>1, <1>9, <1>10, IntAddShape DEF Keeps
    <2> QED
      BY <1>11, <2>1, <2>2, <2>3, <2>4 DEF Answers
  <1>19. CASE ~(n.neg # d.neg)
    <2>1. Remainder(n, d, s, r) = t
      BY <1>15, <1>19
    <2>2. Modulo(x, y) = Val(t)
      BY <1>12, <1>14, <1>17, <1>19 DEF Modulo
    <2>3. Gives(t, r.m, Val(t))
      BY <1>10, GivesIt
    <2> QED
      BY <1>9, <1>10, <1>11, <2>1, <2>2, <2>3 DEF Answers
  <1> QED
    BY <1>18, <1>19

LEMMA SmallRemainderIs ==
    ASSUME NEW n, NEW d, Number(n), Number(d), ~n.over, Magnitude(n) < Magnitude(d),
           NEW r, IntOK(r), ~r.over, n.d <= r.m
    PROVE  Answers(SmallRemainder(n, d, r), r.m, Modulo(Val(n), Val(d)))
  <1>1. IntOK(n) /\ IntOK(d) /\ n.neg \in BOOLEAN /\ d.neg \in BOOLEAN
    BY IntFacts DEF Number
  <1>2. PICK N \in Nat, D \in Nat : N = Magnitude(n) /\ D = Magnitude(d) /\ N < D
    BY <1>1, MagnitudeIs
  <1>3. PICK x \in Int, y \in Int : x = Val(n) /\ y = Val(d) /\ Abs(x) = N /\ Abs(y) = D
    BY <1>1, <1>2, SignOf
  <1>4. Splits(N, D, 0, N)
    BY <1>2 DEF Splits
  <1>5. x - y * Truncated(x, y) = x
    <2>1. x - y * Truncated(x, y) = IF x < 0 THEN -N ELSE N
      BY <1>2, <1>3, <1>4, TruncatedIs
    <2> QED
      BY <1>3, <2>1 DEF Abs
  <1>6. int_is_zero(n) <=> N = 0
    BY <1>2, ZeroIs
  <1>7. x = 0 <=> N = 0
    BY <1>1, <1>2, <1>3, SignOf
  <1>8. CASE N # 0 /\ n.neg # d.neg
    <2>1. (x < 0) # (y < 0)
      BY <1>1, <1>2, <1>3, <1>8, Signs
    <2>2. Modulo(x, y) = x + y
      BY <1>5, <1>7, <1>8, <2>1 DEF Modulo
    <2>3. SmallRemainder(n, d, r) = int_add(n, d, r)
      BY <1>6, <1>8 DEF SmallRemainder
    <2>4. Gives(int_add(n, d, r), r.m, Val(n) + Val(d))
      BY IntAdd
    <2>5. IntOK(int_add(n, d, r)) /\ int_add(n, d, r).m = r.m
      BY <1>1, IntAddShape DEF Keeps
    <2> QED
      BY <1>3, <2>2, <2>3, <2>4, <2>5 DEF Answers
  <1>9. CASE ~(N # 0 /\ n.neg # d.neg)
    <2>1. PICK t : t = int_set_t(n, r)
      OBVIOUS
    <2>2. SmallRemainder(n, d, r) = t
      BY <1>6, <1>9, <2>1 DEF SmallRemainder
    <2>3. Number(t) /\ t.m = r.m /\ ~t.over /\ t.neg = n.neg /\ Magnitude(t) = N
      BY <1>2, <2>1, SetT
    <2>4. Val(t) = x
      BY <1>2, <1>3, <2>3 DEF Val
    <2>5. Modulo(x, y) = x
      <3>1. ~(x # 0 /\ (x < 0) # (y < 0))
        <4>1. CASE N = 0
          BY <1>7, <4>1
        <4>2. CASE N # 0
          <5>1. ~(n.neg # d.neg)
            BY <1>9, <4>2
          <5>2. N > 0 /\ D > 0
            BY <1>2, <4>2
          <5>3. (x < 0) # (y < 0) <=> n.neg # d.neg
            BY <1>1, <1>2, <1>3, <5>2, Signs
          <5> QED
            BY <5>1, <5>3
        <4> QED
          BY <4>1, <4>2
      <3> QED
        BY <1>5, <3>1 DEF Modulo
    <2>6. Gives(t, r.m, x)
      BY <2>3, <2>4, GivesIt
    <2> QED
      BY <1>3, <2>2, <2>3, <2>5, <2>6 DEF Answers, Number
  <1> QED
    BY <1>8, <1>9

-----------------------------------------------------------------------------
(* Text. The digits of a sequence, most significant first, are those of w. *)
TextIs(s, w) ==
    /\ w \in Nat /\ w < Power(Radix, Len(s))
    /\ \A k \in 1 .. Len(s) : s[k] = (w \div Power(Radix, Len(s) - k)) % Radix

LEMMA RadixIs == Radix \in Nat /\ Radix > 1 /\ Radix < Base /\ Chunk \in Nat
  BY BigIntAssumption, BaseIs

LEMMA RadixPower ==
    ASSUME NEW k \in Nat
    PROVE  Power(Radix, k) \in Nat /\ Power(Radix, k) > 0 /\ Power(Radix, k + 1) = Radix * Power(Radix, k)
  <1>1. Radix \in Nat /\ Radix > 0
    BY RadixIs
  <1> QED
    BY <1>1, PowerIs, PowerPositive

LEMMA RadixSum ==
    ASSUME NEW j \in Nat, NEW k \in Nat PROVE Power(Radix, j + k) = Power(Radix, j) * Power(Radix, k)
  BY RadixIs, PowerAdd

Joins(w, v, p, u) == w = v * p + u
Multiplies(z, p, q) == z = p * q

(* A high digit of v * p + u is one of v.                                  *)
LEMMA HighPart ==
    ASSUME NEW v \in Nat, NEW u \in Nat, NEW p \in Nat, NEW q \in Nat, p > 0, q > 0, u < p,
           NEW w \in Nat, Joins(w, v, p, u), NEW z \in Nat, Multiplies(z, p, q)
    PROVE  w \div z = v \div q
  <1>1. PICK c \in Nat, e \in Nat : c = v \div q /\ v = q * c + e /\ e < q
    <2>1. v \div q \in Nat /\ v % q \in Nat /\ v % q < q /\ v = q * (v \div q) + (v % q)
      BY DivFacts
    <2> QED
      BY <2>1, Zenon
  <1>2. PICK y \in Nat : y = e * p + u
    OBVIOUS
  <1>3. y < z
    <2>1. e * p + p <= q * p /\ q * p = p * q
      BY <1>1, OneMore
    <2>2. PICK k \in Nat : k = e * p
      OBVIOUS
    <2> QED
      BY <1>2, <2>1, <2>2 DEF Multiplies
  <1>4. w = z * c + y
    <2>1. w = (q * c + e) * p + u
      BY <1>1 DEF Joins
    <2>2. (q * c + e) * p + u = (p * q) * c + (e * p + u)
      OBVIOUS
    <2> QED
      BY <1>2, <2>1, <2>2 DEF Multiplies
  <1>5. z > 0
    <2>1. p <= p * q
      BY Times
    <2> QED
      BY <2>1 DEF Multiplies
  <1>6. Splits(w, z, c, y)
    BY <1>3, <1>4 DEF Splits
  <1> QED
    BY <1>1, <1>5, <1>6, DivIs

(* A low digit of v * p + u is one of u: p is a multiple of Radix * q.     *)
Higher(p, q) == \E f \in Nat : p = (Radix * f) * q
LEMMA LowPart ==
    ASSUME NEW v \in Nat, NEW u \in Nat, NEW p \in Nat, NEW q \in Nat, q > 0, Higher(p, q),
           NEW w \in Nat, Joins(w, v, p, u)
    PROVE  (w \div q) % Radix = (u \div q) % Radix
  <1>12. PICK f \in Nat : p = (Radix * f) * q
    BY DEF Higher
  <1>1. Radix \in Nat /\ Radix > 1
    BY RadixIs
  <1>2. PICK c \in Nat, e \in Nat : c = u \div q /\ u = q * c + e /\ e < q
    <2>1. u \div q \in Nat /\ u % q \in Nat /\ u % q < q /\ u = q * (u \div q) + (u % q)
      BY DivFacts
    <2> QED
      BY <2>1, Zenon
  <1>3. PICK i \in Nat, j \in Nat : j = c % Radix /\ c = Radix * i + j /\ j < Radix
    <2>1. c \div Radix \in Nat /\ c % Radix \in Nat /\ c % Radix < Radix /\ c = Radix * (c \div Radix) + (c % Radix)
      BY <1>1, DivFacts
    <2> QED
      BY <2>1, Zenon
  <1>4. PICK g \in Nat : g = v * (Radix * f) + c
    BY <1>1
  <1>5. w = q * g + e
    <2>1. w = v * ((Radix * f) * q) + (q * c + e)
      BY <1>2, <1>12 DEF Joins
    <2>2. v * ((Radix * f) * q) + (q * c + e) = q * (v * (Radix * f) + c) + e
      BY <1>1
    <2> QED
      BY <1>4, <2>1, <2>2
  <1>6. Splits(w, q, g, e)
    BY <1>2, <1>5 DEF Splits
  <1>7. w \div q = g
    BY <1>6, DivIs
  <1>8. PICK y \in Nat : y = v * f + i
    OBVIOUS
  <1>9. g = Radix * y + j
    <2>1. g = v * (Radix * f) + (Radix * i + j)
      BY <1>3, <1>4
    <2>2. v * (Radix * f) + (Radix * i + j) = Radix * (v * f + i) + j
      BY <1>1
    <2> QED
      BY <1>8, <2>1, <2>2
  <1>10. Splits(g, Radix, y, j)
    BY <1>3, <1>9 DEF Splits
  <1>11. g % Radix = j
    BY <1>1, <1>10, DivIs
  <1> QED
    BY <1>2, <1>3, <1>7, <1>11

(* The digits of w from the n-th on are those of c.                        *)
LEMMA UpperDigits ==
    ASSUME NEW w \in Nat, NEW n \in Nat, NEW c \in Nat, NEW u \in Nat, u < Power(Radix, n),
           Joins(w, c, Power(Radix, n), u), NEW j \in Nat
    PROVE  w \div Power(Radix, n + j) = c \div Power(Radix, j)
  <1>1. PICK q \in Nat : q = Power(Radix, j) /\ q > 0
    BY RadixPower
  <1>2. PICK P \in Nat : P = Power(Radix, n) /\ P > 0
    BY RadixPower
  <1>3. PICK z \in Nat : z = P * q
    OBVIOUS
  <1>4. Power(Radix, n + j) = z
    BY <1>1, <1>2, <1>3, RadixSum
  <1>5. u < P /\ P > 0 /\ q > 0
    BY <1>1, <1>2
  <1>6. Joins(w, c, P, u) /\ Multiplies(z, P, q)
    BY <1>2, <1>3 DEF Multiplies
  <1>7. w \div z = c \div q
    BY <1>5, <1>6, HighPart
  <1> QED
    BY <1>1, <1>4, <1>7

(* The digits of w below the n-th are those of u.                          *)
LEMMA OtherDigits ==
    ASSUME NEW w \in Nat, NEW n \in Nat, NEW c \in Nat, NEW u \in Nat, Joins(w, c, Power(Radix, n), u),
           NEW j \in Nat, j < n
    PROVE  (w \div Power(Radix, j)) % Radix = (u \div Power(Radix, j)) % Radix
  <1>1. PICK i \in Nat : (i + 1) + j = n
    <2>1. n - j - 1 \in Nat /\ ((n - j - 1) + 1) + j = n
      OBVIOUS
    <2> QED
      BY <2>1
  <1>2. PICK q \in Nat, f \in Nat : q = Power(Radix, j) /\ q > 0 /\ f = Power(Radix, i) /\ Power(Radix, i + 1) = Radix * f
    BY RadixPower
  <1>3. PICK P \in Nat : P = Power(Radix, n)
    BY RadixPower
  <1>4. Power(Radix, (i + 1) + j) = Power(Radix, i + 1) * Power(Radix, j)
    BY RadixSum
  <1>5. P = (Radix * f) * q
    BY <1>1, <1>2, <1>3, <1>4
  <1>6. Joins(w, c, P, u) /\ Higher(P, q) /\ q > 0
    BY <1>2, <1>3, <1>5 DEF Higher
  <1>7. (w \div q) % Radix = (u \div q) % Radix
    BY <1>6, LowPart
  <1> QED
    BY <1>2, <1>7

(* Digits before digits.                                                   *)
LEMMA Concatenated ==
    ASSUME NEW s \in Seq(Nat), NEW t \in Seq(Nat), NEW v \in Nat, NEW u \in Nat, TextIs(s, v), TextIs(t, u)
    PROVE  TextIs(s \o t, v * Power(Radix, Len(t)) + u)
  <1>1. PICK n \in Nat, l \in Nat : n = Len(s) /\ l = Len(t)
    OBVIOUS
  <1>2. v < Power(Radix, n) /\ u < Power(Radix, l)
    BY <1>1 DEF TextIs
  <1>3. PICK P \in Nat, H \in Nat : P = Power(Radix, l) /\ P > 0 /\ H = Power(Radix, n)
    BY RadixPower
  <1>13. v < H /\ u < P
    BY <1>2, <1>3
  <1>4. PICK w \in Nat : w = v * P + u
    OBVIOUS
  <1>5. PICK x : x = s \o t
    OBVIOUS
  <1>6. /\ Len(x) = n + l
        /\ \A k \in 1 .. n : x[k] = s[k]
        /\ \A k \in 1 .. l : x[n + k] = t[k]
    BY <1>1, <1>5
  <1>7. Power(Radix, n + l) = H * P
    BY <1>3, RadixSum
  <1>8. w < Power(Radix, n + l)
    <2>1. v * P + P <= H * P
      BY <1>13, OneMore
    <2>2. PICK i \in Nat, j \in Nat : i = v * P /\ j = H * P
      OBVIOUS
    <2>3. w < j
      BY <1>13, <1>4, <2>1, <2>2
    <2> QED
      BY <1>7, <2>2, <2>3
  <1>9. ASSUME NEW k \in 1 .. n PROVE x[k] = (w \div Power(Radix, n + l - k)) % Radix
    <2>1. PICK j \in Nat : j = n - k /\ n + l - k = l + j
      OBVIOUS
    <2>2. Joins(w, v, Power(Radix, l), u)
      BY <1>3, <1>4 DEF Joins
    <2>3. w \div Power(Radix, l + j) = v \div Power(Radix, j)
      BY <1>2, <2>2, UpperDigits
    <2>4. s[k] = (v \div Power(Radix, j)) % Radix
      BY <1>1, <2>1 DEF TextIs
    <2> QED
      BY <1>6, <2>1, <2>3, <2>4
  <1>10. ASSUME NEW k \in 1 .. l PROVE x[n + k] = (w \div Power(Radix, l - k)) % Radix
    <2>1. PICK j \in Nat : j = l - k /\ j < l
      OBVIOUS
    <2>2. Joins(w, v, Power(Radix, l), u)
      BY <1>3, <1>4 DEF Joins
    <2>3. (w \div Power(Radix, j)) % Radix = (u \div Power(Radix, j)) % Radix
      BY <2>1, <2>2, OtherDigits
    <2>4. t[k] = (u \div Power(Radix, j)) % Radix
      BY <1>1, <2>1 DEF TextIs
    <2> QED
      BY <1>6, <2>1, <2>3, <2>4
  <1>11. ASSUME NEW k \in 1 .. n + l PROVE x[k] = (w \div Power(Radix, n + l - k)) % Radix
    <2>1. CASE k <= n
      BY <1>9, <2>1
    <2>2. CASE ~(k <= n)
      <3>1. PICK i \in 1 .. l : k = n + i /\ n + l - k = l - i
        BY <2>2
      <3> QED
        BY <1>10, <3>1
    <2> QED
      BY <2>1, <2>2
  <1>12. TextIs(x, w)
    BY <1>6, <1>8, <1>11 DEF TextIs
  <1> QED
    BY <1>1, <1>3, <1>4, <1>5, <1>12

-----------------------------------------------------------------------------
(* The digits of one chunk.                                                *)
DigitText(n, v) == [k \in 1 .. n |-> (v \div Power(Radix, n - k)) % Radix]

LEMMA RadixDigit ==
    ASSUME NEW v \in Nat, NEW k \in Nat
    PROVE  (v \div Power(Radix, k)) % Radix \in 0 .. Radix - 1
  <1>1. Radix \in Nat /\ Radix > 0
    BY RadixIs
  <1>2. PICK p \in Nat : p = Power(Radix, k) /\ p > 0
    BY RadixPower
  <1>3. PICK q \in Nat : q = v \div p
    <2>1. v \div p \in Nat
      BY <1>2, DivFacts
    <2> QED
      BY <2>1, Zenon
  <1>4. q % Radix \in Nat /\ q % Radix < Radix
    BY <1>1, DivFacts
  <1> QED
    BY <1>1, <1>2, <1>3, <1>4

LEMMA DigitTextIs ==
    ASSUME NEW n \in Nat, NEW v \in Nat, v < Power(Radix, n)
    PROVE  DigitText(n, v) \in Seq(Nat) /\ Len(DigitText(n, v)) = n /\ TextIs(DigitText(n, v), v)
  <1> DEFINE D(k) == (v \div Power(Radix, n - k)) % Radix
  <1>1. ASSUME NEW k \in 1 .. n PROVE D(k) \in Nat
    <2>1. n - k \in Nat
      OBVIOUS
    <2>2. D(k) \in 0 .. Radix - 1
      BY <2>1, RadixDigit
    <2> QED
      BY <2>2, RadixIs
  <1> HIDE DEF D
  <1>2. PICK s : s = [k \in 1 .. n |-> D(k)]
    OBVIOUS
  <1>3. s \in Seq(Nat) /\ Len(s) = n /\ \A k \in 1 .. n : s[k] = D(k)
    BY <1>1, <1>2
  <1>4. s = DigitText(n, v)
    BY <1>2 DEF DigitText, D
  <1>5. TextIs(s, v)
    BY <1>3 DEF TextIs, D
  <1> QED
    BY <1>3, <1>4, <1>5

LEMMA LeadingDigits ==
    ASSUME NEW v \in Nat, v < Power(Radix, Chunk), NEW n, n = Max({0} \cup {k \in 1 .. Chunk : v >= Power(Radix, k - 1)})
    PROVE  n \in Nat /\ v < Power(Radix, n)
  <1> DEFINE S == {0} \cup {k \in 1 .. Chunk : v >= Power(Radix, k - 1)}
  <1>1. Chunk \in Nat
    BY RadixIs
  <1>2. S \subseteq 0 .. Chunk /\ S # {}
    BY <1>1
  <1>3. n \in S /\ \A y \in S : n >= y
    <2>1. n = Max(S)
      OBVIOUS
    <2> HIDE DEF S
    <2> QED
      BY <1>1, <1>2, <2>1, MaxIs
  <1>4. n \in 0 .. Chunk
    BY <1>2, <1>3
  <1>5. CASE n = Chunk
    BY <1>1, <1>5
  <1>6. CASE n < Chunk
    <2>1. n + 1 \in 1 .. Chunk /\ ~(n >= n + 1) /\ (n + 1) - 1 = n
      BY <1>1, <1>4, <1>6
    <2>2. ~(v >= Power(Radix, n))
      BY <1>3, <2>1
    <2>3. Power(Radix, n) \in Nat
      BY <1>4, RadixPower
    <2> QED
      BY <1>4, <2>2, <2>3
  <1> QED
    BY <1>1, <1>4, <1>5, <1>6

LEMMA ChunkIs ==
    ASSUME NEW v \in Nat, v < Power(Radix, Chunk), NEW leading
    PROVE  /\ ChunkText(v, leading) \in Seq(Nat) /\ TextIs(ChunkText(v, leading), v)
           /\ (leading \/ Len(ChunkText(v, leading)) = Chunk)
  <1>1. PICK n : n = Max({0} \cup {k \in 1 .. Chunk : v >= Power(Radix, k - 1)})
    OBVIOUS
  <1>2. n \in Nat /\ v < Power(Radix, n)
    BY <1>1, LeadingDigits
  <1>3. Chunk \in Nat
    BY RadixIs
  <1>4. ChunkText(v, leading) = DigitText(IF leading THEN n ELSE Chunk, v)
    BY <1>1 DEF ChunkText, DigitText
  <1>5. CASE leading
    <2>1. ChunkText(v, leading) = DigitText(n, v)
      BY <1>4, <1>5
    <2> QED
      BY <1>2, <1>5, <2>1, DigitTextIs
  <1>6. CASE ~leading
    <2>1. ChunkText(v, leading) = DigitText(Chunk, v)
      BY <1>4, <1>6
    <2> QED
      BY <1>3, <1>6, <2>1, DigitTextIs
  <1> QED
    BY <1>5, <1>6

(* The constants of int_to_s and int_set_s.                                *)
LEMMA ChunkPower ==
    Power(Radix, Chunk) \in Nat /\ Power(Radix, Chunk) > 0 /\ Power(Radix, Chunk) < Power(Base, 4)
  BY BigIntAssumption, RadixIs, RadixPower

LEMMA TenIs ==
    /\ Number(ten) /\ ~ten.over /\ ~ten.neg /\ ten.m = 2 /\ Magnitude(ten) = Radix
    /\ Number(tenToTheNineteen) /\ ~tenToTheNineteen.over /\ ~tenToTheNineteen.neg
    /\ tenToTheNineteen.m = 4 /\ Magnitude(tenToTheNineteen) = Power(Radix, Chunk)
  <1>1. 0 \in 0 .. Base - 1 /\ Room(2) /\ Room(4)
    BY BaseIs DEF Room
  <1>2. /\ IntOK(Memory(2, 0)) /\ Memory(2, 0).m = 2
        /\ IntOK(Memory(4, 0)) /\ Memory(4, 0).m = 4
    BY <1>1, MemoryIs
  <1>3. Radix \in Nat /\ Radix < Power(Base, 2) /\ Radix < Power(Base, 4)
    <2>1. Base \in Nat /\ Base > 0 /\ Power(Base, 1) = Base /\ Radix \in Nat /\ Radix < Base
      BY BaseIs, RadixIs, SmallPowers
    <2>2. Power(Base, 1) <= Power(Base, 2) /\ Power(Base, 1) <= Power(Base, 4)
      BY <2>1, PowerGrows
    <2>3. Power(Base, 2) \in Nat /\ Power(Base, 4) \in Nat
      BY BasePower
    <2> QED
      BY <2>1, <2>2, <2>3
  <1>4. Holds(ten, 2, Radix) /\ ~ten.neg
    BY <1>2, <1>3, SetU DEF ten
  <1>5. Holds(tenToTheNineteen, 4, Power(Radix, Chunk)) /\ ~tenToTheNineteen.neg
    BY <1>2, ChunkPower, SetU DEF tenToTheNineteen
  <1> QED
    BY <1>4, <1>5 DEF Holds

(* The remainder of a division by it, read as an uint64_t.                 *)
LEMMA ChunkValue ==
    ASSUME NEW i, Number(i), Magnitude(i) < Power(Radix, Chunk)
    PROVE  Low64(int_set_t(i, Memory(4, Junk))) = Magnitude(i)
  <1>1. Magnitude(i) \in Nat /\ Magnitude(i) < Power(Base, 4)
    <2>1. Magnitude(i) \in Nat
      BY MagnitudeIs DEF Number
    <2>2. Power(Base, 4) \in Nat
      BY BasePower
    <2> QED
      BY <2>1, <2>2, ChunkPower
  <1>2. i.d <= 4
    BY <1>1, Shortest
  <1>3. IntOK(Memory(4, Junk)) /\ Memory(4, Junk).m = 4
    BY BigIntAssumption, MemoryIs DEF Room
  <1>4. PICK t : t = int_set_t(i, Memory(4, Junk)) /\ Number(t) /\ Magnitude(t) = Magnitude(i)
    BY <1>2, <1>3, SetT
  <1> QED
    BY <1>1, <1>4, Low64Is

-----------------------------------------------------------------------------
(* int_to_s: the number v is what is left in i, followed by the digits t.  *)
InC254(i) == Number(i) /\ ~i.over /\ i.m = MaxDigits
Printed(i, t, v, w) == w \in Nat /\ TextIs(t, w) /\ v = Magnitude(i) * Power(Radix, Len(t)) + w
PrintInv(i, t, v) == InC254(i) /\ t \in Seq(Nat) /\ \E w : Printed(i, t, v, w)

LEMMA NextChunk ==
    ASSUME NEW i, NEW t, NEW v \in Nat, PrintInv(i, t, v), NEW rem, Number(rem), NEW q, InC254(q),
           Splits(Magnitude(i), Power(Radix, Chunk), Magnitude(q), Magnitude(rem))
    PROVE  PrintInv(q, ChunkText(Low64(int_set_t(rem, Memory(4, Junk))), int_is_zero(q)) \o t, v)
  <1>1. PICK w \in Nat : Printed(i, t, v, w)
    BY DEF PrintInv, Printed
  <1>2. t \in Seq(Nat) /\ IntOK(i) /\ IntOK(q) /\ IntOK(rem) /\ Number(q)
    BY DEF PrintInv, InC254, Number
  <1>3. PICK M \in Nat, Q \in Nat, e \in Nat : M = Magnitude(i) /\ Q = Magnitude(q) /\ e = Magnitude(rem)
    BY <1>2, MagnitudeIs
  <1>4. PICK C \in Nat : C = Power(Radix, Chunk) /\ C > 0
    BY ChunkPower
  <1>5. M = C * Q + e /\ e < C
    BY <1>3, <1>4 DEF Splits
  <1>6. Low64(int_set_t(rem, Memory(4, Junk))) = e
    BY <1>3, <1>4, <1>5, ChunkValue
  <1>7. PICK c \in Seq(Nat) : /\ c = ChunkText(Low64(int_set_t(rem, Memory(4, Junk))), int_is_zero(q))
                              /\ TextIs(c, e) /\ (Q = 0 \/ Len(c) = Chunk)
    <2>1. int_is_zero(q) <=> Q = 0
      BY <1>2, <1>3, ZeroIs
    <2>2. e < Power(Radix, Chunk)
      BY <1>4, <1>5
    <2>3. /\ ChunkText(e, int_is_zero(q)) \in Seq(Nat) /\ TextIs(ChunkText(e, int_is_zero(q)), e)
          /\ (int_is_zero(q) \/ Len(ChunkText(e, int_is_zero(q))) = Chunk)
      BY <2>2, ChunkIs
    <2> QED
      BY <1>6, <2>1, <2>3
  <1>15. PICK L \in Nat, n \in Nat : L = Len(t) /\ n = Len(c)
    BY <1>2
  <1>8. PICK P \in Nat, H \in Nat : L = Len(t) /\ n = Len(c) /\ P = Power(Radix, L) /\ H = Power(Radix, n)
    BY <1>15, RadixPower
  <1>9. PICK u \in Nat : u = e * P + w
    OBVIOUS
  <1>10. TextIs(c \o t, u)
    <2>1. TextIs(t, w)
      BY <1>1 DEF Printed
    <2>2. TextIs(c \o t, e * Power(Radix, Len(t)) + w)
      BY <1>2, <1>7, <2>1, Concatenated
    <2> QED
      BY <1>8, <1>9, <2>2
  <1>11. Len(c \o t) = n + L /\ c \o t \in Seq(Nat) /\ Power(Radix, n + L) = H * P
    <2>1. Len(c \o t) = n + L /\ c \o t \in Seq(Nat)
      BY <1>2, <1>15
    <2>2. Power(Radix, n + L) = Power(Radix, n) * Power(Radix, L)
      BY RadixSum
    <2> QED
      BY <1>8, <2>1, <2>2
  <1>12. v = M * P + w
    BY <1>1, <1>3, <1>8 DEF Printed
  <1>13. v = Q * (H * P) + u
    <2>1. v = (C * Q + e) * P + w
      BY <1>5, <1>12
    <2>2. (C * Q + e) * P + w = Q * (C * P) + (e * P + w)
      OBVIOUS
    <2>3. v = Q * (C * P) + u
      BY <1>9, <2>1, <2>2
    <2>4. CASE Q = 0
      <3>1. 0 * (C * P) = 0 /\ 0 * (H * P) = 0
        OBVIOUS
      <3> QED
        BY <2>3, <2>4, <3>1
    <2>5. CASE n = Chunk
      <3>1. H = C
        BY <1>4, <1>8, <2>5
      <3> QED
        BY <2>3, <3>1
    <2> QED
      BY <1>7, <1>8, <2>4, <2>5
  <1>14. Printed(q, c \o t, v, u)
    BY <1>3, <1>10, <1>11, <1>13 DEF Printed
  <1> QED
    BY <1>7, <1>11, <1>14 DEF PrintInv

(* INT_DIGITS_FOR_S: a number of that many characters has room.            *)
LEMMA PowerOfBase ==
    ASSUME NEW k \in Nat
    PROVE  Power(Radix, k) <= Power(Base, k)
  <1> DEFINE S == {j \in Nat : Power(Radix, j) <= Power(Base, j)}
  <1>1. 0 \in S
    BY RadixIs, BaseIs, PowerIs
  <1>2. ASSUME NEW j \in Nat, j \in S PROVE j + 1 \in S
    <2>1. PICK x \in Nat, y \in Nat, R \in Nat, B \in Nat :
                /\ x = Power(Radix, j) /\ y = Power(Base, j) /\ R = Radix /\ B = Base /\ x <= y /\ R <= B
      BY <1>2, RadixIs, BaseIs, RadixPower, BasePower
    <2>2. Power(Radix, j + 1) = R * x /\ Power(Base, j + 1) = B * y
      BY <2>1, RadixPower, BasePower
    <2>3. R * x <= R * y /\ R * y <= B * y
      BY <2>1, TimesGrows
    <2>4. R * x <= B * y
      BY <2>3
    <2> QED
      BY <2>2, <2>4
  <1> HIDE DEF S
  <1>3. k \in S
    BY <1>1, <1>2, Induction
  <1> QED
    BY <1>3 DEF S

LEMMA DigitsForSIs ==
    ASSUME NEW length \in Nat
    PROVE  DigitsForS(length) \in Nat /\ Power(Radix, length) <= Power(Base, DigitsForS(length))
  <1> DEFINE S == {n \in 0 .. length : Power(Radix, length) <= Power(Base, n)}
  <1>1. length \in S /\ S \subseteq Nat
    BY PowerOfBase
  <1>2. DigitsForS(length) = Min(S)
    BY DEF DigitsForS
  <1>3. Min(S) \in S
    <2> HIDE DEF S
    <2> QED
      BY <1>1, MinIs
  <1> QED
    BY <1>2, <1>3

(* int_set_s: v, for which r has room, is what has been read into r,       *)
(* followed by the digits of t after the sign, if o is 1.                  *)
ReadText(t, o, w) ==
    /\ t \in Seq(Int) /\ o \in 0 .. 1 /\ o <= Len(t) /\ w \in Nat /\ w < Power(Radix, Len(t) - o)
    /\ o = 1 => t[1] = -1
    /\ \A k \in 1 .. Len(t) - o : t[o + k] = (w \div Power(Radix, Len(t) - o - k)) % Radix
ToRead(r, t, o, v, w) == ReadText(t, o, w) /\ v = Val(r) * Power(Radix, Len(t) - o) + w
Roomy(r, v) == Number(r) /\ ~r.over /\ r.m <= MaxDigits /\ v < Power(Base, r.m)
ReadInv(r, t, o, v) == Roomy(r, v) /\ Val(r) \in Nat /\ \E w : ToRead(r, t, o, v, w)

LEMMA SignRead ==
    ASSUME NEW t, NEW o, NEW w, ReadText(t, o, w)
    PROVE  (t # <<>> /\ Head(t) = -1) <=> o = 1
  <1>1. t \in Seq(Int) /\ o \in 0 .. 1 /\ o <= Len(t) /\ w \in Nat
    BY DEF ReadText
  <1>2. CASE o = 1
    BY <1>1, <1>2 DEF ReadText
  <1>3. CASE o = 0 /\ Len(t) > 0
    <2>1. PICK L \in Nat : L = Len(t) /\ L > 0 /\ L - 1 \in Nat
      BY <1>1, <1>3
    <2>2. t[0 + 1] = (w \div Power(Radix, L - 0 - 1)) % Radix
      BY <1>3, <2>1 DEF ReadText
    <2>3. (w \div Power(Radix, L - 1)) % Radix \in 0 .. Radix - 1
      BY <1>1, <2>1, RadixDigit
    <2>4. t[1] # -1
      BY <2>1, <2>2, <2>3, RadixIs
    <2> QED
      BY <1>1, <1>3, <2>4
  <1>4. CASE o = 0 /\ Len(t) = 0
    BY <1>1, <1>4
  <1> QED
    BY <1>1, <1>2, <1>3, <1>4

LEMMA TextRead ==
    ASSUME NEW t \in Seq(Nat), NEW w, TextIs(t, w)
    PROVE  ReadText(t, 0, w) /\ ReadText(<<-1>> \o t, 1, w)
  <1>1. PICK L \in Nat : L = Len(t)
    OBVIOUS
  <1>2. w \in Nat /\ w < Power(Radix, L) /\ \A k \in 1 .. L : t[k] = (w \div Power(Radix, L - k)) % Radix
    BY <1>1 DEF TextIs
  <1>3. ReadText(t, 0, w)
    <2>1. L - 0 = L /\ \A k \in 1 .. L : 0 + k = k /\ L - 0 - k = L - k
      OBVIOUS
    <2>2. t \in Seq(Int) /\ 0 \in 0 .. 1 /\ 0 <= L
      OBVIOUS
    <2> QED
      BY <1>1, <1>2, <2>1, <2>2 DEF ReadText
  <1>4. PICK s : s = <<-1>> \o t
    OBVIOUS
  <1>5. s \in Seq(Int) /\ Len(s) = 1 + L /\ s[1] = -1 /\ \A k \in 1 .. L : s[1 + k] = t[k]
    <2>1. <<-1>> \in Seq(Int) /\ Len(<<-1>>) = 1 /\ <<-1>>[1] = -1 /\ t \in Seq(Int)
      OBVIOUS
    <2> QED
      BY <1>1, <1>4, <2>1
  <1>6. Len(s) - 1 = L
    BY <1>5
  <1>7. \A k \in 1 .. L : s[1 + k] = (w \div Power(Radix, L - k)) % Radix
    BY <1>2, <1>5
  <1>8. ReadText(s, 1, w)
    BY <1>2, <1>5, <1>6, <1>7 DEF ReadText
  <1> QED
    BY <1>3, <1>4, <1>8

LEMMA ReadNothing ==
    ASSUME NEW r, NEW v \in Nat, Roomy(r, v), Val(r) = 0, NEW s, NEW o, ReadText(s, o, v)
    PROVE  ReadInv(r, s, o, v)
  <1>1. s \in Seq(Int) /\ o \in 0 .. 1 /\ o <= Len(s)
    BY DEF ReadText
  <1>2. PICK l \in Nat : l = Len(s)
    BY <1>1
  <1>3. l - o \in Nat
    BY <1>1, <1>2
  <1>4. PICK n \in Nat : n = l - o
    BY <1>3
  <1>5. Power(Radix, n) \in Nat
    BY RadixPower
  <1>6. v = 0 * Power(Radix, n) + v
    BY <1>5
  <1>7. ToRead(r, s, o, v, v)
    BY <1>2, <1>4, <1>6 DEF ToRead
  <1> QED
    BY <1>7 DEF ReadInv

LEMMA ReadBegin ==
    ASSUME NEW i, NEW t, NEW v \in Nat, PrintInv(i, t, v), Magnitude(i) = 0,
           NEW length \in Nat, Len(t) <= length, DigitsForS(length) <= MaxDigits,
           NEW r, r = int_init(AllocateInt(DigitsForS(length)))
    PROVE  /\ t = <<>> => v = 0 /\ ReadInv(r, <<0>>, 0, v)
           /\ t # <<>> => ReadInv(r, t, 0, v) /\ ReadInv(r, <<-1>> \o t, 1, v)
  <1>1. PICK w \in Nat : TextIs(t, w) /\ v = 0 * Power(Radix, Len(t)) + w
    BY DEF PrintInv, Printed
  <1>2. t \in Seq(Nat) /\ Len(t) \in Nat
    BY DEF PrintInv
  <1>3. v = w
    BY <1>1, <1>2, RadixPower
  <1>4. Roomy(r, v) /\ Val(r) = 0 /\ Val(r) \in Nat
    <2>1. PICK n \in Nat : n = DigitsForS(length) /\ Power(Radix, length) <= Power(Base, n)
      BY DigitsForSIs
    <2>2. PICK M \in Nat : M = MaxDigits /\ M >= 4 /\ M % 2 = 0 /\ n <= M
      BY <2>1, MaxDigitsIs
    <2>3. PICK m \in Nat : m = Rounded(n) /\ Room(m) /\ n <= m /\ Holds(AllocateInt(n), m, 0)
      BY AllocateIs DEF Room
    <2>4. IntOK(AllocateInt(n)) /\ AllocateInt(n).m = m
      BY <2>3 DEF Holds, Number
    <2>5. Holds(r, m, 0) /\ ~r.neg
      BY <2>1, <2>4, InitIs
    <2>6. m <= M
      BY <2>2, <2>3 DEF Rounded
    <2>7. v < Power(Base, m)
      <3>1. v < Power(Radix, Len(t))
        BY <1>1, <1>3 DEF TextIs
      <3>2. Power(Radix, Len(t)) <= Power(Radix, length)
        BY <1>2, RadixIs, PowerGrows
      <3>3. Power(Base, n) <= Power(Base, m)
        BY <2>3, BaseIs, PowerGrows
      <3>4. /\ Power(Radix, Len(t)) \in Nat /\ Power(Radix, length) \in Nat
            /\ Power(Base, n) \in Nat /\ Power(Base, m) \in Nat
        BY <1>2, RadixPower, BasePower
      <3> QED
        BY <2>1, <3>1, <3>2, <3>3, <3>4
    <2>8. Number(r) /\ ~r.over /\ r.m = m /\ Magnitude(r) = 0
      BY <2>5 DEF Holds
    <2>9. Val(r) = 0
      BY <2>5, <2>8 DEF Val
    <2>10. r.m <= MaxDigits
      BY <2>2, <2>6, <2>8
    <2>11. v < Power(Base, r.m)
      BY <2>7, <2>8
    <2>12. Roomy(r, v)
      BY <2>8, <2>10, <2>11 DEF Roomy
    <2> QED
      BY <2>9, <2>12
  <1>5. ASSUME NEW s, NEW o, NEW u \in Nat, ReadText(s, o, u), u = v PROVE ReadInv(r, s, o, v)
    BY <1>4, <1>5, ReadNothing
  <1>6. CASE t = <<>>
    <2>1. w = 0
      BY <1>1, <1>6, RadixIs, PowerIs DEF TextIs
    <2>2. <<0>> \in Seq(Nat) /\ Len(<<0>>) = 1 /\ <<0>>[1] = 0
      OBVIOUS
    <2>3. Power(Radix, 0) = 1 /\ Power(Radix, 0 + 1) = Radix * Power(Radix, 0) /\ Radix \in Nat /\ Radix > 1
      BY RadixIs, RadixPower, PowerIs
    <2>4. 0 < Power(Radix, 1)
      BY <2>3
    <2>5. (0 \div 1) % Radix = 0
      <3>1. 0 \div 1 = 0
        OBVIOUS
      <3>2. Splits(0, Radix, 0, 0)
        BY <2>3 DEF Splits
      <3> QED
        BY <2>3, <3>1, <3>2, DivIs
    <2>6. TextIs(<<0>>, 0)
      <3>1. \A k \in 1 .. 1 : k = 1 /\ 1 - k = 0
        OBVIOUS
      <3> QED
        BY <2>2, <2>3, <2>4, <2>5, <3>1 DEF TextIs
    <2>7. ReadText(<<0>>, 0, 0)
      BY <2>2, <2>6, TextRead
    <2> QED
      BY <1>3, <1>5, <1>6, <2>1, <2>7
  <1>7. CASE t # <<>>
    <2>1. ReadText(t, 0, w) /\ ReadText(<<-1>> \o t, 1, w)
      BY <1>1, <1>2, TextRead
    <2> QED
      BY <1>3, <1>5, <1>7, <2>1
  <1> QED
    BY <1>6, <1>7

LEMMA ReadEnd ==
    ASSUME NEW r, NEW t, NEW o, NEW v \in Nat, ReadInv(r, t, o, v), Len(t) = o
    PROVE  Magnitude(r) = v /\ Number(r) /\ ~r.over
  <1>1. PICK w : ToRead(r, t, o, v, w)
    BY DEF ReadInv
  <1>2. IntOK(r) /\ Val(r) \in Nat /\ Number(r) /\ ~r.over
    BY DEF ReadInv, Roomy, Number
  <1>3. Len(t) - o = 0 /\ Power(Radix, 0) = 1
    BY <1>1, RadixIs, PowerIs DEF ToRead, ReadText
  <1>4. w = 0
    BY <1>1, <1>3 DEF ToRead, ReadText
  <1>5. v = Val(r)
    BY <1>1, <1>2, <1>3, <1>4 DEF ToRead
  <1>6. PICK M \in Nat : M = Magnitude(r)
    BY <1>2, MagnitudeIs
  <1>7. Val(r) = IF r.neg THEN -M ELSE M
    BY <1>6 DEF Val
  <1> QED
    BY <1>2, <1>5, <1>6, <1>7

(* The first digit of w, of n + 1 digits, and the rest of w.               *)
LEMMA FirstDigit ==
    ASSUME NEW w \in Nat, NEW n \in Nat, w < Power(Radix, n + 1)
    PROVE  \E c \in Nat, u \in Nat : /\ c < Radix /\ u < Power(Radix, n) /\ Joins(w, c, Power(Radix, n), u)
                                     /\ (w \div Power(Radix, n)) % Radix = c
  <1>1. PICK P \in Nat : P = Power(Radix, n) /\ P > 0 /\ Power(Radix, n + 1) = Radix * P
    BY RadixPower
  <1>2. PICK c \in Nat, u \in Nat : c = w \div P /\ w = P * c + u /\ u < P
    <2>1. w \div P \in Nat /\ w % P \in Nat /\ w % P < P /\ w = P * (w \div P) + (w % P)
      BY <1>1, DivFacts
    <2> QED
      BY <2>1, Zenon
  <1>3. Radix \in Nat /\ Radix > 1
    BY RadixIs
  <1>4. c < Radix
    <2>1. SUFFICES ASSUME Radix <= c PROVE FALSE
      BY <1>3
    <2>2. Radix * P <= c * P
      BY <1>3, <2>1, TimesGrows
    <2>3. c * P = P * c
      OBVIOUS
    <2>4. PICK x \in Nat, y \in Nat : x = Radix * P /\ y = c * P
      BY <1>3
    <2> QED
      BY <1>1, <1>2, <2>2, <2>3, <2>4
  <1>5. c % Radix = c
    <2>1. Radix * 0 = 0
      BY <1>3
    <2>2. Splits(c, Radix, 0, c)
      BY <1>4, <2>1 DEF Splits
    <2> QED
      BY <1>3, <2>2, DivIs
  <1>6. Joins(w, c, P, u)
    <2>1. P * c = c * P
      OBVIOUS
    <2> QED
      BY <1>2, <2>1 DEF Joins
  <1> QED
    BY <1>1, <1>2, <1>4, <1>5, <1>6

IsJoined(z, x, y, j, n) ==
    /\ z \in Seq(Int) /\ Len(z) = j + n
    /\ \A k \in 1 .. j : z[k] = x[k]
    /\ \A k \in 1 .. n : z[j + k] = y[k]
LEMMA Joined ==
    ASSUME NEW x \in Seq(Int), NEW y \in Seq(Int) PROVE IsJoined(x \o y, x, y, Len(x), Len(y))
  BY DEF IsJoined

LEMMA Removed ==
    ASSUME NEW t \in Seq(Int), NEW j \in Nat, NEW n \in Nat, Len(t) = j + n + 1
    PROVE  /\ RemoveAt(t, j + 1) \in Seq(Int) /\ Len(RemoveAt(t, j + 1)) = j + n
           /\ \A k \in 1 .. j : RemoveAt(t, j + 1)[k] = t[k]
           /\ \A k \in 1 .. n : RemoveAt(t, j + 1)[j + k] = t[j + (k + 1)]
  <1>1. (j + 1) - 1 = j /\ (j + 1) + 1 = j + 2 /\ j <= Len(t)
    OBVIOUS
  <1>2. PICK x : x = SubSeq(t, 1, j)
    OBVIOUS
  <1>3. PICK y : y = SubSeq(t, j + 2, Len(t))
    OBVIOUS
  <1>4. x \in Seq(Int) /\ Len(x) = j /\ \A k \in 1 .. j : x[k] = t[k]
    BY <1>1, <1>2
  <1>8. PICK l \in Nat : l = Len(t) /\ l = j + n + 1
    OBVIOUS
  <1>9. y \in Seq(Int) /\ Len(y) = n
    BY <1>3, <1>8
  <1>10. ASSUME NEW k \in 1 .. n PROVE y[k] = t[j + (k + 1)]
    <2>1. (j + 2) + k - 1 = j + (k + 1) /\ k \in 1 .. (l - (j + 2)) + 1
      BY <1>8
    <2>2. y = SubSeq(t, j + 2, l)
      BY <1>3, <1>8
    <2>3. y[k] = t[(j + 2) + k - 1]
      BY <1>9, <2>1, <2>2
    <2> QED
      BY <2>1, <2>3
  <1>5. y \in Seq(Int) /\ Len(y) = n /\ \A k \in 1 .. n : y[k] = t[j + (k + 1)]
    BY <1>9, <1>10
  <1>6. RemoveAt(t, j + 1) = x \o y
    BY <1>1, <1>2, <1>3 DEF RemoveAt
  <1>7. /\ x \o y \in Seq(Int) /\ Len(x \o y) = j + n
        /\ \A k \in 1 .. j : (x \o y)[k] = x[k]
        /\ \A k \in 1 .. n : (x \o y)[j + k] = y[k]
    <2>1. IsJoined(x \o y, x, y, Len(x), Len(y))
      BY <1>4, <1>9, Joined
    <2> QED
      BY <1>4, <1>9, <2>1 DEF IsJoined
  <1>11. PICK s : s = RemoveAt(t, j + 1) /\ s = x \o y
    BY <1>6
  <1>12. \A k \in 1 .. n : s[j + k] = t[j + (k + 1)]
    BY <1>10, <1>7, <1>11
  <1> QED
    BY <1>4, <1>7, <1>11, <1>12

(* One digit off the text.                                                 *)
LEMMA TextShorter ==
    ASSUME NEW t, NEW o, NEW w, ReadText(t, o, w), Len(t) > o
    PROVE  \E c \in Nat, u \in Nat :
              /\ c < Radix /\ c = t[o + 1] /\ Len(t) - o - 1 \in Nat
              /\ Len(RemoveAt(t, o + 1)) - o = Len(t) - o - 1
              /\ Joins(w, c, Power(Radix, Len(t) - o - 1), u)
              /\ ReadText(RemoveAt(t, o + 1), o, u)
  <1>1. t \in Seq(Int) /\ o \in 0 .. 1 /\ o <= Len(t) /\ w \in Nat
    BY DEF ReadText
  <1>2. PICK n \in Nat : Len(t) = o + n + 1
    <2>1. PICK l \in Nat : l = Len(t)
      BY <1>1
    <2>2. l > o /\ o \in Nat
      BY <1>1, <2>1
    <2>3. l - o - 1 \in Nat /\ l = o + (l - o - 1) + 1
      BY <2>2
    <2> QED
      BY <2>1, <2>3
  <1>3. Len(t) - o = n + 1 /\ Len(t) - o - 1 = n
    BY <1>1, <1>2
  <1>4. w < Power(Radix, n + 1)
    BY <1>3 DEF ReadText
  <1>5. PICK c \in Nat, u \in Nat : /\ c < Radix /\ u < Power(Radix, n) /\ Joins(w, c, Power(Radix, n), u)
                                    /\ (w \div Power(Radix, n)) % Radix = c
    BY <1>1, <1>4, FirstDigit
  <1>6. \A k \in 1 .. n + 1 : t[o + k] = (w \div Power(Radix, (n + 1) - k)) % Radix
    <2>1. \A k \in 1 .. Len(t) - o : t[o + k] = (w \div Power(Radix, (Len(t) - o) - k)) % Radix
      BY DEF ReadText
    <2> QED
      BY <1>3, <2>1, Zenon
  <1>7. t[o + 1] = c
    <2>1. n + 1 - 1 = n /\ 1 \in 1 .. n + 1
      OBVIOUS
    <2>2. t[o + 1] = (w \div Power(Radix, n + 1 - 1)) % Radix
      BY <1>6, <2>1
    <2> QED
      BY <1>5, <2>1, <2>2
  <1>8. PICK s : s = RemoveAt(t, o + 1)
    OBVIOUS
  <1>9. /\ s \in Seq(Int) /\ Len(s) = o + n
        /\ \A k \in 1 .. o : s[k] = t[k]
        /\ \A k \in 1 .. n : s[o + k] = t[o + (k + 1)]
    <2>1. PICK j \in Nat : j = o
      BY <1>1
    <2>2. t \in Seq(Int) /\ Len(t) = j + n + 1
      BY <1>1, <1>2, <2>1
    <2>3. /\ RemoveAt(t, j + 1) \in Seq(Int) /\ Len(RemoveAt(t, j + 1)) = j + n
          /\ \A k \in 1 .. j : RemoveAt(t, j + 1)[k] = t[k]
          /\ \A k \in 1 .. n : RemoveAt(t, j + 1)[j + k] = t[j + (k + 1)]
      BY <2>2, Removed
    <2> QED
      BY <1>8, <2>1, <2>3
  <1>10. Len(s) - o = n /\ o <= Len(s)
    BY <1>1, <1>9
  <1>11. o = 1 => s[1] = -1
    BY <1>1, <1>9 DEF ReadText
  <1>12. ASSUME NEW k \in 1 .. n PROVE s[o + k] = (u \div Power(Radix, n - k)) % Radix
    <2>1. k + 1 \in 1 .. n + 1 /\ n + 1 - (k + 1) = n - k
      OBVIOUS
    <2>2. s[o + k] = (w \div Power(Radix, n - k)) % Radix
      BY <1>6, <1>9, <2>1
    <2>3. w \in Nat /\ Joins(w, c, Power(Radix, n), u)
      BY <1>1, <1>5
    <2>4. PICK j \in Nat : j = n - k /\ j < n
      OBVIOUS
    <2>5. (w \div Power(Radix, j)) % Radix = (u \div Power(Radix, j)) % Radix
      BY <2>3, <2>4, OtherDigits
    <2> QED
      BY <2>2, <2>4, <2>5
  <1>13. ReadText(s, o, u)
    BY <1>1, <1>5, <1>9, <1>10, <1>11, <1>12 DEF ReadText
  <1> QED
    BY <1>3, <1>5, <1>7, <1>8, <1>10, <1>13

(* r becomes ten times r plus the next digit.                              *)
LEMMA TenTimes ==
    ASSUME NEW r, NEW v \in Nat, Roomy(r, v), Val(r) \in Nat, NEW c \in Nat, c < Radix, NEW s,
           s = int_add(int_mul(ten, r, Concrete254), int_set_i(c, Memory(2, Junk)), r),
           Radix * Val(r) + c <= v
    PROVE  Roomy(s, v) /\ Val(s) = Radix * Val(r) + c
  <1>1. Number(r) /\ ~r.over /\ IntOK(r)
    BY DEF Roomy, Number
  <1>2. PICK m \in Nat, M \in Nat : m = r.m /\ M = MaxDigits /\ m <= M
    <2>1. r.m \in Nat
      BY <1>1, IntFacts
    <2> QED
      BY <2>1, MaxDigitsIs DEF Roomy
  <1>3. PICK V \in Nat, B \in Nat, C \in Nat, R \in Nat :
              V = Val(r) /\ B = Power(Base, m) /\ C = Power(Base, M) /\ R = Radix /\ B <= C /\ v < B
    <2>1. Power(Base, m) \in Nat /\ Power(Base, M) \in Nat /\ Radix \in Nat
      BY RadixIs, BasePower
    <2>2. Power(Base, m) <= Power(Base, M)
      BY <1>2, BaseIs, PowerGrows
    <2>3. v < Power(Base, m)
      BY <1>2 DEF Roomy
    <2> QED
      BY <2>1, <2>2, <2>3
  <1>4. PICK X \in Nat : X = R * V
    OBVIOUS
  <1>5. /\ V = Val(r) /\ X = Radix * V /\ B = Power(Base, m) /\ X + c < B
        /\ C = Power(Base, MaxDigits) /\ X < C
    BY <1>3, <1>4, <1>2
  <1>6. Number(ten) /\ Val(ten) = Radix /\ ten.m = 2
    BY TenIs DEF Val
  <1>7. PICK p : p = int_mul(ten, r, Concrete254)
    OBVIOUS
  <1>8. Gives(p, MaxDigits, X)
    <2>1. Concrete254.m = MaxDigits /\ IntOK(Concrete254)
      BY ConcreteIs DEF Holds
    <2>2. ten.d \in Nat /\ ten.d <= 2 /\ r.d \in Nat /\ r.d <= MaxDigits /\ MaxDigits \in Nat /\ MaxDigits >= 4
      <3>1. ten.d \in Nat /\ ten.d <= 2 /\ r.d \in Nat /\ r.d <= m
        BY <1>1, <1>6, <1>2, IntFacts DEF Number
      <3> QED
        BY <1>2, <3>1, MaxDigitsIs
    <2>3. ten.d <= MaxDigits
      BY <2>2
    <2>4. Gives(p, Concrete254.m, Val(ten) * Val(r))
      BY <1>1, <1>6, <1>7, <2>1, <2>2, <2>3, IntMul
    <2> QED
      BY <1>5, <1>6, <2>1, <2>4
  <1>9. Number(p) /\ Val(p) = X
    <2>1. Abs(X) < C
      BY <1>5 DEF Abs
    <2> QED
      BY <1>5, <1>8, <2>1 DEF Gives
  <1>10. PICK q : q = int_set_i(c, Memory(2, Junk))
    OBVIOUS
  <1>11. Number(q) /\ Val(q) = c
    <2>1. IntOK(Memory(2, Junk)) /\ Memory(2, Junk).m = 2
      <3>1. Room(2) /\ Junk \in 0 .. Base - 1
        BY BigIntAssumption DEF Room
      <3> QED
        BY <3>1, MemoryIs
    <2>2. c < Power(Base, 2) /\ c < Power(Base, 4)
      <3>1. Base \in Nat /\ Base > 0 /\ Power(Base, 1) = Base /\ Radix \in Nat /\ Radix < Base
        BY BaseIs, RadixIs, SmallPowers
      <3>2. Power(Base, 1) <= Power(Base, 2) /\ Power(Base, 1) <= Power(Base, 4)
        BY <3>1, PowerGrows
      <3>3. Power(Base, 2) \in Nat /\ Power(Base, 4) \in Nat
        BY BasePower
      <3> QED
        BY <3>1, <3>2, <3>3
    <2>3. Holds(q, 2, c) /\ ~q.neg
      BY <1>10, <2>1, <2>2, SetI
    <2> QED
      BY <2>3 DEF Holds, Val
  <1>12. s = int_add(p, q, r)
    BY <1>7, <1>10
  <1>13. Gives(s, m, X + c)
    <2>1. Gives(s, r.m, Val(p) + Val(q))
      BY <1>1, <1>9, <1>11, <1>12, IntAdd
    <2> QED
      BY <1>9, <1>11, <1>2, <2>1
  <1>14. Abs(X + c) < B
    BY <1>5 DEF Abs
  <1>15. Number(s) /\ s.m = m /\ ~s.over /\ Val(s) = X + c
    BY <1>5, <1>13, <1>14 DEF Gives
  <1> QED
    BY <1>5, <1>15, <1>3, <1>2 DEF Roomy

LEMMA ReadNext ==
    ASSUME NEW r, NEW t, NEW o, NEW v \in Nat, ReadInv(r, t, o, v), Len(t) > o, NEW s,
           s = int_add(int_mul(ten, r, Concrete254), int_set_i(t[o + 1], Memory(2, Junk)), r)
    PROVE  ReadInv(s, RemoveAt(t, o + 1), o, v)
  <1>1. PICK w : ToRead(r, t, o, v, w)
    BY DEF ReadInv
  <1>2. ReadText(t, o, w) /\ v = Val(r) * Power(Radix, Len(t) - o) + w /\ w \in Nat
    BY <1>1 DEF ToRead, ReadText
  <1>3. PICK c \in Nat, u \in Nat :
              /\ c < Radix /\ c = t[o + 1] /\ Len(t) - o - 1 \in Nat
              /\ Len(RemoveAt(t, o + 1)) - o = Len(t) - o - 1
              /\ Joins(w, c, Power(Radix, Len(t) - o - 1), u)
              /\ ReadText(RemoveAt(t, o + 1), o, u)
    BY <1>2, TextShorter
  <1>4. PICK n \in Nat : n = Len(t) - o - 1 /\ n + 1 = Len(t) - o
    <2>1. t \in Seq(Int) /\ o \in 0 .. 1
      BY <1>2 DEF ReadText
    <2>2. PICK l \in Nat, j \in Nat : l = Len(t) /\ j = o
      BY <2>1
    <2>3. (l - j - 1) + 1 = l - j
      OBVIOUS
    <2> QED
      BY <1>3, <2>2, <2>3
  <1>5. PICK P \in Nat : P = Power(Radix, n) /\ P > 0 /\ Power(Radix, n + 1) = Radix * P
    BY RadixPower
  <1>6. PICK V \in Nat, R \in Nat : V = Val(r) /\ R = Radix
    BY RadixIs DEF ReadInv
  <1>7. v = V * (R * P) + w
    BY <1>2, <1>4, <1>5, <1>6
  <1>8. w = c * P + u
    BY <1>3, <1>4, <1>5 DEF Joins
  <1>9. v = (R * V + c) * P + u
    <2>1. V * (R * P) + (c * P + u) = (R * V + c) * P + u
      OBVIOUS
    <2> QED
      BY <1>7, <1>8, <2>1
  <1>10. PICK x \in Nat : x = R * V + c
    OBVIOUS
  <1>11. x <= v
    <2>1. x <= x * P
      BY <1>5, Times
    <2>2. PICK y \in Nat : y = x * P
      OBVIOUS
    <2>3. v = y + u
      BY <1>9, <1>10, <2>2
    <2> QED
      BY <2>1, <2>2, <2>3
  <1>12. Radix * Val(r) + c <= v
    BY <1>6, <1>10, <1>11
  <1>13. Roomy(s, v) /\ Val(s) = x
    <2>1. Roomy(r, v) /\ Val(r) \in Nat
      BY DEF ReadInv
    <2>2. Roomy(s, v) /\ Val(s) = Radix * Val(r) + c
      BY <1>3, <1>12, <2>1, TenTimes
    <2> QED
      BY <1>6, <1>10, <2>2
  <1>14. v = x * P + u
    BY <1>9, <1>10
  <1>15. ToRead(s, RemoveAt(t, o + 1), o, v, u)
    BY <1>3, <1>4, <1>5, <1>13, <1>14 DEF ToRead
  <1> QED
    BY <1>13, <1>15 DEF ReadInv

-----------------------------------------------------------------------------
(* The operands are numbers in normal form.                                *)
LEMMA LiteralIs ==
    ASSUME NEW v \in Nat, v < Power(Base, MaxDigits), NEW neg \in BOOLEAN, NEW i, i = Literal(v, neg)
    PROVE  InC254(i)
  <1> DEFINE S == {1} \cup {k \in 1 .. MaxDigits : Power(Base, k - 1) <= v}
             D(k) == (v \div Power(Base, k - 1)) % Base
  <1>1. PICK m \in Nat : m = MaxDigits /\ m >= 4 /\ m % 2 = 0
    BY MaxDigitsIs
  <1>2. S \subseteq 0 .. m /\ S # {} /\ S \subseteq 1 .. m
    BY <1>1
  <1>3. \A k \in 1 .. m : D(k) \in 0 .. Base - 1
    <2>1. ASSUME NEW k \in 1 .. m PROVE D(k) \in 0 .. Base - 1
      <3>1. k - 1 \in Nat
        OBVIOUS
      <3> QED
        BY <3>1, DigitOf
    <2> QED
      BY <2>1
  <1>4. PICK d : d = Max(S)
    OBVIOUS
  <1>5. PICK h : h = [k \in 1 .. m |-> D(k)]
    OBVIOUS
  <1>6. i = [neg |-> neg, over |-> FALSE, m |-> m, d |-> d, h |-> h]
    BY <1>1, <1>4, <1>5 DEF Literal
  <1>7. d \in S /\ \A y \in S : d >= y
    <2> HIDE DEF S
    <2> QED
      BY <1>2, <1>4, MaxIs
  <1>8. d \in 1 .. m /\ d \in Nat
    BY <1>2, <1>7
  <1>9. h \in Halves(m) /\ \A k \in 1 .. m : h[k] = D(k)
    <2> HIDE DEF D
    <2> QED
      BY <1>3, <1>5 DEF Halves
  <1>10. v < Power(Base, d)
    <2>1. CASE d = m
      BY <1>1, <2>1
    <2>2. CASE d < m
      <3>1. d + 1 \in 1 .. m /\ ~(d >= d + 1) /\ (d + 1) - 1 = d
        BY <1>8, <2>2
      <3>2. ~(Power(Base, d) <= v)
        BY <1>1, <1>7, <3>1
      <3>3. Power(Base, d) \in Nat
        BY <1>8, BasePower
      <3> QED
        BY <3>2, <3>3
    <2> QED
      BY <1>8, <2>1, <2>2
  <1>11. Amount(h)[d] = v
    <2>1. DigitsOf(h, v, d)
      BY <1>8, <1>9 DEF DigitsOf
    <2> QED
      BY <1>8, <1>9, <1>10, <2>1, DigitsExact
  <1>12. d > 1 => h[d] # 0
    <2>1. SUFFICES ASSUME d > 1 PROVE h[d] # 0
      OBVIOUS
    <2>2. Power(Base, d - 1) <= v
      BY <1>7, <2>1
    <2> QED
      BY <1>8, <1>9, <1>11, <2>2, TopDigit
  <1>13. d % 2 = 1 => h[d + 1] = 0
    <2>1. SUFFICES ASSUME d % 2 = 1 PROVE h[d + 1] = 0
      OBVIOUS
    <2>2. d + 1 \in 1 .. m /\ (d + 1) - 1 = d
      BY <1>1, <1>8, <2>1
    <2>3. h[d + 1] = (v \div Power(Base, d)) % Base
      BY <1>9, <2>2
    <2>4. PICK P \in Nat : P = Power(Base, d) /\ P > 0 /\ v < P
      BY <1>8, <1>10, BasePower
    <2>5. Splits(v, P, 0, v) /\ Splits(0, Base, 0, 0)
      <3>1. P * 0 + v = v /\ Base * 0 + 0 = 0 /\ 0 < Base
        BY BaseIs
      <3> QED
        BY <2>4, <3>1 DEF Splits
    <2>6. v \div P = 0
      BY <2>4, <2>5, DivIs
    <2>7. 0 % Base = 0
      BY <2>5, BaseIs, DivIs
    <2> QED
      BY <2>3, <2>4, <2>6, <2>7
  <1>14. i.neg = neg /\ i.m = m /\ i.d = d /\ i.h = h /\ ~i.over
    BY <1>6
  <1>15. IntOK(i)
    <2>1. Room(m)
      BY <1>1 DEF Room
    <2>2. i \in Ints(m)
      BY <1>6, <1>8, <1>9 DEF Ints
    <2> QED
      BY <1>14, <2>1, <2>2 DEF IntOK
  <1>16. Number(i)
    BY <1>12, <1>13, <1>14, <1>15, NumberIs
  <1> QED
    BY <1>1, <1>14, <1>16 DEF InC254

LEMMA OperandsAre ==
    ASSUME NEW magnitudes, magnitudes \subseteq 0 .. Power(Base, MaxDigits) - 1, NEW i \in Literals(magnitudes)
    PROVE  InC254(i)
  <1>1. PICK v \in magnitudes, neg \in BOOLEAN : i = Literal(v, neg)
    BY DEF Literals
  <1>2. v \in Nat /\ v < Power(Base, MaxDigits)
    BY MaxDigitsIs, BasePower
  <1> QED
    BY <1>1, <1>2, LiteralIs

-----------------------------------------------------------------------------
(* Every operation on two operands, into the Value allocated for it.       *)
Operands == InC254(a) /\ InC254(b)

LEMMA OperandFacts ==
    ASSUME NEW i, InC254(i)
    PROVE  /\ Number(i) /\ IntOK(i) /\ ~i.over /\ i.m = MaxDigits /\ i.d \in Nat /\ i.d > 0 /\ i.d <= MaxDigits
           /\ Magnitude(i) \in Nat /\ Val(i) \in Int /\ MaxDigits \in Nat /\ i.neg \in BOOLEAN
  <1>1. Number(i) /\ IntOK(i) /\ ~i.over /\ i.m = MaxDigits
    BY DEF InC254, Number
  <1> QED
    BY <1>1, IntFacts, MagnitudeIs, SignOf, MaxDigitsIs

(* The room of the result.                                                 *)
LEMMA RoomIs ==
    ASSUME NEW digits \in Nat, NEW m, m = AllocateInt(Min({digits, MaxDigits})).m
    PROVE  /\ Room(m) /\ m <= MaxDigits /\ (digits <= m \/ MaxDigits <= m)
           /\ IntOK(AllocateInt(Min({digits, MaxDigits}))) /\ ~AllocateInt(Min({digits, MaxDigits})).over
  <1>1. PICK M \in Nat : M = MaxDigits /\ M >= 4 /\ M % 2 = 0
    BY MaxDigitsIs
  <1>2. PICK n \in Nat : n = Min({digits, MaxDigits}) /\ n <= M /\ (n = digits \/ n = M)
    <2>1. Min({digits, M}) = IF digits <= M THEN digits ELSE M
      BY MinOfTwo
    <2>2. CASE digits <= M
      BY <1>1, <2>1, <2>2
    <2>3. CASE ~(digits <= M)
      BY <1>1, <2>1, <2>3
    <2> QED
      BY <2>2, <2>3
  <1>3. Room(Rounded(n)) /\ n <= Rounded(n) /\ Holds(AllocateInt(n), Rounded(n), 0)
    BY AllocateIs
  <1>4. m = Rounded(n) /\ IntOK(AllocateInt(n)) /\ ~AllocateInt(n).over
    BY <1>2, <1>3 DEF Holds, Number
  <1>5. Rounded(n) <= M
    BY <1>1, <1>2 DEF Rounded
  <1> QED
    BY <1>1, <1>2, <1>3, <1>4, <1>5

LEMMA AllocatedIs ==
    ASSUME Operands, op \in {"+", "-", "*", "/", "%"}
    PROVE  /\ IntOK(Allocated) /\ ~Allocated.over /\ Room(Allocated.m) /\ Allocated.m <= MaxDigits
           /\ op = "*" => a.d <= Allocated.m /\ b.d <= Allocated.m
           /\ op = "/" => a.d <= Allocated.m
           /\ op = "%" => /\ a.d <= b.d => a.d <= Allocated.m
                          /\ b.d <= a.d => b.d <= Allocated.m
  <1>1. PICK x \in Nat, y \in Nat, M \in Nat : x = a.d /\ y = b.d /\ M = MaxDigits /\ x <= M /\ y <= M
    BY OperandFacts DEF Operands
  <1>2. PICK r \in Nat : /\ r = ResultDigits
                         /\ op = "*" => r = x + y
                         /\ op = "/" => r = x
                         /\ op = "%" => r = 1 + y \/ ((x <= y => r = x) /\ (y <= x => r = y))
    <2>1. CASE op \in {"+", "-"}
      <3>1. ResultDigits = 1 + Max({x, y})
        BY <1>1, <2>1 DEF ResultDigits
      <3>2. Max({x, y}) = IF x >= y THEN x ELSE y
        BY MaxOfTwo
      <3>3. ResultDigits \in Nat
        BY <3>1, <3>2
      <3> QED
        BY <2>1, <3>3
    <2>2. CASE op = "*"
      <3>1. ResultDigits = x + y
        BY <1>1, <2>2 DEF ResultDigits
      <3> QED
        BY <2>2, <3>1
    <2>3. CASE op = "/"
      <3>1. ResultDigits = x
        BY <1>1, <2>3 DEF ResultDigits
      <3> QED
        BY <2>3, <3>1
    <2>4. CASE op = "%"
      <3>1. ResultDigits = 1 + y \/ ResultDigits = Min({x, y})
        BY <1>1, <2>4 DEF ResultDigits
      <3>2. Min({x, y}) = IF x <= y THEN x ELSE y
        BY MinOfTwo
      <3>3. PICK r : r = ResultDigits
        OBVIOUS
      <3>4. r \in Nat /\ (r = 1 + y \/ ((x <= y => r = x) /\ (y <= x => r = y)))
        BY <3>1, <3>2, <3>3
      <3> QED
        BY <2>4, <3>3, <3>4
    <2> QED
      BY <2>1, <2>2, <2>3, <2>4
  <1>3. PICK m \in Nat : m = Allocated.m
    BY <1>2, RoomIs DEF Allocated, Room
  <1>4. Room(m) /\ m <= M /\ (r <= m \/ M <= m) /\ IntOK(Allocated) /\ ~Allocated.over
    BY <1>1, <1>2, <1>3, RoomIs DEF Allocated
  <1>5. op = "*" => x <= m /\ y <= m
    BY <1>1, <1>2, <1>4
  <1>6. op = "/" => x <= m
    BY <1>1, <1>2, <1>4
  <1>7. op = "%" => (x <= y => x <= m) /\ (y <= x => y <= m)
    BY <1>1, <1>2, <1>4
  <1> QED
    BY <1>1, <1>3, <1>4, <1>5, <1>6, <1>7

(* A smaller magnitude has no more digits.                                 *)
LEMMA NoLonger ==
    ASSUME NEW x, NEW y, Number(x), Number(y), Magnitude(x) <= Magnitude(y) PROVE x.d <= y.d
  <1>1. x.d \in Nat /\ y.d \in Nat /\ Magnitude(x) \in Nat /\ Magnitude(y) \in Nat
    BY IntFacts, MagnitudeIs DEF Number
  <1> QED
    BY <1>1, LongerIsMore

LEMMA NegateIs ==
    ASSUME NEW x, InC254(x), NEW r, r = int_neg(int_set_t(x, AllocateInt(x.d)))
    PROVE  Answers(r, r.m, -Val(x))
  <1>1. Number(x) /\ IntOK(x) /\ ~x.over /\ x.d \in Nat /\ x.neg \in BOOLEAN
    BY OperandFacts
  <1>2. IntOK(AllocateInt(x.d)) /\ x.d <= AllocateInt(x.d).m
    BY <1>1, AllocateIs DEF Holds, Number
  <1>3. PICK t : /\ t = int_set_t(x, AllocateInt(x.d)) /\ Number(t) /\ t.neg = x.neg /\ ~t.over
                 /\ Magnitude(t) = Magnitude(x)
    BY <1>1, <1>2, SetT
  <1>4. IntOK(t)
    BY <1>3 DEF Number
  <1>5. PICK s \in BOOLEAN : s = ~t.neg
    BY <1>1, <1>3
  <1>6. r = [t EXCEPT !.neg = s]
    BY <1>3, <1>5 DEF int_neg
  <1>7. Number(r) /\ ~r.over /\ r.neg = s /\ Magnitude(r) = Magnitude(t) /\ IntOK(r)
    BY <1>3, <1>4, <1>6, SignAside
  <1>8. PICK M \in Nat : M = Magnitude(x)
    BY <1>1, MagnitudeIs
  <1>9. Val(r) = IF s THEN -M ELSE M
    BY <1>3, <1>7, <1>8 DEF Val
  <1>10. Val(x) = IF x.neg THEN -M ELSE M
    BY <1>8 DEF Val
  <1>11. Val(r) = -Val(x)
    <2>1. CASE x.neg
      <3>1. ~s
        BY <1>3, <1>5, <2>1
      <3> QED
        BY <1>9, <1>10, <2>1, <3>1
    <2>2. CASE ~x.neg
      <3>1. s
        BY <1>3, <1>5, <2>2
      <3> QED
        BY <1>9, <1>10, <2>2, <3>1
    <2> QED
      BY <2>1, <2>2
  <1>12. Gives(r, r.m, Val(r))
    BY <1>7, GivesIt
  <1> QED
    BY <1>7, <1>11, <1>12 DEF Answers

-----------------------------------------------------------------------------
(* The inductive invariant: what is known at each place of the program. A  *)
(* division in progress has the state of DivInv; a text in progress is the *)
(* digits of a that are no longer in the number being printed, or not yet  *)
(* in the one being read.                                                  *)
Places == {"ready", "divide", "print", "chunk", "read", "done", "abort"}
QuotientRoom == IF op = "/" THEN Allocated.m ELSE MaxDigits
Dividing ==
    pc = "divide" =>
        /\ op \in {"/", "%"} /\ result = Allocated
        /\ Magnitude(b) > 0 /\ Magnitude(b) <= Magnitude(a)
        /\ DivInv(loop, QuotientRoom, Magnitude(a), Magnitude(b), b.d - 1)
Printing ==
    /\ pc = "ready" => text = <<>>
    /\ pc \in {"print", "chunk"} => op = "text" /\ PrintInv(rest, text, Magnitude(a))
    /\ pc = "chunk" =>
         /\ Magnitude(tenToTheNineteen) <= Magnitude(rest)
         /\ DivInv(loop, MaxDigits, Magnitude(rest), Magnitude(tenToTheNineteen), tenToTheNineteen.d - 1)
SignLeft(o) == (o = 1 => a.neg) /\ (o = 0 => ~a.neg \/ Magnitude(a) = 0)
Reading ==
    pc = "read" => op = "text" /\ \E o : ReadInv(result, text, o, Magnitude(a)) /\ SignLeft(o)
Given == IF op = "%" THEN Modulo(Val(a), Val(b)) ELSE Exact
Finished == pc = "done" => Answers(result, result.m, Given) /\ (op = "%" => Magnitude(b) > 0)
IInv ==
    /\ Operands /\ op \in Ops /\ turns \in Nat /\ pc \in Places
    /\ Dividing /\ Printing /\ Reading /\ Finished

LEMMA Kept ==
    ASSUME a' = a, b' = b, op' = op, Operands, op \in Ops
    PROVE  /\ Operands' /\ op' \in Ops /\ Given' = Given /\ Allocated' = Allocated /\ QuotientRoom' = QuotientRoom
           /\ \A o : SignLeft(o)' <=> SignLeft(o)
  <1>1. Operands' /\ op' \in Ops
    BY DEF Operands
  <1>2. Given' = Given
    BY DEF Given, Exact
  <1>3. ResultDigits' = ResultDigits
    BY DEF ResultDigits
  <1>4. Allocated' = Allocated
    BY <1>3 DEF Allocated
  <1>5. QuotientRoom' = QuotientRoom
    BY <1>4 DEF QuotientRoom
  <1> QED
    BY <1>1, <1>2, <1>4, <1>5 DEF SignLeft

LEMMA Start == Init => IInv
  <1> SUFFICES ASSUME Init PROVE IInv
    OBVIOUS
  <1>1. Operands
    <2>1. Lefts \subseteq 0 .. Power(Base, MaxDigits) - 1 /\ Rights \subseteq 0 .. Power(Base, MaxDigits) - 1
      BY OperandsAssumption
    <2> QED
      BY <2>1, OperandsAre DEF Init, Operands
  <1>2. op \in Ops /\ turns \in Nat /\ pc = "ready" /\ text = <<>>
    BY DEF Init
  <1> QED
    BY <1>1, <1>2 DEF IInv, Places, Dividing, Printing, Reading, Finished

(* A step that gives the answer.                                           *)
LEMMA Answered ==
    ASSUME IInv, NEW r, Answers(r, r.m, Given), op = "%" => Magnitude(b) > 0, result' = r, pc' = "done",
           a' = a, b' = b, op' = op, turns' = turns
    PROVE  IInv'
  <1>1. Operands' /\ op' \in Ops /\ Given' = Given
    BY Kept DEF IInv
  <1>2. turns' \in Nat /\ pc' \in Places
    BY DEF IInv, Places
  <1>3. Answers(result', result'.m, Given') /\ (op' = "%" => Magnitude(b') > 0)
    BY <1>1
  <1> QED
    BY <1>1, <1>2, <1>3 DEF IInv, Dividing, Printing, Reading, Finished

LEMMA GivenIs ==
    /\ op = "+" => Given = Val(a) + Val(b)
    /\ op = "-" => Given = Val(a) - Val(b)
    /\ op = "*" => Given = Val(a) * Val(b)
    /\ op = "/" => Given = Truncated(Val(a), Val(b))
    /\ op = "%" => Given = Modulo(Val(a), Val(b))
    /\ op = "negate" => Given = -Val(a)
    /\ op = "text" => Given = Val(a)
  <1>1. op = "+" => Given = Val(a) + Val(b)
    BY DEF Given, Exact
  <1>2. op = "-" => Given = Val(a) - Val(b)
    BY DEF Given, Exact
  <1>3. op = "*" => Given = Val(a) * Val(b)
    BY DEF Given, Exact
  <1>4. op = "/" => Given = Truncated(Val(a), Val(b))
    BY DEF Given, Exact
  <1>5. op = "%" => Given = Modulo(Val(a), Val(b))
    BY DEF Given
  <1>6. op = "negate" => Given = -Val(a)
    BY DEF Given, Exact
  <1>7. op = "text" => Given = Val(a)
    BY DEF Given, Exact
  <1> QED
    BY <1>1, <1>2, <1>3, <1>4, <1>5, <1>6, <1>7

-----------------------------------------------------------------------------
(* The steps.                                                              *)
LEMMA AddSubMulKeeps == ASSUME IInv, AddSubMul PROVE IInv'
  <1>1. Operands /\ op \in {"+", "-", "*"} /\ op \in {"+", "-", "*", "/", "%"}
    BY DEF IInv, AddSubMul
  <1>2. PICK r : r = Allocated
    OBVIOUS
  <1>3. /\ IntOK(r) /\ ~r.over /\ r.m <= MaxDigits /\ (op = "*" => a.d <= r.m /\ b.d <= r.m)
        /\ Number(a) /\ Number(b) /\ IntOK(a) /\ IntOK(b)
    BY <1>1, <1>2, AllocatedIs, OperandFacts DEF Operands
  <1>4. PICK s : /\ Answer(s)
                 /\ \/ op = "+" /\ s = int_add(a, b, r)
                    \/ op = "-" /\ s = int_sub(a, b, r)
                    \/ op = "*" /\ s = int_mul(a, b, r)
    BY <1>2 DEF AddSubMul
  <1>5. Answers(s, r.m, Given)
    <2>1. CASE op = "+" /\ s = int_add(a, b, r)
      <3>1. Gives(s, r.m, Val(a) + Val(b)) /\ Keeps(s, r)
        BY <1>3, <2>1, IntAdd, IntAddShape
      <3> QED
        BY <2>1, <3>1, GivenIs DEF Answers, Keeps
    <2>2. CASE op = "-" /\ s = int_sub(a, b, r)
      <3>1. Gives(s, r.m, Val(a) - Val(b)) /\ Keeps(s, r)
        BY <1>3, <2>2, IntSub, IntSubShape
      <3> QED
        BY <2>2, <3>1, GivenIs DEF Answers, Keeps
    <2>3. CASE op = "*" /\ s = int_mul(a, b, r)
      <3>1. Gives(s, r.m, Val(a) * Val(b)) /\ IntOK(s) /\ s.m = r.m
        BY <1>3, <2>3, IntMul
      <3> QED
        BY <2>3, <3>1, GivenIs DEF Answers
    <2> QED
      BY <1>4, <2>1, <2>2, <2>3
  <1>6. s.m = r.m
    BY <1>5 DEF Answers
  <1>7. result' = s /\ pc' = "done" /\ a' = a /\ b' = b /\ op' = op /\ turns' = turns
    BY <1>4 DEF Answer, textVars
  <1>8. op # "%"
    BY <1>1
  <1> QED
    BY <1>5, <1>6, <1>7, <1>8, Answered

LEMMA NegateKeeps == ASSUME IInv, Negate PROVE IInv'
  <1>1. InC254(a) /\ op = "negate"
    BY DEF IInv, Operands, Negate
  <1>2. PICK s : s = int_neg(int_set_t(a, AllocateInt(a.d))) /\ Answer(s)
    BY DEF Negate
  <1>3. Answers(s, s.m, Given)
    BY <1>1, <1>2, NegateIs, GivenIs
  <1>4. result' = s /\ pc' = "done" /\ a' = a /\ b' = b /\ op' = op /\ turns' = turns
    BY <1>2 DEF Answer, textVars
  <1>5. op # "%"
    BY <1>1
  <1> QED
    BY <1>3, <1>4, <1>5, Answered

(* A quotient of zero.                                                     *)
LEMMA NoQuotient ==
    ASSUME NEW x, NEW y, IntOK(x), IntOK(y), Magnitude(x) < Magnitude(y), NEW r, IntOK(r)
    PROVE  Answers(int_init(r), r.m, Truncated(Val(x), Val(y)))
  <1>1. PICK N \in Nat, D \in Nat : N = Magnitude(x) /\ D = Magnitude(y) /\ N < D
    BY MagnitudeIs
  <1>2. Val(x) \in Int /\ Val(y) \in Int /\ N = Abs(Val(x)) /\ D = Abs(Val(y))
    BY <1>1, SignOf
  <1>3. PICK Q \in Nat : Q = 0 /\ D * Q + N = N
    <2>1. D * 0 + N = N
      OBVIOUS
    <2> QED
      BY <2>1
  <1>4. Splits(N, D, Q, N)
    BY <1>1, <1>3 DEF Splits
  <1>5. PICK u \in Int, v \in Int : u = Val(x) /\ v = Val(y) /\ N = Abs(u) /\ D = Abs(v)
    BY <1>2
  <1>10. Truncated(u, v) = IF (u < 0) # (v < 0) THEN -Q ELSE Q
    <2>1. D > 0
      BY <1>1
    <2> QED
      BY <1>4, <1>5, <2>1, TruncatedIs
  <1>6. Truncated(Val(x), Val(y)) = 0
    <2>1. Q <= 0
      BY <1>3
    <2>2. -Q = Q
      BY <2>1
    <2>3. Truncated(u, v) = Q
      BY <1>10, <2>2, Zenon
    <2> QED
      BY <1>3, <1>5, <2>3
  <1>7. PICK s : s = int_init(r) /\ Holds(s, r.m, 0) /\ ~s.neg
    BY InitIs
  <1>8. Number(s) /\ s.m = r.m /\ ~s.over /\ Val(s) = 0 /\ IntOK(s)
    BY <1>7 DEF Holds, Val, Number
  <1>9. Gives(s, s.m, Val(s))
    BY <1>8, GivesIt
  <1> QED
    BY <1>6, <1>7, <1>8, <1>9 DEF Answers

LEMMA DivideSmallKeeps == ASSUME IInv, DivideSmall PROVE IInv'
  <1>1. Operands /\ op \in {"/", "%"} /\ op \in {"+", "-", "*", "/", "%"} /\ int_is_abs(a, b) = "LT"
    BY DEF IInv, DivideSmall
  <1>2. PICK r : r = Allocated
    OBVIOUS
  <1>3. /\ IntOK(r) /\ ~r.over /\ (op = "%" => (a.d <= b.d => a.d <= r.m))
        /\ Number(a) /\ Number(b) /\ IntOK(a) /\ IntOK(b) /\ ~a.over
    BY <1>1, <1>2, AllocatedIs, OperandFacts DEF Operands
  <1>4. Magnitude(a) < Magnitude(b)
    BY <1>1, <1>3, CompareAbs DEF Order
  <1>5. a.d <= b.d
    <2>1. Magnitude(a) \in Nat /\ Magnitude(b) \in Nat
      BY <1>3, MagnitudeIs
    <2> QED
      BY <1>3, <1>4, <2>1, NoLonger
  <1>6. PICK s : Answer(s) /\ s = IF op = "/" THEN int_init(r) ELSE SmallRemainder(a, b, r)
    BY <1>2 DEF DivideSmall
  <1>7. Answers(s, r.m, Given)
    <2>1. CASE op = "/"
      <3>1. s = int_init(r)
        BY <1>6, <2>1
      <3> QED
        BY <1>3, <1>4, <2>1, <3>1, NoQuotient, GivenIs
    <2>2. CASE op = "%"
      <3>1. s = SmallRemainder(a, b, r) /\ a.d <= r.m
        BY <1>3, <1>5, <1>6, <2>2
      <3> QED
        BY <1>3, <1>4, <2>2, <3>1, SmallRemainderIs, GivenIs
    <2> QED
      BY <1>1, <2>1, <2>2
  <1>8. s.m = r.m
    BY <1>7 DEF Answers
  <1>9. result' = s /\ pc' = "done" /\ a' = a /\ b' = b /\ op' = op /\ turns' = turns
    BY <1>6 DEF Answer, textVars
  <1>10. Magnitude(b) > 0
    <2>1. Magnitude(a) \in Nat /\ Magnitude(b) \in Nat
      BY <1>3, MagnitudeIs
    <2> QED
      BY <1>4, <2>1
  <1> QED
    BY <1>7, <1>8, <1>9, <1>10, Answered

LEMMA DivideByZeroKeeps == ASSUME IInv, DivideByZero PROVE IInv'
  <1>1. pc' = "abort" /\ a' = a /\ b' = b /\ op' = op /\ turns' = turns
    BY DEF DivideByZero, textVars
  <1>2. Operands' /\ op' \in Ops
    BY <1>1, Kept DEF IInv
  <1> QED
    BY <1>1, <1>2 DEF IInv, Places, Dividing, Printing, Reading, Finished

LEMMA DivideCallKeeps == ASSUME IInv, DivideCall PROVE IInv'
  <1>1. /\ Operands /\ op \in {"/", "%"} /\ op \in {"+", "-", "*", "/", "%"} /\ op \in Ops
        /\ int_is_abs(a, b) # "LT" /\ ~int_is_zero(b)
    BY DEF IInv, DivideCall
  <1>2. /\ result' = Allocated /\ pc' = "divide" /\ a' = a /\ b' = b /\ op' = op /\ turns' = turns
        /\ loop' = DivStart(a, b, IF op = "/" THEN Allocated ELSE Concrete254)
    BY DEF DivideCall, textVars
  <1>3. /\ Number(a) /\ ~a.over /\ a.d <= MaxDigits /\ Number(b) /\ ~b.over /\ b.d <= MaxDigits
        /\ Magnitude(a) \in Nat /\ Magnitude(b) \in Nat
    BY <1>1, OperandFacts DEF Operands
  <1>4. Magnitude(b) > 0 /\ Magnitude(b) <= Magnitude(a)
    BY <1>1, <1>3, CompareAbs, ZeroIs DEF Order
  <1>5. PICK q : q = (IF op = "/" THEN Allocated ELSE Concrete254) /\ IntOK(q) /\ q.m = QuotientRoom
    BY <1>1, AllocatedIs, ConcreteIs DEF Holds, QuotientRoom
  <1>6. DivInv(loop', q.m, Magnitude(a), Magnitude(b), b.d - 1)
    BY <1>2, <1>3, <1>4, <1>5, DivBegin
  <1>7. /\ Operands' /\ op' \in Ops /\ Allocated' = Allocated /\ QuotientRoom' = QuotientRoom
    BY <1>1, <1>2, Kept
  <1>8. DivInv(loop', QuotientRoom', Magnitude(a'), Magnitude(b'), b'.d - 1)
    BY <1>2, <1>5, <1>6, <1>7
  <1>9. Dividing'
    BY <1>1, <1>2, <1>4, <1>7, <1>8 DEF Dividing
  <1>10. turns' \in Nat
    BY <1>2 DEF IInv
  <1> QED
    BY <1>2, <1>7, <1>9, <1>10 DEF IInv, Places, Printing, Reading, Finished

(* A turn of the loop, of the division of the operands or of one for text. *)
QuotientFits ==
    pc = "divide" => Room(QuotientRoom) /\ Magnitude(a) < Power(Base, QuotientRoom)
LEMMA QuotientHasRoom == ASSUME IInv PROVE QuotientFits
  <1> SUFFICES ASSUME pc = "divide" PROVE Room(QuotientRoom) /\ Magnitude(a) < Power(Base, QuotientRoom)
    BY DEF QuotientFits
  <1>1. Operands /\ op \in {"/", "%"} /\ op \in {"+", "-", "*", "/", "%"}
    BY DEF IInv, Dividing
  <1>2. /\ IntOK(a) /\ a.d \in Nat /\ a.d <= MaxDigits /\ MaxDigits \in Nat /\ Magnitude(a) \in Nat
        /\ Magnitude(a) < Power(Base, a.d)
    BY <1>1, OperandFacts, MagnitudeIs DEF Operands
  <1>3. PICK m \in Nat : m = QuotientRoom /\ Room(m) /\ a.d <= m
    <2>1. CASE op = "/"
      <3>1. QuotientRoom = Allocated.m /\ Room(Allocated.m) /\ a.d <= Allocated.m
        BY <1>1, <2>1, AllocatedIs DEF QuotientRoom
      <3> QED
        BY <3>1 DEF Room
    <2>2. CASE op = "%"
      <3>1. QuotientRoom = MaxDigits /\ Room(MaxDigits)
        BY <2>2, ConcreteIs DEF QuotientRoom
      <3> QED
        BY <1>2, <3>1
    <2> QED
      BY <1>1, <2>1, <2>2
  <1>4. Base \in Nat /\ Base > 0
    BY BaseIs
  <1>5. Power(Base, a.d) <= Power(Base, m) /\ Power(Base, a.d) \in Nat /\ Power(Base, m) \in Nat
    BY <1>2, <1>3, <1>4, PowerGrows, BasePower
  <1> QED
    BY <1>2, <1>3, <1>5

LEMMA LoopTurn ==
    ASSUME IInv, DivideLoop
    PROVE  /\ pc = "divide" => DivInv(loop', QuotientRoom, Magnitude(a), Magnitude(b), b.d - 1)
           /\ pc = "chunk" => DivInv(loop', MaxDigits, Magnitude(rest), Magnitude(tenToTheNineteen), tenToTheNineteen.d - 1)
           /\ DivProgress(loop, loop') /\ Number(loop.rn) /\ Number(loop'.rn)
  <1>1. pc \in {"divide", "chunk"} /\ ~loop.done /\ loop' = DivStep(loop) /\ Operands
    BY DEF DivideLoop, IInv
  <1>2. CASE pc = "divide"
    <2>1. Room(QuotientRoom) /\ Magnitude(a) < Power(Base, QuotientRoom)
      BY <1>2, QuotientHasRoom DEF QuotientFits
    <2>2. Magnitude(b) > 0 /\ DivInv(loop, QuotientRoom, Magnitude(a), Magnitude(b), b.d - 1)
      BY <1>2 DEF IInv, Dividing
    <2>3. PICK N \in Nat, D \in Nat, low \in Nat : N = Magnitude(a) /\ D = Magnitude(b) /\ low = b.d - 1
      BY <1>1, OperandFacts DEF Operands
    <2>4. DivInv(loop', QuotientRoom, N, D, low) /\ DivProgress(loop, loop')
      BY <1>1, <2>1, <2>2, <2>3, DivTurn
    <2>5. Number(loop.rn) /\ Number(loop'.rn)
      BY <2>2, <2>4 DEF DivInv, DivNumbers
    <2> QED
      BY <1>2, <2>3, <2>4, <2>5
  <1>3. CASE pc = "chunk"
    <2>1. DivInv(loop, MaxDigits, Magnitude(rest), Magnitude(tenToTheNineteen), tenToTheNineteen.d - 1) /\ InC254(rest)
      BY <1>3 DEF IInv, Printing, PrintInv
    <2>2. /\ IntOK(rest) /\ Magnitude(rest) \in Nat /\ Magnitude(rest) < Power(Base, MaxDigits) /\ Room(MaxDigits)
      BY <2>1, OperandFacts, Fits, ConcreteIs
    <2>3. /\ tenToTheNineteen.d - 1 \in Nat
          /\ Magnitude(tenToTheNineteen) \in Nat /\ Magnitude(tenToTheNineteen) > 0
      BY TenIs, ChunkPower, IntFacts DEF Number
    <2>4. PICK N \in Nat, D \in Nat, low \in Nat :
              N = Magnitude(rest) /\ D = Magnitude(tenToTheNineteen) /\ low = tenToTheNineteen.d - 1
      BY <2>2, <2>3
    <2>5. DivInv(loop', MaxDigits, N, D, low) /\ DivProgress(loop, loop')
      BY <1>1, <2>1, <2>2, <2>3, <2>4, DivTurn
    <2>6. Number(loop.rn) /\ Number(loop'.rn)
      BY <2>1, <2>5 DEF DivInv, DivNumbers
    <2> QED
      BY <1>3, <2>4, <2>5, <2>6
  <1> QED
    BY <1>1, <1>2, <1>3

LEMMA DivideLoopKeeps == ASSUME IInv, DivideLoop PROVE IInv'
  <1>1. /\ pc' = pc /\ a' = a /\ b' = b /\ op' = op /\ turns' = turns + 1 /\ result' = result /\ rest' = rest /\ text' = text
        /\ pc \in {"divide", "chunk"} /\ Operands /\ op \in Ops
    BY DEF DivideLoop, IInv
  <1>2. /\ Operands' /\ op' \in Ops /\ Allocated' = Allocated /\ QuotientRoom' = QuotientRoom
    BY <1>1, Kept
  <1>3. Dividing'
    BY <1>1, <1>2, LoopTurn DEF Dividing, IInv
  <1>4. Printing'
    BY <1>1, LoopTurn DEF Printing, IInv
  <1>5. turns' \in Nat /\ pc' \in Places
    BY <1>1 DEF IInv
  <1> QED
    BY <1>1, <1>2, <1>3, <1>4, <1>5 DEF IInv, Reading, Finished

LEMMA DivideReturnKeeps == ASSUME IInv, DivideReturn PROVE IInv'
  <1>1. /\ pc = "divide" /\ loop.done /\ pc' = "done" /\ a' = a /\ b' = b /\ op' = op /\ turns' = turns
        /\ result' = IF op = "/" THEN Quotient(a, b, loop) ELSE Remainder(a, b, loop, result)
    BY DEF DivideReturn, textVars
  <1>2. /\ Operands /\ op \in {"/", "%"} /\ op \in {"+", "-", "*", "/", "%"} /\ result = Allocated
        /\ Magnitude(b) > 0 /\ Magnitude(b) <= Magnitude(a)
        /\ DivInv(loop, QuotientRoom, Magnitude(a), Magnitude(b), b.d - 1)
    BY <1>1 DEF IInv, Dividing
  <1>3. Room(QuotientRoom)
    BY <1>1, QuotientHasRoom DEF QuotientFits
  <1>4. Number(a) /\ Number(b)
    BY <1>2, OperandFacts DEF Operands
  <1>5. PICK N \in Nat, D \in Nat : N = Magnitude(a) /\ D = Magnitude(b)
    BY <1>2, OperandFacts DEF Operands
  <1>6. DivInv(loop, QuotientRoom, N, D, b.d - 1) /\ D > 0 /\ D <= N
    BY <1>2, <1>5
  <1>7. CASE op = "/"
    <2>1. PICK s : s = Quotient(a, b, loop) /\ Answers(s, QuotientRoom, Truncated(Val(a), Val(b)))
      BY <1>1, <1>3, <1>4, <1>5, <1>6, QuotientIs
    <2>2. result' = s /\ s.m = QuotientRoom
      BY <1>1, <1>7, <2>1 DEF Answers
    <2>3. Answers(s, s.m, Given)
      BY <1>7, <2>1, <2>2, GivenIs
    <2> QED
      BY <1>1, <1>2, <2>2, <2>3, Answered
  <1>8. CASE op = "%"
    <2>1. PICK r : r = result /\ IntOK(r) /\ b.d <= r.m
      BY <1>2, <1>4, <1>8, AllocatedIs, NoLonger
    <2>2. PICK s : s = Remainder(a, b, loop, r) /\ Answers(s, r.m, Modulo(Val(a), Val(b)))
      BY <1>1, <1>3, <1>4, <1>5, <1>6, <2>1, RemainderIs
    <2>3. result' = s /\ s.m = r.m
      BY <1>1, <1>8, <2>1, <2>2 DEF Answers
    <2>4. Answers(s, s.m, Given)
      BY <1>8, <2>2, <2>3, GivenIs
    <2> QED
      BY <1>1, <1>2, <2>3, <2>4, Answered
  <1> QED
    BY <1>2, <1>7, <1>8

LEMMA PrintCallKeeps == ASSUME IInv, PrintCall PROVE IInv'
  <1>1. /\ pc = "ready" /\ op = "text" /\ pc' = "print" /\ a' = a /\ b' = b /\ op' = op /\ turns' = turns /\ text' = text
        /\ rest' = [int_set_t(a, Concrete254) EXCEPT !.neg = FALSE]
        /\ Operands /\ op \in Ops
    BY DEF PrintCall, IInv
  <1>2. text = <<>>
    BY <1>1 DEF IInv, Printing
  <1>3. Number(a) /\ ~a.over /\ a.d <= MaxDigits /\ Magnitude(a) \in Nat
    BY <1>1, OperandFacts DEF Operands
  <1>4. IntOK(Concrete254) /\ Concrete254.m = MaxDigits
    BY ConcreteIs DEF Holds
  <1>5. PICK t : /\ t = int_set_t(a, Concrete254) /\ Number(t) /\ t.m = MaxDigits /\ ~t.over
                 /\ Magnitude(t) = Magnitude(a)
    BY <1>3, <1>4, SetT
  <1>6. IntOK(t)
    BY <1>5 DEF Number
  <1>7. PICK o \in BOOLEAN : o = FALSE
    OBVIOUS
  <1>8. rest' = [t EXCEPT !.neg = o]
    BY <1>1, <1>5, <1>7
  <1>9. InC254(rest') /\ Magnitude(rest') = Magnitude(a)
    BY <1>5, <1>6, <1>8, SignAside DEF InC254
  <1>10. PICK M \in Nat : M = Magnitude(a)
    BY <1>3
  <1>11. TextIs(<<>>, 0) /\ Power(Radix, Len(<<>>)) = 1
    BY RadixIs, PowerIs DEF TextIs
  <1>12. M = M * Power(Radix, Len(<<>>)) + 0
    <2>1. M = M * 1 + 0
      OBVIOUS
    <2> QED
      BY <1>11, <2>1
  <1>13. Printed(rest', text', Magnitude(a'), 0)
    BY <1>1, <1>2, <1>9, <1>10, <1>11, <1>12 DEF Printed
  <1>14. PrintInv(rest', text', Magnitude(a'))
    <2>1. text' \in Seq(Nat)
      BY <1>1, <1>2
    <2> QED
      BY <1>9, <1>13, <2>1 DEF PrintInv
  <1>15. Operands' /\ op' \in Ops /\ turns' \in Nat
    BY <1>1, Kept DEF IInv
  <1>16. Printing'
    BY <1>1, <1>14 DEF Printing
  <1> QED
    BY <1>1, <1>15, <1>16 DEF IInv, Places, Dividing, Reading, Finished

LEMMA PrintDivideKeeps == ASSUME IInv, PrintDivide PROVE IInv'
  <1>1. /\ pc = "print" /\ int_is_abs(rest, tenToTheNineteen) # "LT"
        /\ pc' = "chunk" /\ a' = a /\ b' = b /\ op' = op /\ turns' = turns /\ text' = text /\ rest' = rest
        /\ loop' = DivStart(rest, tenToTheNineteen, rest)
        /\ Operands /\ op \in Ops
    BY DEF PrintDivide, IInv, textVars
  <1>2. op = "text" /\ PrintInv(rest, text, Magnitude(a)) /\ InC254(rest)
    BY <1>1 DEF IInv, Printing, PrintInv
  <1>3. Number(rest) /\ IntOK(rest) /\ ~rest.over /\ rest.d <= MaxDigits /\ rest.m = MaxDigits /\ Magnitude(rest) \in Nat
    BY <1>2, OperandFacts
  <1>4. PICK d : d = tenToTheNineteen /\ Number(d) /\ ~d.over /\ d.m = 4 /\ Magnitude(d) = Power(Radix, Chunk)
    BY TenIs
  <1>5. d.d <= MaxDigits /\ Magnitude(d) \in Nat /\ Magnitude(d) > 0
    <2>1. d.d \in Nat /\ d.d <= 4 /\ MaxDigits \in Nat /\ MaxDigits >= 4
      BY <1>4, IntFacts, MaxDigitsIs DEF Number
    <2> QED
      BY <1>4, <2>1, ChunkPower
  <1>6. Magnitude(d) <= Magnitude(rest)
    BY <1>1, <1>3, <1>4, <1>5, CompareAbs DEF Order
  <1>7. DivInv(loop', MaxDigits, Magnitude(rest), Magnitude(d), d.d - 1)
    BY <1>1, <1>3, <1>4, <1>5, <1>6, DivBegin
  <1>8. Printing'
    BY <1>1, <1>2, <1>4, <1>6, <1>7 DEF Printing
  <1>9. Operands' /\ op' \in Ops /\ turns' \in Nat
    BY <1>1, Kept DEF IInv
  <1> QED
    BY <1>1, <1>8, <1>9 DEF IInv, Places, Dividing, Reading, Finished

(* One chunk of digits has been printed.                                   *)
LEMMA ChunkedKeeps ==
    ASSUME IInv, PrintInv(rest, text, Magnitude(a)), op = "text", NEW rem, NEW q, Chunked(rem, q),
           Number(rem), InC254(q), Splits(Magnitude(rest), Power(Radix, Chunk), Magnitude(q), Magnitude(rem))
    PROVE  IInv'
  <1>1. /\ pc' = "print" /\ a' = a /\ b' = b /\ op' = op /\ turns' = turns /\ rest' = q
        /\ text' = ChunkText(Low64(int_set_t(rem, Memory(4, Junk))), int_is_zero(q)) \o text
        /\ Operands /\ op \in Ops
    BY DEF Chunked, IInv
  <1>2. Magnitude(a) \in Nat
    BY <1>1, OperandFacts DEF Operands
  <1>3. PrintInv(rest', text', Magnitude(a'))
    BY <1>1, <1>2, NextChunk
  <1>4. Printing'
    BY <1>1, <1>3 DEF Printing
  <1>5. Operands' /\ op' \in Ops /\ turns' \in Nat
    BY <1>1, Kept DEF IInv
  <1> QED
    BY <1>1, <1>4, <1>5 DEF IInv, Places, Dividing, Reading, Finished

LEMMA PrintChunkKeeps == ASSUME IInv, PrintChunk PROVE IInv'
  <1>1. pc = "chunk" /\ loop.done /\ Chunked(loop.rn, Quotient(rest, tenToTheNineteen, loop))
    BY DEF PrintChunk
  <1>2. PICK d : d = tenToTheNineteen /\ Number(d) /\ Magnitude(d) = Power(Radix, Chunk)
    BY TenIs
  <1>3. /\ op = "text" /\ PrintInv(rest, text, Magnitude(a)) /\ InC254(rest)
        /\ Magnitude(d) <= Magnitude(rest)
        /\ DivInv(loop, MaxDigits, Magnitude(rest), Magnitude(d), d.d - 1)
    BY <1>1, <1>2 DEF IInv, Printing, PrintInv
  <1>4. Number(rest) /\ Room(MaxDigits)
    BY <1>3, OperandFacts, ConcreteIs
  <1>5. PICK N \in Nat, D \in Nat : N = Magnitude(rest) /\ D = Magnitude(d) /\ D > 0 /\ D <= N
    BY <1>2, <1>3, OperandFacts, ChunkPower
  <1>6. DivInv(loop, MaxDigits, N, D, d.d - 1)
    BY <1>3, <1>5
  <1>7. Splits(N, D, Magnitude(loop.q), Magnitude(loop.rn))
    BY <1>1, <1>4, <1>5, <1>6, DivDone
  <1>8. PICK q : q = Quotient(rest, d, loop) /\ InC254(q) /\ Magnitude(q) = Magnitude(loop.q)
    <2>1. PICK s : s = loop /\ s.done /\ DivInv(s, MaxDigits, N, D, d.d - 1)
      BY <1>1, <1>6
    <2>2. /\ Number(Quotient(rest, d, s)) /\ ~Quotient(rest, d, s).over /\ Quotient(rest, d, s).m = MaxDigits
          /\ Magnitude(Quotient(rest, d, s)) = Magnitude(s.q)
      BY <1>2, <1>4, <1>5, <2>1, QuotientIs
    <2> QED
      BY <2>1, <2>2 DEF InC254
  <1>9. Number(loop.rn)
    BY <1>6 DEF DivInv, DivNumbers
  <1>10. Splits(Magnitude(rest), Power(Radix, Chunk), Magnitude(q), Magnitude(loop.rn)) /\ Chunked(loop.rn, q)
    <2>1. Chunked(loop.rn, q)
      BY <1>1, <1>2, <1>8, Zenon
    <2> QED
      BY <1>2, <1>5, <1>7, <1>8, <2>1
  <1> QED
    BY <1>3, <1>8, <1>9, <1>10, ChunkedKeeps

LEMMA PrintLastKeeps == ASSUME IInv, PrintLast PROVE IInv'
  <1>1. pc = "print" /\ int_is_abs(rest, tenToTheNineteen) = "LT" /\ Chunked(rest, int_init(rest))
    BY DEF PrintLast
  <1>2. op = "text" /\ PrintInv(rest, text, Magnitude(a)) /\ InC254(rest)
    BY <1>1 DEF IInv, Printing, PrintInv
  <1>3. Number(rest) /\ IntOK(rest) /\ rest.m = MaxDigits /\ Magnitude(rest) \in Nat
    BY <1>2, OperandFacts
  <1>4. Magnitude(rest) < Power(Radix, Chunk)
    BY <1>1, <1>3, TenIs, CompareAbs DEF Order
  <1>5. PICK q : q = int_init(rest) /\ InC254(q) /\ Magnitude(q) = 0
    BY <1>3, InitIs DEF InC254, Holds
  <1>6. PICK C \in Nat, N \in Nat : C = Power(Radix, Chunk) /\ N = Magnitude(rest) /\ N < C /\ C * 0 + N = N
    BY <1>3, <1>4, ChunkPower
  <1>7. Splits(Magnitude(rest), Power(Radix, Chunk), Magnitude(q), Magnitude(rest)) /\ Chunked(rest, q)
    BY <1>1, <1>5, <1>6 DEF Splits
  <1> QED
    BY <1>2, <1>3, <1>5, <1>7, ChunkedKeeps

LEMMA PrintDoneKeeps == ASSUME IInv, PrintDone PROVE IInv'
  <1>1. /\ pc = "print" /\ int_is_zero(rest) /\ pc' = "read" /\ a' = a /\ b' = b /\ op' = op /\ turns' = turns
        /\ text' = IF text = <<>> THEN <<0>> ELSE IF a.neg THEN <<-1>> \o text ELSE text
        /\ result' = int_init(AllocateInt(DigitsForS(Len(text')))) /\ DigitsForS(Len(text')) <= MaxDigits
        /\ Operands /\ op \in Ops
    BY DEF PrintDone, IInv, SignedText, Minus
  <1>2. op = "text" /\ PrintInv(rest, text, Magnitude(a)) /\ InC254(rest)
    BY <1>1 DEF IInv, Printing, PrintInv
  <1>3. Magnitude(rest) = 0
    BY <1>1, <1>2, OperandFacts, ZeroIs
  <1>4. PICK v \in Nat : v = Magnitude(a)
    BY <1>1, OperandFacts DEF Operands
  <1>5. a.neg \in BOOLEAN
    BY <1>1, OperandFacts DEF Operands
  <1>6. Len(text') \in Nat /\ Len(text) <= Len(text')
    <2>1. text \in Seq(Nat)
      BY <1>2 DEF PrintInv
    <2>2. CASE text = <<>>
      BY <1>1, <2>2
    <2>3. CASE text # <<>> /\ a.neg
      <3>1. text \in Seq(Int) /\ <<-1>> \in Seq(Int) /\ Len(<<-1>>) = 1 /\ text' = <<-1>> \o text
        BY <1>1, <2>1, <2>3
      <3> QED
        BY <3>1
    <2>4. CASE text # <<>> /\ ~a.neg
      BY <1>1, <2>1, <2>4
    <2> QED
      BY <1>5, <2>2, <2>3, <2>4
  <1>7. /\ text = <<>> => v = 0 /\ ReadInv(result', <<0>>, 0, v)
        /\ text # <<>> => ReadInv(result', text, 0, v) /\ ReadInv(result', <<-1>> \o text, 1, v)
    <2>1. PICK length \in Nat : length = Len(text') /\ Len(text) <= length
      BY <1>6
    <2> QED
      BY <1>1, <1>2, <1>3, <1>4, <2>1, ReadBegin
  <1>8. \E o : ReadInv(result', text', o, v) /\ SignLeft(o)
    <2>1. CASE text = <<>>
      <3>1. text' = <<0>> /\ SignLeft(0)
        BY <1>1, <1>4, <1>7, <2>1 DEF SignLeft
      <3> QED
        BY <1>7, <2>1, <3>1
    <2>2. CASE text # <<>> /\ a.neg
      <3>1. text' = <<-1>> \o text /\ SignLeft(1)
        BY <1>1, <2>2 DEF SignLeft
      <3> QED
        BY <1>7, <2>2, <3>1
    <2>3. CASE text # <<>> /\ ~a.neg
      <3>1. text' = text /\ SignLeft(0)
        BY <1>1, <2>3 DEF SignLeft
      <3> QED
        BY <1>7, <2>3, <3>1
    <2> QED
      BY <2>1, <2>2, <2>3
  <1>9. Operands' /\ op' \in Ops /\ turns' \in Nat /\ \A o : SignLeft(o)' <=> SignLeft(o)
    BY <1>1, Kept DEF IInv
  <1>10. Reading'
    BY <1>1, <1>2, <1>4, <1>8, <1>9 DEF Reading
  <1> QED
    BY <1>1, <1>9, <1>10 DEF IInv, Places, Dividing, Printing, Finished

LEMMA ReadTooLongKeeps == ASSUME IInv, ReadTooLong PROVE IInv'
  <1>1. pc' = "abort" /\ a' = a /\ b' = b /\ op' = op /\ turns' = turns
    BY DEF ReadTooLong, textVars
  <1>2. Operands' /\ op' \in Ops
    BY <1>1, Kept DEF IInv
  <1> QED
    BY <1>1, <1>2 DEF IInv, Places, Dividing, Printing, Reading, Finished

LEMMA SignIs ==
    ASSUME NEW o, NEW v, ReadInv(result, text, o, v)
    PROVE  /\ Negative <=> o = 1
           /\ o \in 0 .. 1 /\ text \in Seq(Int) /\ o <= Len(text)
  <1>1. PICK w : ReadText(text, o, w)
    BY DEF ReadInv, ToRead
  <1>2. (text # <<>> /\ Head(text) = -1) <=> o = 1
    BY <1>1, SignRead
  <1> QED
    BY <1>1, <1>2 DEF ReadText, Negative, Minus

LEMMA ReadDigitKeeps == ASSUME IInv, ReadDigit PROVE IInv'
  <1>1. /\ pc = "read" /\ Len(text) > (IF Negative THEN 1 ELSE 0)
        /\ pc' = pc /\ a' = a /\ b' = b /\ op' = op /\ turns' = turns
        /\ Operands /\ op \in Ops
    BY DEF ReadDigit, IInv
  <1>2. PICK at : /\ at = IF Negative THEN 2 ELSE 1
                  /\ result' = int_add(int_mul(ten, result, Concrete254), int_set_i(text[at], Memory(2, Junk)), result)
                  /\ text' = RemoveAt(text, at)
    BY DEF ReadDigit
  <1>3. op = "text" /\ \E o : ReadInv(result, text, o, Magnitude(a)) /\ SignLeft(o)
    BY <1>1 DEF IInv, Reading
  <1>4. PICK o : ReadInv(result, text, o, Magnitude(a)) /\ SignLeft(o)
    BY <1>3
  <1>5. PICK v \in Nat : v = Magnitude(a)
    BY <1>1, OperandFacts DEF Operands
  <1>6. (Negative <=> o = 1) /\ o \in 0 .. 1
    BY <1>4, SignIs
  <1>7. at = o + 1 /\ Len(text) > o
    BY <1>1, <1>2, <1>6
  <1>8. ReadInv(result', text', o, v)
    <2>1. result' = int_add(int_mul(ten, result, Concrete254), int_set_i(text[o + 1], Memory(2, Junk)), result)
      BY <1>2, <1>7
    <2>2. text' = RemoveAt(text, o + 1)
      BY <1>2, <1>7
    <2> QED
      BY <1>4, <1>5, <1>7, <2>1, <2>2, ReadNext
  <1>9. Operands' /\ op' \in Ops /\ turns' \in Nat /\ \A j : SignLeft(j)' <=> SignLeft(j)
    BY <1>1, Kept DEF IInv
  <1>10. Reading'
    BY <1>1, <1>3, <1>4, <1>5, <1>8, <1>9 DEF Reading
  <1> QED
    BY <1>1, <1>9, <1>10 DEF IInv, Places, Dividing, Printing, Finished

LEMMA ReadDoneKeeps == ASSUME IInv, ReadDone PROVE IInv'
  <1>1. /\ pc = "read" /\ text \in {<<>>, <<-1>>} /\ pc' = "done"
        /\ a' = a /\ b' = b /\ op' = op /\ turns' = turns
        /\ result' = [result EXCEPT !.neg = Negative]
        /\ Operands /\ op \in Ops
    BY DEF ReadDone, IInv, Minus
  <1>2. op = "text" /\ \E o : ReadInv(result, text, o, Magnitude(a)) /\ SignLeft(o)
    BY <1>1 DEF IInv, Reading
  <1>3. PICK o : ReadInv(result, text, o, Magnitude(a)) /\ SignLeft(o)
    BY <1>2
  <1>4. PICK v \in Nat : v = Magnitude(a)
    BY <1>1, OperandFacts DEF Operands
  <1>5. (Negative <=> o = 1) /\ o \in 0 .. 1 /\ o <= Len(text)
    BY <1>3, SignIs
  <1>6. Len(text) = o
    <2>1. CASE text = <<>>
      BY <1>5, <2>1
    <2>2. CASE text = <<-1>>
      <3>1. Negative
        BY <2>2 DEF Negative, Minus
      <3> QED
        BY <1>5, <2>2, <3>1
    <2> QED
      BY <1>1, <2>1, <2>2
  <1>7. Magnitude(result) = v /\ Number(result) /\ ~result.over /\ IntOK(result)
    BY <1>3, <1>4, <1>6, ReadEnd DEF Number
  <1>8. PICK s \in BOOLEAN : (s <=> Negative) /\ result' = [result EXCEPT !.neg = s]
    <2>1. Negative \in BOOLEAN
      BY DEF Negative
    <2> QED
      BY <1>1, <2>1, Zenon
  <1>9. PICK r : r = result' /\ Number(r) /\ IntOK(r) /\ ~r.over /\ r.neg = s /\ Magnitude(r) = v
    BY <1>7, <1>8, SignAside
  <1>10. Val(r) = Val(a)
    <2>1. Val(r) = (IF s THEN -v ELSE v) /\ Val(a) = IF a.neg THEN -v ELSE v
      BY <1>4, <1>9 DEF Val
    <2>2. CASE s
      <3>1. a.neg
        BY <1>3, <1>5, <1>8, <2>2 DEF SignLeft
      <3> QED
        BY <2>1, <2>2, <3>1
    <2>3. CASE ~s
      <3>1. ~a.neg \/ v = 0
        BY <1>3, <1>4, <1>5, <1>8, <2>3 DEF SignLeft
      <3>2. CASE ~a.neg
        BY <2>1, <2>3, <3>2
      <3>3. CASE v = 0
        <4>1. v <= 0
          BY <3>3
        <4>2. -v = v
          BY <4>1
        <4>3. Val(r) = v
          BY <2>1, <4>2, Zenon
        <4>4. Val(a) = v
          BY <2>1, <4>2, Zenon
        <4> QED
          BY <4>3, <4>4
      <3> QED
        BY <3>1, <3>2, <3>3
    <2> QED
      BY <2>2, <2>3
  <1>11. Answers(r, r.m, Given)
    <2>1. Gives(r, r.m, Val(r))
      BY <1>9, GivesIt
    <2> QED
      BY <1>2, <1>9, <1>10, <2>1, GivenIs DEF Answers
  <1>12. op # "%"
    BY <1>2
  <1> QED
    BY <1>1, <1>9, <1>11, <1>12, Answered

-----------------------------------------------------------------------------
LEMMA StepKeeps == ASSUME IInv, [Next]_vars PROVE IInv'
  <1>1. CASE UNCHANGED vars
    <2>1. /\ pc' = pc /\ a' = a /\ b' = b /\ op' = op /\ turns' = turns /\ result' = result /\ loop' = loop
          /\ rest' = rest /\ text' = text
      BY <1>1 DEF vars
    <2>2. Operands /\ op \in Ops
      BY DEF IInv
    <2>3. /\ Operands' /\ op' \in Ops /\ Given' = Given /\ Allocated' = Allocated /\ QuotientRoom' = QuotientRoom
          /\ \A o : SignLeft(o)' <=> SignLeft(o)
      BY <2>1, <2>2, Kept
    <2>4. Dividing'
      BY <2>1, <2>3 DEF IInv, Dividing
    <2>5. Printing'
      BY <2>1 DEF IInv, Printing
    <2>6. Reading'
      BY <2>1, <2>3 DEF IInv, Reading
    <2>7. Finished'
      BY <2>1, <2>3 DEF IInv, Finished
    <2> QED
      BY <2>1, <2>3, <2>4, <2>5, <2>6, <2>7 DEF IInv
  <1>2. CASE AddSubMul
    BY <1>2, AddSubMulKeeps
  <1>3. CASE Negate
    BY <1>3, NegateKeeps
  <1>4. CASE DivideSmall
    BY <1>4, DivideSmallKeeps
  <1>5. CASE DivideByZero
    BY <1>5, DivideByZeroKeeps
  <1>6. CASE DivideCall
    BY <1>6, DivideCallKeeps
  <1>7. CASE DivideLoop
    BY <1>7, DivideLoopKeeps
  <1>8. CASE DivideReturn
    BY <1>8, DivideReturnKeeps
  <1>9. CASE PrintCall
    BY <1>9, PrintCallKeeps
  <1>10. CASE PrintDivide
    BY <1>10, PrintDivideKeeps
  <1>11. CASE PrintChunk
    BY <1>11, PrintChunkKeeps
  <1>12. CASE PrintLast
    BY <1>12, PrintLastKeeps
  <1>13. CASE PrintDone
    BY <1>13, PrintDoneKeeps
  <1>14. CASE ReadDigit
    BY <1>14, ReadDigitKeeps
  <1>15. CASE ReadDone
    BY <1>15, ReadDoneKeeps
  <1>16. CASE ReadTooLong
    BY <1>16, ReadTooLongKeeps
  <1> QED
    BY <1>1, <1>2, <1>3, <1>4, <1>5, <1>6, <1>7, <1>8, <1>9, <1>10, <1>11, <1>12, <1>13, <1>14, <1>15, <1>16
    DEF Next, Stopped

(* The inductive invariant holds of every behaviour: it is what each place *)
(* of binaryIntOp, int_div, int_to_s and int_set_s relies on.              *)
THEOREM Invariance == Spec => []IInv
  <1>1. Init => IInv
    BY Start
  <1>2. IInv /\ [Next]_vars => IInv'
    BY StepKeeps
  <1> QED
    BY <1>1, <1>2, PTL DEF Spec

(* Every operation of binaryIntOp and unaryIntOp on operands of any length *)
(* gives the number that arithmetic gives, in normal form, if the Value    *)
(* allocated for it has room for it, and sets the overflow flag if not;    *)
(* int_mod gives what Python gives, except for operands of different signs *)
(* that divide evenly; a number printed by int_to_s and read by int_set_s  *)
(* is the number again.                                                    *)
THEOREM ResultsExact == Spec => []ResultIsExact
  <1>1. ASSUME IInv, pc = "done", ~ModuloSlip PROVE Given = Exact
    <2>1. CASE op = "%"
      <3>1. IntOK(a) /\ IntOK(b) /\ Magnitude(b) > 0
        BY <1>1, <2>1, OperandFacts DEF IInv, Operands, Finished
      <3>2. Val(a) \in Int /\ Val(b) \in Int /\ Val(b) # 0
        BY <3>1, SignOf
      <3>3. Given = Val(a) - Val(b) * Floored(Val(a), Val(b))
        BY <1>1, <2>1, <3>2, ModuloIs, GivenIs DEF ModuloSlip
      <3> QED
        BY <2>1, <3>3 DEF Exact
    <2>2. CASE op # "%"
      BY <2>2 DEF Given
    <2> QED
      BY <2>1, <2>2
  <1>2. IInv => ResultIsExact
    <2> SUFFICES ASSUME IInv, pc = "done", ~ModuloSlip
                 PROVE  IF Abs(Exact) < Power(Base, result.m)
                          THEN ~result.over /\ Val(result) = Exact /\ Normal(result)
                          ELSE result.over
      BY DEF ResultIsExact
    <2>1. Answers(result, result.m, Exact)
      BY <1>1 DEF IInv, Finished
    <2> QED
      BY <2>1 DEF Answers, Gives, Number
  <1> QED
    BY <1>2, Invariance, PTL

(* The loop of int_div: what has been taken off the numerator is the       *)
(* quotient times the denominator at every turn, and no number it works on *)
(* has a leading zero.                                                     *)
THEOREM DivisionSum == Spec => []DivisionKeepsSum
  <1>1. IInv => DivisionKeepsSum
    <2>1. SUFFICES ASSUME IInv, pc \in {"divide", "chunk"} PROVE DivisionKeepsSum
      BY DEF DivisionKeepsSum
    <2>2. PICK m, N, D : /\ N = Magnitude(IF pc = "divide" THEN a ELSE rest)
                         /\ D = Magnitude(IF pc = "divide" THEN b ELSE tenToTheNineteen)
                         /\ DivNumbers(loop, m, N, D)
      BY <2>1 DEF IInv, Dividing, Printing, DivInv
    <2>3. /\ Magnitude(loop.rn) + Magnitude(loop.q) * Magnitude(loop.sd) = N
          /\ Magnitude(loop.sd) = D * Power(Base, loop.shift)
          /\ Normal(loop.rn) /\ Normal(loop.sd) /\ Normal(loop.q)
      BY <2>2 DEF DivNumbers, Holds, Number
    <2> QED
      BY <2>2, <2>3 DEF DivisionKeepsSum
  <1> QED
    BY <1>1, Invariance, PTL

(* Every turn of the loop of int_div but the last takes something off the  *)
(* numerator or moves to a lower digit, so that the loop ends.             *)
THEOREM DivisionEnds == Spec => DivisionProgresses
  <1> DEFINE Progress == turns' > turns /\ ~loop'.done =>
                           \/ loop'.shift < loop.shift
                           \/ loop'.shift = loop.shift /\ int_is_abs(loop'.rn, loop.rn) = "LT"
  <1>1. IInv /\ [Next]_vars => [Progress]_vars
    <2>1. SUFFICES ASSUME IInv, Next, turns' > turns, ~loop'.done
                   PROVE  \/ loop'.shift < loop.shift
                          \/ loop'.shift = loop.shift /\ int_is_abs(loop'.rn, loop.rn) = "LT"
      OBVIOUS
    <2>2. turns \in Nat
      BY <2>1 DEF IInv
    <2>3. DivideLoop
      <3>1. turns' # turns
        BY <2>1, <2>2
      <3> QED
        BY <2>1, <3>1 DEF Next, AddSubMul, Negate, DivideSmall, DivideByZero, DivideCall, DivideReturn, PrintCall,
             PrintDivide, PrintChunk, PrintLast, Chunked, PrintDone, ReadTooLong, ReadDigit, ReadDone, Stopped, Answer,
             textVars, vars
    <2>4. DivProgress(loop, loop') /\ Number(loop.rn) /\ Number(loop'.rn)
      BY <2>1, <2>3, LoopTurn
    <2>5. int_is_abs(loop'.rn, loop.rn) = Order(Magnitude(loop'.rn), Magnitude(loop.rn))
      BY <2>4, CompareAbs
    <2> QED
      BY <2>1, <2>4, <2>5 DEF DivProgress, Order
  <1> QED
    BY <1>1, Invariance, PTL DEF Spec, DivisionProgresses

(* int_is and int_is_range order the numbers as integers, whatever their   *)
(* lengths and for either zero.                                            *)
THEOREM Comparisons == Spec => []ComparisonsAgree
  <1>1. IInv => ComparisonsAgree
    <2>1. SUFFICES ASSUME IInv PROVE ComparisonsAgree
      OBVIOUS
    <2>2. Number(a) /\ Number(b) /\ Val(a) \in Int /\ Val(b) \in Int
      BY <2>1, OperandFacts DEF IInv, Operands
    <2>3. int_is(a, b) = Order(Val(a), Val(b))
      BY <2>2, Compare
    <2>4. ASSUME Val(b) \in 0 .. Power(Base, 4) \div 2 - 1
          PROVE  int_is_range(a, -Val(b), Val(b)) =
                   (IF Val(a) < -Val(b) THEN "BELOW" ELSE IF Val(a) <= Val(b) THEN "WITHIN" ELSE "ABOVE")
      <3>1. PICK H \in Nat : H = Power(Base, 4) \div 2 /\ 2 * H = Power(Base, 4)
        BY HalfRange
      <3>2. PICK y \in Nat : y = Val(b) /\ y < Power(Base, 4)
        BY <2>4, <3>1
      <3> QED
        BY <2>2, <3>2, Ranges
    <2> QED
      BY <2>3, <2>4 DEF ComparisonsAgree, Order
  <1> QED
    BY <1>1, Invariance, PTL

(* int_to_i32, int_to_u32, int_to_i64 and int_to_u64 give the number when  *)
(* it is in the range of the C type.                                       *)
THEOREM ConversionsExact == Spec => []ConversionsAgree
  <1>1. IInv => ConversionsAgree
    <2>1. SUFFICES ASSUME IInv PROVE ConversionsAgree
      OBVIOUS
    <2>2. Number(a)
      BY <2>1, OperandFacts DEF IInv, Operands
    <2>3. PICK i32, i64 : i32 = Power(Base, 2) \div 2 /\ i64 = Power(Base, 4) \div 2
      OBVIOUS
    <2>4. /\ Val(a) \in -i32 .. i32 - 1 => int_to_i32(a) = Val(a)
          /\ Val(a) \in 0 .. 2 * i32 - 1 => int_to_u32(a) = Val(a)
          /\ Val(a) \in -i64 .. i64 - 1 => int_to_i64(a) = Val(a)
          /\ Val(a) \in 0 .. 2 * i64 - 1 => int_to_u64(a) = Val(a)
      BY <2>2, <2>3, Conversions
    <2> QED
      BY <2>3, <2>4 DEF ConversionsAgree
  <1> QED
    BY <1>1, Invariance, PTL

=============================================================================
