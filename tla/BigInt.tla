------------------------------- MODULE BigInt -------------------------------
(***************************************************************************)
(* The unlimited integers of the language (big-int.c): sign and magnitude, *)
(* 16-bit digits in an array that is read and written in 32-bit words, a   *)
(* fixed capacity for each number. The operations take the record their    *)
(* result is stored in, as the code does, because its capacity and its old *)
(* contents matter. Base, MaxDigits, Radix and Chunk are 65536, 254, 10    *)
(* and 19 in the code; the algorithms use no other property of them.       *)
(***************************************************************************)
EXTENDS Integers, Sequences, FiniteSetsExt, SequencesExt

CONSTANTS
    Base, MaxDigits,   \* a digit's range; the largest capacity
    Radix, Chunk,      \* text: 10, and the digits printed for one division
    Junk               \* what unwritten memory holds

(* b ^ k, as a function that proofs can unfold.                            *)
Power(b, k) == LET p[j \in Nat] == IF j = 0 THEN 1 ELSE b * p[j - 1] IN p[k]

ASSUME BigIntAssumption ==
    /\ Base \in Nat /\ Base > 2 /\ Base % 2 = 0
    /\ MaxDigits \in Nat /\ MaxDigits > 3 /\ MaxDigits % 2 = 0
    /\ Radix \in 2 .. Base - 1 /\ Chunk \in Nat
    /\ Power(Radix, Chunk) < Power(Base, 4) /\ Power(Base, 3) <= Power(Radix, Chunk)
    /\ Junk \in 0 .. Base - 1

-----------------------------------------------------------------------------
(* Int: sign, overflow flag, number of digits, capacity, half-words.       *)
Memory(m, fill) == [neg |-> FALSE, over |-> FALSE, d |-> 1, m |-> m, h |-> [k \in 1 .. m |-> fill]]
Half(i, k) == i.h[k + 1]
Store(i, f) ==   \* what would be beyond the capacity is not stored
    [i EXCEPT !.h = [k \in 1 .. i.m |-> IF k - 1 \in DOMAIN f THEN f[k - 1] ELSE i.h[k]]]
int_init(i) == [Store(i, [k \in 0 .. 1 |-> 0]) EXCEPT !.neg = FALSE, !.over = FALSE, !.d = 1]
Concrete254 == int_init(Memory(MaxDigits, Junk))   \* a C variable
AllocateInt(digits) ==                             \* a Value, zeroed object memory
    int_init(Memory(IF digits > 2 THEN digits + (digits % 2) ELSE 2, 0))

int_set_u(v, i) ==
    LET words == Min({w \in 0 .. 2 : v < Power(Base, 2 * w)})
        used == Min({words, i.m \div 2})
        set == Store(i, [k \in 0 .. Max({2 * used, 2}) - 1 |-> (v \div Power(Base, k)) % Base])
    IN [set EXCEPT !.neg = FALSE, !.over = words > used,
                   !.d = IF used = 0 THEN 1 ELSE IF Half(set, 2 * used - 1) = 0 THEN 2 * used - 1 ELSE 2 * used]
int_set_i(v, i) == [int_set_u(IF v < 0 THEN -v ELSE v, i) EXCEPT !.neg = v < 0]
int_set_t(v, i) ==
    [Store(i, [k \in 0 .. 2 * ((v.d + 1) \div 2) - 1 |-> Half(v, k)])
       EXCEPT !.neg = v.neg, !.over = v.over, !.d = v.d]

-----------------------------------------------------------------------------
(* Comparison: by length, then by words, so the half-word above an odd     *)
(* number of digits takes part.                                            *)
int_is_zero(i) == Half(i, 0) = 0 /\ i.d = 1
Word(i, w) == Half(i, 2 * w) + Base * Half(i, 2 * w + 1)
int_is_abs(a, b) ==
    LET differ == {w \in 0 .. (a.d + 1) \div 2 - 1 : Word(a, w) # Word(b, w)}
    IN IF a.d # b.d THEN IF a.d > b.d THEN "GT" ELSE "LT"
       ELSE IF differ = {} THEN "EQ"
       ELSE IF Word(a, Max(differ)) > Word(b, Max(differ)) THEN "GT" ELSE "LT"
Opposite(c) == CASE c = "LT" -> "GT" [] c = "GT" -> "LT" [] OTHER -> c
MutInt_is(a, b) ==   \* no test for a negative zero
    IF a.neg # b.neg THEN IF a.neg THEN "LT" ELSE "GT"
    ELSE IF a.neg THEN Opposite(int_is_abs(a, b)) ELSE int_is_abs(a, b)
int_is(a, b) ==
    IF a.neg # b.neg
      THEN IF int_is_zero(a) /\ int_is_zero(b) THEN "EQ" ELSE IF a.neg THEN "LT" ELSE "GT"
      ELSE IF a.neg THEN Opposite(int_is_abs(a, b)) ELSE int_is_abs(a, b)
int_is_range(i, l, u) ==
    IF int_is(i, int_set_u(u, Concrete254)) = "GT" THEN "ABOVE"
    ELSE IF int_is(i, int_set_i(l, Concrete254)) = "LT" THEN "BELOW" ELSE "WITHIN"

-----------------------------------------------------------------------------
(* Addition and subtraction of magnitudes, digit by digit with a carry. A  *)
(* digit that is not zero and has no room sets the flag and ends the call. *)
Digit(i, k) == IF k < i.d THEN Half(i, k) ELSE 0
Carry(a, b) ==
    LET c[k \in Nat] == IF k = 0 THEN 0 ELSE (Digit(a, k - 1) + Digit(b, k - 1) + c[k - 1]) \div Base IN c
addPos(a, b, r) ==
    LET n == Max({a.d, b.d})
        carry == Carry(a, b)
        ps == [k \in 0 .. n - 1 |-> Digit(a, k) + Digit(b, k) + carry[k]]
        sum == Store(r, [k \in 0 .. n - 1 |-> ps[k] % Base])
    IN CASE \E k \in r.m .. n - 1 : ps[k] # 0 -> [sum EXCEPT !.over = TRUE]
         [] n < r.m -> [Store(sum, [k \in n .. n + carry[n] |-> IF k = n THEN carry[n] ELSE 0])
                          EXCEPT !.d = n + carry[n]]
         [] OTHER -> [sum EXCEPT !.over = @ \/ carry[n] > 0, !.d = r.m]

Borrow(a, b) ==
    LET c[k \in Nat] == IF k > 0 /\ Digit(b, k - 1) + c[k - 1] > Digit(a, k - 1) THEN 1 ELSE 0 IN c
subAGtB(a, b, r) ==
    LET borrow == Borrow(a, b)
        pd == [k \in 0 .. a.d - 1 |-> (Half(a, k) - Digit(b, k) - borrow[k]) % Base]
        n == Min({a.d, r.m})
        diff == Store(r, [k \in 0 .. n - 1 + (n % 2) |-> IF k < n THEN pd[k] ELSE 0])
    IN IF \E k \in n .. a.d - 1 : pd[k] # 0
         THEN [Store(r, [k \in 0 .. n - 1 |-> pd[k]]) EXCEPT !.over = TRUE]
         ELSE [diff EXCEPT !.d = Max({1} \cup {k \in 1 .. n : Half(diff, k - 1) # 0})]

int_sub_abs(a, b, r) ==
    IF int_is_abs(a, b) = "LT" THEN [subAGtB(b, a, r) EXCEPT !.neg = TRUE]
                               ELSE [subAGtB(a, b, r) EXCEPT !.neg = FALSE]
int_add(a, b, r) ==
    CASE a.neg = b.neg -> [addPos(a, b, r) EXCEPT !.neg = a.neg]
      [] a.neg /\ ~b.neg -> int_sub_abs(b, a, r)
      [] OTHER -> int_sub_abs(a, b, r)
int_sub(a, b, r) ==
    CASE a.neg # b.neg -> [addPos(a, b, r) EXCEPT !.neg = a.neg]
      [] a.neg /\ b.neg -> int_sub_abs(b, a, r)
      [] OTHER -> int_sub_abs(a, b, r)
int_neg(i) == [i EXCEPT !.neg = ~@]

int_shift(s, i) ==
    CASE int_is_zero(i) -> i
      [] ~int_is_zero(i) /\ s >= 0 /\ i.d + s > i.m -> [i EXCEPT !.over = TRUE]
      [] ~int_is_zero(i) /\ s >= 0 /\ i.d + s <= i.m ->
           [Store(i, [k \in 0 .. i.d + s |-> IF k \in s .. i.d + s - 1 THEN Half(i, k - s) ELSE 0]) EXCEPT !.d = @ + s]
      [] OTHER ->
           [Store(i, [k \in 0 .. i.d - 1 |-> IF k < i.d + s THEN Half(i, k - s) ELSE 0]) EXCEPT !.d = Max({1, @ + s})]

-----------------------------------------------------------------------------
(* Multiplication adds one shifted product of two digits after another. An *)
(* overflow breaks the inner loop only.                                    *)
int_mul(a, b, r) ==
    LET loop[j \in 0 .. a.d * b.d] ==
          IF j = 0 THEN [r |-> int_set_i(0, r), broke |-> -1]
          ELSE LET s == loop[j - 1]
                   ka == (j - 1) \div b.d
                   at == ka + ((j - 1) % b.d)
                   pp == int_set_i(Half(a, ka) * Half(b, (j - 1) % b.d), Concrete254)
                   sum == int_add(s.r, int_shift(at, pp), s.r)
               IN CASE s.broke = ka -> s
                    [] s.broke # ka /\ at + pp.d > s.r.m -> [r |-> [s.r EXCEPT !.over = TRUE], broke |-> ka]
                    [] OTHER -> [r |-> sum, broke |-> IF sum.over THEN ka ELSE s.broke]
    IN [loop[a.d * b.d].r EXCEPT !.neg = a.neg # b.neg]

(* Division: the loop state is what is left of the numerator, the shifted  *)
(* denominator, the quotient so far, the shift still to be undone and the  *)
(* numerator's digit that the next guess starts at. The early return of    *)
(* int_div for a remainder shorter than the denominator is left out: vm.c  *)
(* gives it as many digits, as the lemma AllocatedIs proves.               *)
DivStart(n, d, q) ==
    LET shift == n.d - d.d - 1
        sd == int_set_t([d EXCEPT !.neg = FALSE], Concrete254)
    IN [rn |-> int_set_t([n EXCEPT !.neg = FALSE], Concrete254),
        sd |-> IF shift >= 1 THEN int_shift(shift, sd) ELSE sd, q |-> int_init(q),
        shift |-> Max({shift, 0}), nDigit |-> IF shift = -1 THEN n.d ELSE n.d - 1,
        test |-> Half(d, d.d - 1) + 1, done |-> FALSE]
Guess(s) ==
    (IF s.nDigit < 1 THEN Half(s.rn, 0) ELSE Base * Digit(s.rn, s.nDigit) + Half(s.rn, s.nDigit - 1)) \div s.test
MutReduce(s, guess) ==   \* without looking whether the guess was too high
    LET qDigit == int_set_i(guess, Concrete254)
        reduceBy == int_mul(s.sd, qDigit, Concrete254)
    IN [s EXCEPT !.rn = subAGtB(@, reduceBy, @), !.q = addPos(qDigit, @, @)]
Reduce(s, guess) ==
    LET qDigit == int_set_i(guess, Concrete254)
        reduceBy == int_mul(s.sd, qDigit, Concrete254)
    IN IF int_is_abs(s.rn, reduceBy) = "LT" THEN s
       ELSE [s EXCEPT !.rn = subAGtB(@, reduceBy, @), !.q = addPos(qDigit, @, @)]
MutDivStep(s) ==   \* a guess of zero is used as it is
    LET less == int_is_abs(s.rn, s.sd) = "LT"
        t == IF less THEN [s EXCEPT !.shift = @ - 1, !.nDigit = @ - 1,
                                    !.sd = int_shift(-1, @), !.q = int_shift(1, @)] ELSE s
    IN IF less /\ s.shift = 0 THEN [s EXCEPT !.done = TRUE]
       ELSE IF t.q.over THEN [t EXCEPT !.done = TRUE] ELSE Reduce(t, Guess(t))
DivStep(s) ==
    LET less == int_is_abs(s.rn, s.sd) = "LT"
        t == IF less THEN [s EXCEPT !.shift = @ - 1, !.nDigit = @ - 1,
                                    !.sd = int_shift(-1, @), !.q = int_shift(1, @)] ELSE s
    IN IF less /\ s.shift = 0 THEN [s EXCEPT !.done = TRUE]
       ELSE IF t.q.over THEN [t EXCEPT !.done = TRUE] ELSE Reduce(t, Max({1, Guess(t)}))
Quotient(n, d, s) == IF s.q.over THEN s.q ELSE [s.q EXCEPT !.neg = n.neg # d.neg]
MutRemainder(n, d, s, r) ==   \* the sign of the numerator is not restored
    LET rem == int_set_t(s.rn, r)
    IN IF ~int_is_zero(n) /\ n.neg # d.neg THEN int_add(rem, d, rem) ELSE rem
Remainder(n, d, s, r) ==   \* the last adjustment is also made when it is 0
    LET rem == [int_set_t(s.rn, r) EXCEPT !.neg = n.neg]
    IN IF ~int_is_zero(n) /\ n.neg # d.neg THEN int_add(rem, d, rem) ELSE rem
SmallRemainder(n, d, r) ==   \* |n| < |d|
    IF ~int_is_zero(n) /\ n.neg # d.neg THEN int_add(n, d, r) ELSE int_set_t(n, r)

-----------------------------------------------------------------------------
(* C integers of 64 and 32 bits are four and two digits.                   *)
Low64(i) ==
    Word(i, 0) + (IF i.d > 2 THEN Power(Base, 2) * Word(i, 1) ELSE 0)
(* Text: the digits of one division's remainder, most significant first;   *)
(* the last division of a number drops leading zeros.                      *)
ChunkText(v, leading) ==
    LET n == IF leading THEN Max({0} \cup {k \in 1 .. Chunk : v >= Power(Radix, k - 1)}) ELSE Chunk
    IN [k \in 1 .. n |-> (v \div Power(Radix, n - k)) % Radix]
tenToTheNineteen == int_set_u(Power(Radix, Chunk), Memory(4, 0))
ten == int_set_u(Radix, Memory(2, 0))

int_to_i64(i) ==
    LET v == Low64(i)
    IN IF i.neg THEN (IF 2 * v >= Power(Base, 4) THEN -(Power(Base, 4) \div 2) ELSE -v) ELSE v % (Power(Base, 4) \div 2)
int_to_u64(i) == IF i.neg THEN 0 ELSE Low64(i)
MutInt_to_i32(i) ==   \* the half-word is taken for the word
    IF i.neg THEN -Half(i, 0) ELSE Half(i, 0)
int_to_i32(i) ==
    LET half == Power(Base, 2) \div 2
    IN IF i.neg THEN -Min({Word(i, 0), half}) ELSE Min({Word(i, 0), half - 1})
int_to_u32(i) == Word(i, 0)

-----------------------------------------------------------------------------
(* The number that the first n half-words are, and that an Int is.         *)
Amount(h) ==
    LET v[k \in 0 .. Len(h)] == IF k = 0 THEN 0 ELSE v[k - 1] + h[k] * Power(Base, k - 1) IN v
Magnitude(i) == Amount(i.h)[i.d]
Val(i) == IF i.neg THEN -Magnitude(i) ELSE Magnitude(i)
Abs(x) == IF x < 0 THEN -x ELSE x

(* int_invariant: no leading zero, and the half-word above an odd number   *)
(* of digits is zero, which comparison and conversion by words rely on.    *)
Normal(i) ==
    /\ i.d \in 1 .. i.m
    /\ i.d > 1 => Half(i, i.d - 1) # 0
    /\ i.d % 2 = 1 => Half(i, i.d) = 0
=============================================================================
