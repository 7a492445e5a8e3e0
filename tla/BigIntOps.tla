----------------------------- MODULE BigIntOps ------------------------------
(***************************************************************************)
(* The interpreter's operations on the unlimited integers (binaryIntOp and *)
(* unaryIntOp in vm.c): the result is allocated from the operands' lengths *)
(* and the operation runs into it. Division is one step for each turn of   *)
(* its loop. The operands are every literal of a given set, with either    *)
(* sign; a negated zero keeps its sign.                                    *)
(***************************************************************************)
EXTENDS BigInt

CONSTANTS Lefts, Rights   \* magnitudes of the operands
ASSUME OperandsAssumption == Lefts \cup Rights \subseteq 0 .. Power(Base, MaxDigits) - 1

VARIABLES
    a, b, op,   \* the operands and the operation
    pc,         \* "abort": an assertion stops the process
    result,     \* the Value under construction
    loop, turns,  \* int_div's variables; how often it looped (history)
    rest, text  \* int_to_s: what is left to print, the digits printed

vars == <<a, b, op, pc, result, loop, turns, rest, text>>
textVars == <<turns, rest, text>>

Literal(v, neg) ==
    [neg |-> neg, over |-> FALSE, m |-> MaxDigits,
     d |-> Max({1} \cup {k \in 1 .. MaxDigits : Power(Base, k - 1) <= v}),
     h |-> [k \in 1 .. MaxDigits |-> (v \div Power(Base, k - 1)) % Base]]
Literals(magnitudes) == {Literal(v, neg) : v \in magnitudes, neg \in BOOLEAN}
Ops == {"+", "-", "*", "/", "%", "negate", "text"}
NoLoop == [done |-> TRUE]

Init ==
    /\ a \in Literals(Lefts) /\ b \in Literals(Rights)
    /\ op \in Ops /\ (op \in {"negate", "text"} => int_is_zero(b) /\ ~b.neg)
    /\ pc = "ready" /\ result = AllocateInt(1) /\ loop = NoLoop
    /\ turns = 0 /\ rest = Concrete254 /\ text = <<>>

-----------------------------------------------------------------------------
ResultDigits ==
    CASE op \in {"+", "-"} -> 1 + Max({a.d, b.d})
      [] op = "*" -> a.d + b.d
      [] op = "/" -> a.d
      [] op = "%" -> IF ~int_is_zero(a) /\ a.neg # b.neg THEN 1 + b.d ELSE Min({a.d, b.d})
Allocated == AllocateInt(Min({ResultDigits, MaxDigits}))

Answer(r) ==
    /\ result' = r /\ pc' = "done"
    /\ UNCHANGED <<a, b, op, loop, textVars>>
AddSubMul ==
    /\ pc = "ready"
    /\ \/ op = "+" /\ Answer(int_add(a, b, Allocated))
       \/ op = "-" /\ Answer(int_sub(a, b, Allocated))
       \/ op = "*" /\ Answer(int_mul(a, b, Allocated))
Negate ==
    /\ pc = "ready" /\ op = "negate"
    /\ Answer(int_neg(int_set_t(a, AllocateInt(a.d))))

DivideSmall ==   \* the numerator is the smaller
    /\ pc = "ready" /\ op \in {"/", "%"} /\ int_is_abs(a, b) = "LT"
    /\ Answer(IF op = "/" THEN int_init(Allocated) ELSE SmallRemainder(a, b, Allocated))
DivideByZero ==   \* assert(testDenominator != 0)
    /\ pc = "ready" /\ op \in {"/", "%"} /\ int_is_abs(a, b) # "LT" /\ int_is_zero(b)
    /\ pc' = "abort"
    /\ UNCHANGED <<a, b, op, result, loop, textVars>>
DivideCall ==
    /\ pc = "ready" /\ op \in {"/", "%"} /\ int_is_abs(a, b) # "LT" /\ ~int_is_zero(b)
    /\ result' = Allocated
    /\ loop' = DivStart(a, b, IF op = "/" THEN Allocated ELSE Concrete254)
    /\ pc' = "divide"
    /\ UNCHANGED <<a, b, op, textVars>>
DivideLoop ==
    /\ pc \in {"divide", "chunk"} /\ ~loop.done
    /\ loop' = DivStep(loop) /\ turns' = turns + 1
    /\ UNCHANGED <<a, b, op, pc, result, rest, text>>
DivideReturn ==
    /\ pc = "divide" /\ loop.done
    /\ pc' = "done" /\ loop' = NoLoop
    /\ result' = IF op = "/" THEN Quotient(a, b, loop) ELSE Remainder(a, b, loop, result)
    /\ UNCHANGED <<a, b, op, textVars>>

Minus == -1   \* the character, not a digit
(* To a string, by divisions into chunks of digits, and back from it, by   *)
(* multiplications and additions. A zero has one digit and no sign.        *)
PrintCall ==
    /\ pc = "ready" /\ op = "text"
    /\ rest' = [int_set_t(a, Concrete254) EXCEPT !.neg = FALSE]
    /\ pc' = "print"
    /\ UNCHANGED <<a, b, op, result, loop, turns, text>>
PrintDivide ==
    /\ pc = "print" /\ ~int_is_zero(rest) /\ int_is_abs(rest, tenToTheNineteen) # "LT"
    /\ loop' = DivStart(rest, tenToTheNineteen, rest)
    /\ pc' = "chunk"
    /\ UNCHANGED <<a, b, op, result, textVars>>
Chunked(rem, quotient) ==
    /\ text' = ChunkText(Low64(int_set_t(rem, Memory(4, Junk))), int_is_zero(quotient)) \o text
    /\ rest' = quotient
    /\ loop' = NoLoop /\ pc' = "print"
    /\ UNCHANGED <<a, b, op, result, turns>>
PrintChunk == pc = "chunk" /\ loop.done /\ Chunked(loop.rn, Quotient(rest, tenToTheNineteen, loop))
PrintLast ==
    /\ pc = "print" /\ ~int_is_zero(rest) /\ int_is_abs(rest, tenToTheNineteen) = "LT"
    /\ Chunked(rest, int_init(rest))
(* INT_DIGITS_FOR_S, which counts the sign as a digit.                     *)
DigitsForS(length) == Min({n \in 0 .. length : Power(Radix, length) <= Power(Base, n)})
SignedText == IF text = <<>> THEN <<0>> ELSE IF a.neg THEN <<Minus>> \o text ELSE text
PrintDone ==
    /\ pc = "print" /\ int_is_zero(rest) /\ DigitsForS(Len(SignedText)) <= MaxDigits
    /\ text' = SignedText
    /\ result' = int_init(AllocateInt(DigitsForS(Len(SignedText)))) /\ pc' = "read"
    /\ UNCHANGED <<a, b, op, loop, turns, rest>>
ReadTooLong ==   \* assert(numDigits <= 254)
    /\ pc = "print" /\ int_is_zero(rest) /\ DigitsForS(Len(SignedText)) > MaxDigits
    /\ pc' = "abort"
    /\ UNCHANGED <<a, b, op, result, loop, textVars>>
Negative == text # <<>> /\ Head(text) = Minus
ReadDigit ==
    /\ pc = "read" /\ Len(text) > (IF Negative THEN 1 ELSE 0)
    /\ LET at == IF Negative THEN 2 ELSE 1
       IN /\ result' = int_add(int_mul(ten, result, Concrete254), int_set_i(text[at], Memory(2, Junk)), result)
          /\ text' = RemoveAt(text, at)
    /\ UNCHANGED <<a, b, op, pc, loop, turns, rest>>
ReadDone ==
    /\ pc = "read" /\ text \in {<<>>, <<Minus>>}
    /\ result' = [result EXCEPT !.neg = Negative]
    /\ text' = <<>> /\ pc' = "done"
    /\ UNCHANGED <<a, b, op, loop, turns, rest>>

Stopped == pc \in {"done", "abort"} /\ UNCHANGED vars
Next ==
    \/ AddSubMul \/ Negate \/ DivideSmall \/ DivideByZero
    \/ DivideCall \/ DivideLoop \/ DivideReturn
    \/ PrintCall \/ PrintDivide \/ PrintChunk \/ PrintLast \/ PrintDone \/ ReadTooLong
    \/ ReadDigit \/ ReadDone \/ Stopped
Spec == Init /\ [][Next]_vars

-----------------------------------------------------------------------------
Truncated(x, y) == (IF (x < 0) # (y < 0) THEN -1 ELSE 1) * (Abs(x) \div Abs(y))
Floored(x, y) == IF y > 0 THEN x \div y ELSE (-x) \div (-y)
Exact ==   \* % is Python's (test/yarg-expect/modulo/mod.ya)
    LET x == Val(a)
        y == Val(b)
    IN CASE op = "+" -> x + y
         [] op = "-" -> x - y
         [] op = "*" -> x * y
         [] op = "/" -> Truncated(x, y)
         [] op = "%" -> x - y * Floored(x, y)
         [] op = "negate" -> -x
         [] op = "text" -> x

(* Where the code is known to differ from Python: the divisor is added     *)
(* whenever the signs differ (big-int.c:613), also to a remainder of 0.    *)
ModuloSlip ==
    /\ op = "%" /\ Val(a) # 0 /\ (Val(a) < 0) # (Val(b) < 0)
    /\ Abs(Val(a)) % Abs(Val(b)) = 0

(* Every operation gives the number arithmetic gives, in normal form, if   *)
(* it has room for it, and raises the overflow flag only if it has not;    *)
(* but for the % of operands of different signs that divide evenly.        *)
ResultIsExact ==
    pc = "done" /\ ~ModuloSlip =>
        IF Abs(Exact) < Power(Base, result.m)
          THEN ~result.over /\ Val(result) = Exact /\ Normal(result)
          ELSE result.over

(* The loop of int_div keeps numerator = rest + quotient * denominator,    *)
(* counted at the current shift, and every number it works on normal.      *)
DivisionKeepsSum ==
    pc \in {"divide", "chunk"} =>
        /\ Magnitude(loop.rn) + Magnitude(loop.q) * Magnitude(loop.sd)
             = Magnitude(IF pc = "divide" THEN a ELSE rest)
        /\ Magnitude(loop.sd)
             = Magnitude(IF pc = "divide" THEN b ELSE tenToTheNineteen) * Power(Base, loop.shift)
        /\ Normal(loop.rn) /\ Normal(loop.sd) /\ Normal(loop.q)

(* Every turn of the loop that is not the last takes something off the     *)
(* numerator or moves on to the next digit: division ends.                 *)
DivisionProgresses ==
    [][turns' > turns /\ ~loop'.done =>
         \/ loop'.shift < loop.shift
         \/ loop'.shift = loop.shift /\ int_is_abs(loop'.rn, loop.rn) = "LT"]_vars

(* int_is and int_is_range order the numbers as integers, for either zero. *)
ComparisonsAgree ==
    LET x == Val(a)
        y == Val(b)
    IN pc = "ready" =>
        /\ int_is(a, b) = (IF x < y THEN "LT" ELSE IF x = y THEN "EQ" ELSE "GT")
        /\ y \in 0 .. Power(Base, 4) \div 2 - 1 =>
             int_is_range(a, -y, y) = (IF x < -y THEN "BELOW" ELSE IF x <= y THEN "WITHIN" ELSE "ABOVE")

(* A number within the range of a C integer converts to itself, whatever   *)
(* its number of digits.                                                   *)
ConversionsAgree ==
    LET x == Val(a)
        i32 == Power(Base, 2) \div 2
        i64 == Power(Base, 4) \div 2
    IN pc = "ready" =>
        /\ x \in -i32 .. i32 - 1 => int_to_i32(a) = x
        /\ x \in 0 .. 2 * i32 - 1 => int_to_u32(a) = x
        /\ x \in -i64 .. i64 - 1 => int_to_i64(a) = x
        /\ x \in 0 .. 2 * i64 - 1 => int_to_u64(a) = x
=============================================================================
