------------------------------- MODULE Numbers -------------------------------
(***************************************************************************)
(* The arithmetic of the fixed-width integers of Yarg: the operators of    *)
(* the interpreter loop (src/cyarg/vm.c), the promotion of literals, and   *)
(* the conversions (src/cyarg/builtin.c, src/cyarg/value.c).               *)
(*                                                                         *)
(* A type is int8 .. uint64 or int, the unlimited integer.  The widths are *)
(* parameters, so that a small instance has every boundary the real one    *)
(* has.                                                                    *)
(***************************************************************************)
EXTENDS Integers

CONSTANTS Bits8, Bits16, Bits32, Bits64

ASSUME WidthsAssumption ==
    /\ Bits8 \in Nat /\ Bits16 \in Nat /\ Bits32 \in Nat /\ Bits64 \in Nat
    /\ 1 < Bits8 /\ Bits8 < Bits16 /\ Bits16 < Bits32 /\ Bits32 < Bits64

Signed == {"int8", "int16", "int32", "int64"}
Unsigned == {"uint8", "uint16", "uint32", "uint64"}
Fixed == Signed \cup Unsigned

Bits(t) == CASE t \in {"int8", "uint8"} -> Bits8
             [] t \in {"int16", "uint16"} -> Bits16
             [] t \in {"int32", "uint32"} -> Bits32
             [] t \in {"int64", "uint64"} -> Bits64

MinOf(t) == IF t \in Signed THEN -(2 ^ (Bits(t) - 1)) ELSE 0
MaxOf(t) == IF t \in Signed THEN 2 ^ (Bits(t) - 1) - 1 ELSE 2 ^ Bits(t) - 1
InRange(t, n) == n >= MinOf(t) /\ n <= MaxOf(t)

\* What a variable of type t holds after n is stored in it.
Wrap(t, n) == LET m == n % 2 ^ Bits(t) IN IF m > MaxOf(t) THEN m - 2 ^ Bits(t) ELSE m

-----------------------------------------------------------------------------
(* Operators on two values of one type.                                    *)

Magnitude(n) == IF n < 0 THEN -n ELSE n
\* C division, towards zero, and its remainder
Quotient(a, b) == LET q == Magnitude(a) \div Magnitude(b) IN
                  IF (a < 0) # (b < 0) THEN -q ELSE q
Remainder(a, b) == a - b * Quotient(a, b)

\* BINARY_OP takes its uint64 operands as int64_t.  OP_ADD and OP_MODULO have
\* cases of their own, which do not.
OperandOf(op, t, n) ==
    IF t = "uint64" /\ op \in {"SUBTRACT", "MULTIPLY", "DIVIDE"}
    THEN Wrap("int64", n) ELSE n

\* The divisions C leaves undefined; types narrower than int32_t are widened
\* to it before the operator is applied.
DivisionUndefined(op, t, a, b) ==
    LET x == OperandOf(op, t, a)
        y == OperandOf(op, t, b)
        wide == IF t \in {"int64", "uint64"} THEN "int64" ELSE "int32"
    IN /\ op \in {"DIVIDE", "MODULO"}
       /\ \/ y = 0
          \/ (y = -1 /\ x = MinOf(wide))

\* The sign fix of OP_MODULO looks at the operands, not at the remainder.
Modulo(t, a, b) == Remainder(a, b) +
    (IF t \in Signed /\ ((a < 0 /\ b > 0) \/ (a > 0 /\ b < 0)) THEN b ELSE 0)

Arithmetic(op, t, a, b) ==
    LET x == OperandOf(op, t, a)
        y == OperandOf(op, t, b)
    IN Wrap(t, CASE op = "ADD" -> x + y
                 [] op = "SUBTRACT" -> x - y
                 [] op = "MULTIPLY" -> x * y
                 [] op = "DIVIDE" -> Quotient(x, y)
                 [] op = "MODULO" -> Modulo(t, x, y))

\* binaryIntOp: the unlimited integers divide the same way.
IntArithmetic(op, a, b) ==
    CASE op = "ADD" -> a + b
      [] op = "SUBTRACT" -> a - b
      [] op = "MULTIPLY" -> a * b
      [] op = "DIVIDE" -> Quotient(a, b)
      [] op = "MODULO" -> Remainder(a, b) +
             (IF a # 0 /\ (a < 0) # (b < 0) THEN b ELSE 0)

-----------------------------------------------------------------------------
(* Literals and conversions.                                               *)

\* Mutant of PromotesTo: the bound is taken for one that is too large.
PromotesToBound(t, n) == t \in Fixed \ {"int16"} /\ n >= MinOf(t) /\ n <= MaxOf(t) + 1
\* promote: whether the literal n takes the type t of the other operand.
\* The case written for int16 asks for uint16.
PromotesTo(t, n) ==
    CASE t = "int16" -> FALSE
      [] t = "uint16" -> InRange("int16", n) \/ InRange("uint16", n)
      [] t \in Fixed \ {"int16", "uint16"} -> InRange(t, n)
      [] OTHER -> FALSE

\* The conversion functions int8(), uint8() .. from an integer of type from.
\* uint64() does not look at the sign of the narrower types, uint32() does
\* not take the largest value from an int64.
ConvertsTo(t, from, n) ==
    CASE t = "int" -> TRUE
      [] t = "uint64" /\ from \in {"int8", "int16", "int32"} -> TRUE
      [] t = "uint32" /\ from = "int64" -> n >= 0 /\ n < MaxOf("uint32")
      [] OTHER -> InRange(t, n)
Converted(t, n) == IF t = "int" THEN n ELSE Wrap(t, n)

\* is_positive_integer, on a 64-bit host
IsPositive(t, n) == t \in Fixed \cup {"int"} /\ n >= 0 /\ n <= MaxOf("uint64")
=============================================================================
