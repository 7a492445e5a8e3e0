------------------------------ MODULE Language ------------------------------
(***************************************************************************)
(* A Yarg program from its source to its end: scanned, parsed, compiled,   *)
(* and run, either at once (the compile and load builtins on a string) or  *)
(* as a package that was written by the compiler on a host and loaded by   *)
(* the interpreter (compileFile in src/cyarg/hosted.c, loadBuiltin in      *)
(* src/cyarg/builtin.c).                                                   *)
(*                                                                         *)
(* The parts are Scanner, Parser, Ast, Compiler, Package and Machine.  A   *)
(* source is one of the given programs, or one of them with a single word  *)
(* missing: cut is that word's place, 0 when none is missing.              *)
(***************************************************************************)
EXTENDS Machine, Scanner

CONSTANTS
    Programs,   \* sequences of words
    Expected,   \* for some programs, what they print and how they end
    Cuttable,   \* the programs that are also tried with a word missing
    MaxSteps    \* a run is followed for so many instructions

ASSUME LanguageAssumption ==
    /\ DOMAIN Expected \subseteq DOMAIN Programs
    /\ Cuttable \subseteq DOMAIN Programs
    /\ MaxSteps \in Nat

P == INSTANCE Parser
A == INSTANCE Ast
C == INSTANCE Compiler
K == INSTANCE Package

VARIABLES
    program, cut,   \* the source
    stage,          \* source, scanned, parsed, compiled, running, rejected
    tokens, tree,   \* the scanner's and the parser's result
    compiled,       \* the functions, of which the script is the last
    marks,          \* for each function that runs: its statements' marks
    steps           \* instructions executed

input == <<program, cut>>
build == <<tokens, tree, compiled, marks>>
allVars == <<vars, input, build, stage, steps>>

Source == IF cut = 0 THEN Programs[program] ELSE RemoveAt(Programs[program], cut)

Init ==
    /\ Idle
    /\ program \in DOMAIN Programs
    /\ cut \in {0} \cup (IF program \in Cuttable
                         THEN DOMAIN Programs[program] ELSE {})
    /\ stage = "source"
    /\ tokens = <<>> /\ tree = <<>> /\ compiled = <<>> /\ marks = <<>>
    /\ steps = 0

ScanSource ==
    /\ stage = "source"
    /\ tokens' = Scan(Source)
    /\ stage' = "scanned"
    /\ UNCHANGED <<vars, input, tree, compiled, marks, steps>>

\* The parser's errors end the compilation before any code is generated.  A
\* loop that does not end, or a write through NULL, ends it as well.
Parsed(r) ==
    IF r.p.errors # <<>> \/ r.p.hung \/ r.p.broken
    THEN stage' = "rejected" /\ UNCHANGED tree
    ELSE stage' = "parsed" /\ tree' = r.e
ParseTokens ==
    /\ stage = "scanned"
    /\ Parsed(P!Parse(tokens))
    /\ UNCHANGED <<vars, input, tokens, compiled, marks, steps>>

\* compile drops the tree with its parser.
Compiled(r) ==
    /\ compiled' = r.functions
    /\ stage' = IF r.errors # <<>> \/ r.miscast THEN "rejected" ELSE "compiled"
CompileTree ==
    /\ stage = "parsed"
    /\ Compiled(C!Compile(tree))
    /\ tokens' = <<>>
    /\ tree' = <<>>
    /\ UNCHANGED <<vars, input, marks, steps>>

\* load of a string: the closure is called at once.
RunCompiled ==
    /\ stage = "compiled"
    /\ stage' = "running"
    /\ Start(compiled, Len(compiled))
    /\ marks' = [i \in DOMAIN compiled |-> compiled[i].marks]
    /\ UNCHANGED <<input, tokens, tree, compiled, steps>>

\* The package is written, and loaded by another machine.
RunPackage ==
    LET order == K!Order(compiled) IN
    /\ stage = "compiled"
    /\ stage' = "running"
    /\ Start(K!LoadPackageFromBuffer(K!Pack(compiled)), 1)
    /\ marks' = [i \in DOMAIN order |-> compiled[order[i]].marks]
    /\ UNCHANGED <<input, tokens, tree, compiled, steps>>

Execute ==
    /\ stage = "running"
    /\ steps < MaxSteps
    /\ Next
    /\ steps' = steps + 1
    /\ UNCHANGED <<input, build, stage>>

\* The program is over, or was followed to the bound.
Over ==
    /\ stage = "rejected" \/ (stage = "running" /\ (status # "running" \/ steps = MaxSteps))
    /\ UNCHANGED allVars

LanguageNext ==
    \/ ScanSource \/ ParseTokens \/ CompileTree \/ RunCompiled \/ RunPackage
    \/ Execute \/ Over

LanguageSpec == Init /\ [][LanguageNext]_allVars

-----------------------------------------------------------------------------
(* Properties of the front end.                                            *)

\* The words of a token as ast.c prints them.  Parentheses, braces and
\* semicolons, the keywords var and fun, and any and nil, which are the same
\* in the tree, do not tell two sources apart; an address prints as UNKNOWN.
Unprinted == {"LEFT_PAREN", "RIGHT_PAREN", "LEFT_BRACE", "RIGHT_BRACE",
              "SEMICOLON", "VAR", "FUN", "ANY", "NIL", "EOF"}
WordOf(tok) == CASE tok.t \in {"IDENTIFIER", "THIS"} -> <<"name", tok.x>>
                 [] tok.t = "NUMBER" -> <<"NUMBER", ToString(tok.n)>>
                 [] tok.t = "STRING" -> <<"STRING", tok.x>>
                 [] tok.t = "ADDRESS" -> <<"UNKNOWN", "">>
                 [] OTHER -> <<tok.t, "">>
Significant(words) == SelectSeq(words, LAMBDA w : w[1] \notin Unprinted)

\* A type with an index as the left operand of an operator: parsePrecedence
\* stores the operator over the index.
IndexedOperand ==
    \E i \in DOMAIN tokens :
        /\ tokens[i].t = "RIGHT_SQUARE_BRACKET"
        /\ P!InfixPrec(tokens[i + 1].t) > 1
        /\ \E j \in 1 .. i - 1 :
              /\ tokens[j].t \in P!TypeTokens
              /\ \A k \in j + 2 .. i - 1 :
                    tokens[k].t \notin {"LEFT_SQUARE_BRACKET", "SEMICOLON"}

\* An accepted source, also one with a word missing, is wholly in its tree:
\* what printStmts writes of the tree has every word of the source, in its
\* order (parser.c, ast.c).  No error recovery skips a word silently.
TreeIsSource ==
    stage = "parsed" /\ ~ IndexedOperand =>
        Significant(A!PrintStmts(tree)) =
            Significant([i \in DOMAIN tokens |-> WordOf(tokens[i])])

\* Two lists of functions that differ in their numbering alone: order has the
\* number in f of each function of g.
SameConstant(v, w, order) ==
    CASE w.t = "fun" -> v.t = "fun" /\ v.f = order[w.f]
      [] w.t = "int" -> v.t = "int" /\ v.n = w.n
      [] OTHER -> v = w

\* What a package is loaded as is what was compiled: the same code, arities,
\* upvalues and constants for the function each constant refers to (pack.c,
\* pack_load.c).  An integer constant loses its literal mark.
LoadedIsCompiled ==
    stage = "running" /\ steps = 0 /\ heap[1].fn = 1 /\ Len(compiled) > 1 =>
        LET order == K!Order(compiled) IN
        /\ Len(fns) = Len(compiled)
        /\ \A i \in DOMAIN fns :
              LET f == compiled[order[i]]
                  g == fns[i]
              IN /\ <<f.code, f.arity, f.upvalueCount>> =
                        <<g.code, g.arity, g.upvalueCount>>
                 /\ Len(f.constants) = Len(g.constants)
                 /\ \A k \in DOMAIN g.constants :
                       SameConstant(f.constants[k], g.constants[k], order)

-----------------------------------------------------------------------------
(* Properties of the program that runs.                                    *)

Running == stage = "running" /\ status = "running"

\* At the start of every statement the frame holds the locals that are in
\* scope there and nothing else, whatever jumps, calls and closed upvalues
\* led to it (beginScope, endScope and the slots of compiler.c against the
\* pushes and pops of vm.c).
StackMatchesScopes ==
    Running => \A mark \in Range(marks[heap[Frame.closure].fn]) :
                   mark[1] = Frame.ip => Len(stack) - Frame.base = mark[2]

\* The list of open upvalues has every upvalue that is still on the stack,
\* each at a live slot of its own, highest slot first: captureUpvalue shares
\* by searching it and closeUpvalues stops at the first lower one.
OpenUpvaluesLive ==
    Running =>
        LET at(i) == heap[open[i]].at IN
        /\ Range(open) = {o \in DOMAIN heap : heap[o].k = "upvalue" /\ heap[o].at > 0}
        /\ \A i \in DOMAIN open : at(i) \in 1 .. Len(stack)
        /\ \A i, j \in DOMAIN open : i < j => at(i) > at(j)

Holds(type, v) == type.yt = "any" \/ Initialised(heap, type, v) = <<v>>

\* The leaf on which setPlacedContainerElement has put an array or a struct,
\* by reference, when one was assigned to a whole element of its type that
\* is not placeable (packed_containers.c:467).
Overwritten(leaf, v) ==
    v.t \in {"array", "struct"} /\ Head(Leaves(TypeOf(heap, v))) = leaf

\* Every typed variable, captured or not, and every leaf of a typed array or
\* struct, through any of the views and pointers that share its store, holds
\* a value of its type (value_cell.c, packed_containers.c), but for a leaf
\* that the assignment of a whole container has overwritten.
TypedCellsHold ==
    stage = "running" =>
        /\ \A i \in DOMAIN stack : Holds(stack[i].type, stack[i].v)
        /\ \A x \in DOMAIN globals : Holds(globals[x].type, globals[x].v)
        /\ \A o \in DOMAIN heap :
              CASE heap[o].k = "upvalue" -> Holds(heap[o].cell.type, heap[o].cell.v)
                [] heap[o].k = "container" /\ heap[o].store > 0
                   /\ heap[o].type.yt \in {"array", "struct"} ->
                       LET leaves == Leaves(heap[o].type) IN
                       \A i \in DOMAIN leaves :
                           LET v == heap[heap[o].store].cells[heap[o].at + i]
                           IN  Holds(leaves[i], v) \/ Overwritten(leaves[i], v)
                [] OTHER -> TRUE

\* A whole program ends, and has printed what the language's rules (and the
\* repository's expect tests) say, compiled or loaded from a package.
OutputIsExpected ==
    (cut = 0 /\ program \in DOMAIN Expected) =>
        /\ stage = "rejected" => Expected[program].end = "rejected"
        /\ stage = "running" /\ status # "running" =>
               Expected[program] = [out |-> output, end |-> status]
        /\ steps < MaxSteps

-----------------------------------------------------------------------------
(* Arithmetic.                                                             *)

\* The exact result of an operator on integers: % has the sign of its right
\* operand, / rounds towards zero.
Exact(op, a, b) ==
    CASE op = "ADD" -> a + b
      [] op = "SUBTRACT" -> a - b
      [] op = "MULTIPLY" -> a * b
      [] op = "DIVIDE" -> IF (a < 0) = (b < 0) THEN Magnitude(a) \div Magnitude(b)
                          ELSE -(Magnitude(a) \div Magnitude(b))
      [] op = "MODULO" -> IF b > 0 THEN a % b ELSE -((-a) % -b)

\* Where the code is known to differ: uint64 / goes through int64_t
\* (vm.c:699), a remainder of 0 is "corrected" to the divisor when the signs
\* differ (vm.c:1136), and a negative literal is promoted to uint16
\* (vm.c:602).
KnownSlip(op, a, b) ==
    \/ op = "DIVIDE" /\ a.t = "uint64" /\ (a.n > MaxOf("int64") \/ b.n > MaxOf("int64"))
    \/ op = "MODULO" /\ a.n # 0 /\ (a.n < 0) # (b.n < 0) /\ a.n % Magnitude(b.n) = 0
    \/ "uint16" \in {a.t, b.t} /\ (a.n < 0 \/ b.n < 0)

\* The result of + - * / % on two integers of one type, or on one and a
\* literal, is the exact one, reduced to the width of a type both operands
\* fit and one of them has: a literal that does not fit is never cut to its
\* partner's type (promote, BINARY_OP, OP_ADD and OP_MODULO in vm.c, and
\* the unlimited integers).
ArithmeticExact ==
    [][\A op \in {"ADD", "SUBTRACT", "MULTIPLY", "DIVIDE", "MODULO"} :
        (Running /\ Instruction = op /\ IsNumber(Peek(0)) /\ IsNumber(Peek(1))) =>
            LET a == Peek(1)
                b == Peek(0)
                r == Last(stack').v
            IN status' = "running" /\ ~ KnownSlip(op, a, b) =>
                   /\ r.t \in {a.t, b.t}
                   /\ IF r.t = "int" THEN r.n = Exact(op, a.n, b.n)
                      ELSE /\ \A n \in {a.n, b.n, r.n} : InRange(r.t, n)
                           /\ (r.n - Exact(op, a.n, b.n)) % 2 ^ Bits(r.t) = 0]_allVars
=============================================================================
