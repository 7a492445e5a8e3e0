------------------------------ MODULE Compiler ------------------------------
(***************************************************************************)
(* The compiler of Yarg (src/cyarg/compiler.c, chunk.c): syntax tree to    *)
(* byte code.                                                              *)
(*                                                                         *)
(* The state is a record c: cs is the stack of compilers, the one for the  *)
(* function being compiled last (current); classes the stack of class      *)
(* compilers, of which hasSuperclass is all there is; functions the        *)
(* finished functions, which constants refer to by number.  Code is a      *)
(* sequence of bytes; byte 0 of the C array is code[1].  Locals and        *)
(* upvalues are numbered from 0, as in the byte code.                      *)
(*                                                                         *)
(* marks records, for the properties, where each statement starts and how  *)
(* many locals its scope has there; the line table is made of the same     *)
(* places.                                                                 *)
(***************************************************************************)
EXTENDS ByteCode, SequencesExt, TLC

UINT8_MAX == 255
UINT16_MAX == 65535
UINT24_MAX == 16777215

-----------------------------------------------------------------------------
(* The stack of compilers, errors and emitted bytes.                       *)

Cur(c) == Last(c.cs)
Chunk(c) == Cur(c).code
With(c, k) == [c EXCEPT !.cs[Len(c.cs)] = k]

\* A step that returns a number i besides the state.
Ret(c, i) == [c |-> c, i |-> i]

Local(name, depth) == [name |-> name, depth |-> depth, isCaptured |-> FALSE]

\* initCompiler: slot 0 is the receiver of a method, and nameless in a
\* function.
InitCompiler(type, name) ==
    [type |-> type, name |-> name, code |-> <<>>, constants |-> <<>>,
     locals |-> <<Local(IF type = "FUNCTION" THEN "" ELSE "this", 0)>>,
     upvalues |-> <<>>, scopeDepth |-> 0, errors |-> <<>>,
     panicMode |-> FALSE, marks |-> <<>>]

CompileError(c, report) ==
    IF Cur(c).panicMode THEN c
    ELSE With(c, [Cur(c) EXCEPT !.panicMode = TRUE,
                                !.errors = Append(@, report)])
ErrorIf(c, condition, report) ==
    IF condition THEN CompileError(c, report) ELSE c

Emit(c, bytes) == [c EXCEPT !.cs[Len(c.cs)].code = @ \o bytes]
EmitOp(c, op) == Emit(c, <<Op[op]>>)
EmitOps(c, op, byte) == Emit(c, <<Op[op], byte>>)

Hi(n) == (n \div 256) % 256
Lo(n) == n % 256

\* The offset counts from behind its own two bytes.
EmitLoop(c, loopStart) ==
    LET offset == Len(Chunk(c)) + 1 - loopStart + 2 IN
    Emit(ErrorIf(EmitOp(c, "LOOP"), offset > UINT16_MAX, "loop too large"),
         <<Hi(offset), Lo(offset)>>)

EmitJump(c, op) == LET e == Emit(c, <<Op[op], 255, 255>>) IN
                   Ret(e, Len(Chunk(e)) - 2)

PatchJump(c, offset) ==
    LET jump == Len(Chunk(c)) - offset - 2
        e == ErrorIf(c, jump > UINT16_MAX, "jump too large")
    IN With(e, [Cur(e) EXCEPT !.code[offset + 1] = Hi(jump),
                              !.code[offset + 2] = Lo(jump)])

\* makeConstant, addConstant: an equal constant is used again.  No two
\* function objects are equal.
MakeConstant(c, v) ==
    LET ks == Cur(c).constants
        same == {i \in DOMAIN ks : ks[i] = v}
        at == IF same # {} THEN (CHOOSE i \in same : TRUE) - 1 ELSE Len(ks)
        e == IF same # {} THEN c
             ELSE With(c, [Cur(c) EXCEPT !.constants = Append(@, v)])
    IN IF at > UINT8_MAX THEN Ret(CompileError(e, "too many constants"), 0)
       ELSE Ret(e, at)

StringConst(s) == [t |-> "string", s |-> s]
IdentifierConstant(c, name) == MakeConstant(c, StringConst(name))

EmitConstant(c, v) == LET r == MakeConstant(c, v) IN
                      EmitOps(r.c, "CONSTANT", r.i)

\* The magnitude goes in the fewest bytes that hold it, lowest first.
EmitImmediateConstant(c, v) ==
    LET m == IF v < 0 THEN -v ELSE v
        bytes == CASE m <= UINT8_MAX -> <<m>>
                   [] m > UINT8_MAX /\ m <= UINT16_MAX -> <<Lo(m), m \div 256>>
                   [] OTHER -> <<Lo(m), Hi(m), m \div 65536>>
        op == CASE Len(bytes) = 1 -> <<"IMMEDIATE_N8", "IMMEDIATE_P8">>
                [] Len(bytes) = 2 -> <<"IMMEDIATE_N16", "IMMEDIATE_P16">>
                [] OTHER -> <<"IMMEDIATE_N24", "IMMEDIATE_P24">>
    IN Emit(c, <<Op[IF v < 0 THEN op[1] ELSE op[2]]>> \o bytes)

EmitInt(c, n) ==
    IF n \in -UINT24_MAX .. UINT24_MAX THEN EmitImmediateConstant(c, n)
    ELSE EmitConstant(c, [t |-> "int", n |-> n, lit |-> TRUE])

EmitReturn(c) ==
    EmitOp(IF Cur(c).type = "INITIALIZER" THEN EmitOps(c, "GET_LOCAL", 0)
           ELSE EmitOp(c, "NIL"), "RETURN")

-----------------------------------------------------------------------------
(* Scopes and variables.                                                   *)

\* resolveLocal in the l-th compiler: the innermost local of that name, -1
\* if there is none.
ResolveLocal(c, l, name) ==
    LET named == {i \in DOMAIN c.cs[l].locals : c.cs[l].locals[i].name = name}
        i == IF named = {} THEN 0 ELSE CHOOSE i \in named : \A j \in named : j <= i
    IN Ret(ErrorIf(c, i # 0 /\ c.cs[l].locals[i].depth = -1,
                   "read in its own initialiser"), i - 1)

AddLocal(c, name) ==
    IF Len(Cur(c).locals) = UINT8_MAX + 1 THEN CompileError(c, "too many locals")
    ELSE With(c, [Cur(c) EXCEPT !.locals = Append(@, Local(name, -1))])

AddUpvalue(c, l, index, isLocal) ==
    LET ups == c.cs[l].upvalues
        up == [index |-> index, isLocal |-> isLocal]
        same == {i \in DOMAIN ups : ups[i] = up}
    IN IF same # {} THEN Ret(c, (CHOOSE i \in same : TRUE) - 1)
       ELSE IF Len(ups) = UINT8_MAX + 1
            THEN Ret(CompileError(c, "too many upvalues"), 0)
            ELSE Ret([c EXCEPT !.cs[l].upvalues = Append(@, up)], Len(ups))

RECURSIVE ResolveUpvalue(_, _, _)
ResolveUpvalue(c, l, name) ==
    IF l = 1 THEN Ret(c, -1)
    ELSE LET local == ResolveLocal(c, l - 1, name)
             up == ResolveUpvalue(local.c, l - 1, name)
         IN CASE local.i # -1 ->
                    AddUpvalue([local.c EXCEPT
                        !.cs[l - 1].locals[local.i + 1].isCaptured = TRUE],
                        l, local.i, TRUE)
              [] local.i = -1 /\ up.i # -1 -> AddUpvalue(up.c, l, up.i, FALSE)
              [] OTHER -> up

\* Where a name is found, first match: the kind of its instructions and
\* their operand.
Resolve(c, name) ==
    LET local == ResolveLocal(c, Len(c.cs), name)
        up == ResolveUpvalue(local.c, Len(c.cs), name)
        global == IdentifierConstant(up.c, name)
    IN CASE local.i # -1 -> [r |-> local, kind |-> "LOCAL"]
         [] local.i = -1 /\ up.i # -1 -> [r |-> up, kind |-> "UPVALUE"]
         [] OTHER -> [r |-> global, kind |-> "GLOBAL"]

GetOp(kind) == CASE kind = "LOCAL" -> "GET_LOCAL" [] kind = "UPVALUE" -> "GET_UPVALUE"
                 [] OTHER -> "GET_GLOBAL"
SetOp(kind) == CASE kind = "LOCAL" -> "SET_LOCAL" [] kind = "UPVALUE" -> "SET_UPVALUE"
                 [] OTHER -> "SET_GLOBAL"

GetNamedVariable(c, name) == LET v == Resolve(c, name) IN
                             EmitOps(v.r.c, GetOp(v.kind), v.r.i)

\* The locals of the innermost scope, an uninitialised one included.
InScope(k) == {i \in DOMAIN k.locals :
                  \A j \in i .. Len(k.locals) :
                      k.locals[j].depth = -1 \/ k.locals[j].depth >= k.scopeDepth}

DeclareVariable(c, name) ==
    CASE Cur(c).scopeDepth = 0 -> c
      [] Cur(c).scopeDepth > 0
         /\ \E i \in InScope(Cur(c)) : Cur(c).locals[i].name = name ->
             CompileError(c, "already a variable")
      [] OTHER -> AddLocal(c, name)

ParseVariable(c, name) ==
    LET d == DeclareVariable(c, name) IN
    IF Cur(d).scopeDepth > 0 THEN Ret(d, 0) ELSE IdentifierConstant(d, name)

MarkInitialized(c) ==
    IF Cur(c).scopeDepth = 0 THEN c
    ELSE With(c, [Cur(c) EXCEPT
                     !.locals[Len(Cur(c).locals)].depth = Cur(c).scopeDepth])

DefineVariable(c, global) ==
    IF Cur(c).scopeDepth > 0 THEN MarkInitialized(c)
    ELSE EmitOps(c, "DEFINE_GLOBAL", global)

BeginScope(c) == With(c, [Cur(c) EXCEPT !.scopeDepth = @ + 1])

RECURSIVE DropLocals(_)
DropLocals(c) ==
    LET k == Cur(c)
        local == Last(k.locals)
    IN IF k.locals # <<>> /\ local.depth > k.scopeDepth
       THEN DropLocals([EmitOp(c, IF local.isCaptured THEN "CLOSE_UPVALUE"
                                  ELSE "POP")
                        EXCEPT !.cs[Len(c.cs)].locals = Front(@)])
       ELSE c
EndScope(c) == DropLocals(With(c, [Cur(c) EXCEPT !.scopeDepth = @ - 1]))

-----------------------------------------------------------------------------
(* Expressions: a chain of elements, each of which finds the value of the  *)
(* ones before it on the stack.                                            *)

\* What is compiled inside another thing: the elements of an expression, or
\* statements.
RECURSIVE Gen(_, _, _), GenerateItems(_, _, _)
GenerateExpr(c, e) == Gen("expr", c, e)
Generate(c, stmts) == Gen("stmts", c, stmts)

GenerateNumber(c, x) == IF x.form = "float"
                        THEN EmitConstant(c, [t |-> "double", n |-> x.n])
                        ELSE EmitInt(c, x.n)

\* and: the left value stays when it is false.
GenerateAnd(c, rhs) ==
    LET end == EmitJump(c, "JUMP_IF_FALSE") IN
    PatchJump(GenerateExpr(EmitOp(end.c, "POP"), rhs), end.i)

GenerateOr(c, rhs) ==
    LET else == EmitJump(c, "JUMP_IF_FALSE")
        end == EmitJump(else.c, "JUMP")
        e == GenerateExpr(EmitOp(PatchJump(end.c, else.i), "POP"), rhs)
    IN PatchJump(e, end.i)

\* generateExprAssignable: *p, or *p = value
GenerateDerefPtr(c, x) ==
    LET e == GenerateExpr(c, x.rhs) IN
    IF x.assign = <<>> THEN EmitOp(e, "DEREF_PTR")
    ELSE EmitOp(GenerateExpr(e, x.assign), "SET_PTR_TARGET")

ArithOps == [EQUAL_EQUAL |-> <<"EQUAL">>, GREATER |-> <<"GREATER">>,
    RIGHT_SHIFT |-> <<"RIGHT_SHIFT">>, LESS |-> <<"LESS">>,
    LEFT_SHIFT |-> <<"LEFT_SHIFT">>, PLUS |-> <<"ADD">>,
    MINUS |-> <<"SUBTRACT">>, STAR |-> <<"MULTIPLY">>, SLASH |-> <<"DIVIDE">>,
    BAR |-> <<"BITOR">>, AMP |-> <<"BITAND">>, CARET |-> <<"BITXOR">>,
    PERCENT |-> <<"MODULO">>, BANG_EQUAL |-> <<"EQUAL", "NOT">>,
    GREATER_EQUAL |-> <<"LESS", "NOT">>, LESS_EQUAL |-> <<"GREATER", "NOT">>,
    NOT |-> <<"NOT">>, NEGATE |-> <<"NEGATE">>]

GenerateOperation(c, x) ==
    CASE x.op = "AND" -> GenerateAnd(c, x.rhs)
      [] x.op = "OR" -> GenerateOr(c, x.rhs)
      [] x.op = "DEREF_PTR" -> GenerateDerefPtr(c, x)
      [] OTHER -> Emit(GenerateExpr(c, x.rhs),
                       [i \in DOMAIN ArithOps[x.op] |-> Op[ArithOps[x.op][i]]])

\* The variable is resolved before the value is compiled.
GenerateNamedVariable(c, x) ==
    LET v == Resolve(c, x.name) IN
    CASE x.name = "this" /\ c.classes = <<>> -> CompileError(c, "this outside a class")
      [] x.assign # <<>> /\ ~(x.name = "this" /\ c.classes = <<>>) ->
             EmitOps(EmitOp(GenerateExpr(v.r.c, x.assign), "DUPLICATE"),
                     SetOp(v.kind), v.r.i)
      [] OTHER -> EmitOps(v.r.c, GetOp(v.kind), v.r.i)

\* Arguments are passed by value: a struct is copied.
GenerateCallExprs(c, args) ==
    FoldLeft(LAMBDA d, e : EmitOp(GenerateExpr(d, e), "DUPLICATE"), c, args)

\* [a, b] and [key: value]: a new array or map, then its elements.
GenerateItems(c, items, i) ==
    IF i > Len(items) THEN c
    ELSE LET key == IF items[i].isPair THEN GenerateExpr(c, items[i].a)
                    ELSE EmitInt(c, i - 1)
             value == IF items[i].isPair THEN items[i].b ELSE items[i].a
         IN GenerateItems(EmitOp(GenerateExpr(key, value), "SET_ELEMENT"),
                          items, i + 1)
GenerateCollectionInit(c, x) ==
    LET new == EmitOp(EmitOps(c, "GET_BUILTIN", BuiltinFn["NEW"]), "NIL")
        index == IF x.isMap
                 THEN EmitOps(new, "TYPE_LITERAL", BuiltinType["TYPE_STRING"])
                 ELSE EmitInt(new, Len(x.items))
    IN GenerateItems(EmitOps(EmitOp(index, "TYPE_INDEXED_COLLECTION"), "CALL", 1),
                     x.items, 1)

GenerateElement(c, x) ==
    LET e == GenerateExpr(c, x.element) IN
    IF x.assign = <<>> THEN EmitOp(e, "ELEMENT")
    ELSE EmitOp(GenerateExpr(e, x.assign), "SET_ELEMENT")

GenerateDot(c, x) ==
    LET name == IdentifierConstant(c, x.name) IN
    CASE x.assign # <<>> ->
             EmitOps(GenerateExpr(name.c, x.assign), "SET_PROPERTY", name.i)
      [] x.assign = <<>> /\ x.call # <<>> ->
             Emit(GenerateCallExprs(name.c, x.call[1]),
                  <<Op["INVOKE"], name.i, Len(x.call[1])>>)
      [] OTHER -> EmitOps(name.c, "GET_PROPERTY", name.i)

GenerateSuper(c, x) ==
    LET e == IF c.classes = <<>> THEN CompileError(c, "super outside a class")
             ELSE ErrorIf(c, ~ Last(c.classes), "super without superclass")
        name == IdentifierConstant(e, x.name)
        this == GetNamedVariable(name.c, "this")
    IN IF x.call = <<>>
       THEN EmitOps(GetNamedVariable(this, "super"), "GET_SUPER", name.i)
       ELSE Emit(GetNamedVariable(GenerateCallExprs(this, x.call[1]), "super"),
                 <<Op["SUPER_INVOKE"], name.i, Len(x.call[1])>>)

\* The last field first; a field is a statement of its own, its type, offset
\* and name are left on the stack.
GenerateField(c, f) ==
    LET s == With(c, [Cur(c) EXCEPT !.panicMode = FALSE]) IN
    EmitConstant(GenerateExpr(GenerateExpr(s, f.type), f.offset),
                 StringConst(f.name))
GenerateStruct(c, fields) ==
    LET e == FoldRight(LAMBDA f, d : GenerateField(d, f), fields, c) IN
    EmitOps(ErrorIf(e, Len(fields) > UINT8_MAX, "too many fields"),
            "TYPE_STRUCT", Len(fields) % 256)

\* After a cast that went wrong nothing can be said of the rest.
GenerateElt(c, x) ==
    CASE c.miscast -> c
      [] x.k = "number" -> GenerateNumber(c, x)
      [] x.k = "string" -> EmitConstant(c, StringConst(x.str))
      [] x.k = "address" -> EmitConstant(c, [t |-> "address", n |-> x.n])
      [] x.k = "literal" -> EmitOp(c, x.literal)
      [] x.k = "op" -> GenerateOperation(c, x)
      [] x.k = "grouping" -> GenerateExpr(c, x.expr)
      [] x.k = "var" -> GenerateNamedVariable(c, x)
      [] x.k = "call" -> EmitOps(GenerateCallExprs(c, x.args), "CALL", Len(x.args))
      [] x.k = "init" -> GenerateCollectionInit(c, x)
      [] x.k = "element" -> GenerateElement(c, x)
      [] x.k = "builtin" -> EmitOps(c, "GET_BUILTIN", BuiltinFn[x.builtin])
      [] x.k = "dot" -> GenerateDot(c, x)
      [] x.k = "super" -> GenerateSuper(c, x)
      [] x.k = "type" -> EmitOps(c, "TYPE_LITERAL", BuiltinType[x.type])
      [] x.k = "struct" -> GenerateStruct(c, x.fields)
      [] x.k = "collection" ->
             EmitOp(GenerateExpr(ErrorIf(c, x.indexing = <<>>, "no index"),
                                 x.indexing), "TYPE_INDEXED_COLLECTION")

-----------------------------------------------------------------------------
(* Statements.                                                             *)

GeneratePoke(c, s) ==
    LET at == GenerateExpr(GenerateExpr(c, s.value), s.location) IN
    EmitOp(IF s.offset = <<>> THEN at
           ELSE EmitOp(GenerateExpr(at, s.offset), "ADD"), "POKE")

\* The cell is on the stack, with its type and default, before the
\* initialiser runs.
GenerateVarDeclaration(c, s) ==
    LET global == ParseVariable(c, s.name)
        type == IF s.type = <<>> THEN EmitOp(global.c, "NIL")
                ELSE GenerateExpr(global.c, s.type)
        cell == EmitOp(type, "SET_CELL_TYPE")
        init == IF s.init = <<>> THEN cell
                ELSE EmitOp(EmitOp(GenerateExpr(cell, s.init), "DUPLICATE"),
                            "INITIALISE")
    IN DefineVariable(init, global.i)

GeneratePlaceDeclaration(c, s) ==
    FoldLeft(LAMBDA d, a :
                 LET at == GenerateExpr(GenerateExpr(d, s.type), a.location)
                     global == ParseVariable(EmitOp(at, "PLACE"), a.name)
                 IN DefineVariable(global.c, global.i),
             c, s.aliases)

\* Mutant of GenerateIf: the condition stays when it is false.
GenerateIfUnpopped(c, s) ==
    LET then == EmitJump(GenerateExpr(c, s.test), "JUMP_IF_FALSE")
        else == EmitJump(Generate(EmitOp(then.c, "POP"), s.then), "JUMP")
    IN PatchJump(Generate(PatchJump(else.c, then.i), s.else), else.i)
GenerateIf(c, s) ==
    LET then == EmitJump(GenerateExpr(c, s.test), "JUMP_IF_FALSE")
        else == EmitJump(Generate(EmitOp(then.c, "POP"), s.then), "JUMP")
        e == EmitOp(PatchJump(else.c, then.i), "POP")
    IN PatchJump(Generate(e, s.else), else.i)

GenerateWhile(c, s) ==
    LET loopStart == Len(Chunk(c))
        exit == EmitJump(GenerateExpr(c, s.test), "JUMP_IF_FALSE")
        body == Generate(EmitOp(exit.c, "POP"), s.body)
    IN EmitOp(PatchJump(EmitLoop(body, loopStart), exit.i), "POP")

\* The loop expression is compiled before the body, jumped over on the way
\* in and looped back to from the body's end.
GenerateFor(c, s) ==
    LET init == Generate(BeginScope(c), s.init)
        loopStart == Len(Chunk(init))
        exit == EmitJump(GenerateExpr(init, s.cond), "JUMP_IF_FALSE")
        cond == IF s.cond = <<>> THEN init ELSE EmitOp(exit.c, "POP")
        over == EmitJump(cond, "JUMP")
        incrementStart == Len(Chunk(over.c))
        step == EmitLoop(EmitOp(GenerateExpr(over.c, s.loop), "POP"), loopStart)
        body == IF s.loop = <<>> THEN EmitLoop(Generate(cond, s.body), loopStart)
                ELSE EmitLoop(Generate(PatchJump(step, over.i), s.body),
                              incrementStart)
    IN EndScope(IF s.cond = <<>> THEN body
                ELSE EmitOp(PatchJump(body, exit.i), "POP"))

\* endCompiler: the function is finished, its errors go to the compiler
\* around it.
EndCompiler(c) ==
    LET k == Cur(EmitReturn(c))
        f == [name |-> k.name, arity |-> 0, upvalueCount |-> Len(k.upvalues),
              code |-> k.code, constants |-> k.constants, marks |-> k.marks]
        rest == Front(c.cs)
    IN [c EXCEPT !.functions = Append(@, f),
                 !.cs = IF rest = <<>> THEN rest
                        ELSE [rest EXCEPT ![Len(rest)].errors = @ \o k.errors]]

\* A parameter is cast to a named variable without a look at what it is.
GenerateFunction(c, type, s) ==
    LET start == BeginScope([c EXCEPT !.cs = Append(@, InitCompiler(type, s.name)),
                     !.miscast = @ \/ \E i \in DOMAIN s.params :
                         s.params[i] = <<>> \/ s.params[i][1].k # "var"])
        params == FoldLeft(LAMBDA d, e :
                      LET r == ParseVariable(d, IF e # <<>> /\ e[1].k = "var"
                                                THEN e[1].name ELSE "?")
                      IN DefineVariable(r.c, r.i), start, s.params)
        body == Generate(params, s.body)
        ups == Cur(body).upvalues
        ended == EndCompiler(body)
        n == Len(ended.functions)
        f == MakeConstant([ended EXCEPT !.functions[n].arity = Len(s.params)],
                          [t |-> "fun", f |-> n])
    IN Emit(EmitOps(f.c, "CLOSURE", f.i),
            FlattenSeq([i \in DOMAIN ups |->
                <<IF ups[i].isLocal THEN 1 ELSE 0, ups[i].index>>]))

GenerateFunDeclaration(c, s) ==
    LET global == ParseVariable(c, s.name) IN
    DefineVariable(GenerateFunction(MarkInitialized(global.c), "FUNCTION", s),
                   global.i)

GenerateYield(c, s) ==
    LET k == Cur(c).type
        e == ErrorIf(c, k = "SCRIPT", "yield at top level")
    IN IF s.expr = <<>> THEN Emit(e, <<Op["NIL"], Op["YIELD"]>>)
       ELSE EmitOp(GenerateExpr(ErrorIf(e, k = "INITIALIZER", "yield in initialiser"),
                                s.expr), "YIELD")

GenerateReturn(c, s) ==
    LET k == Cur(c).type
        e == ErrorIf(c, k = "SCRIPT", "return at top level")
    IN IF s.expr = <<>> THEN EmitReturn(e)
       ELSE EmitOp(GenerateExpr(ErrorIf(e, k = "INITIALIZER", "return in initialiser"),
                                s.expr), "RETURN")

GenerateMethod(c, s) ==
    LET name == IdentifierConstant(c, s.name)
        type == IF s.name = "init" THEN "INITIALIZER" ELSE "METHOD"
    IN EmitOps(GenerateFunction(name.c, type, s), "METHOD", name.i)

\* The superclass is the local "super" of a scope around the methods.
GenerateSuperclass(c, s) ==
    LET super == AddLocal(BeginScope(GetNamedVariable(c, s.super[1].name)), "super")
    IN [EmitOp(GetNamedVariable(DefineVariable(super, 0), s.name), "INHERIT")
        EXCEPT !.classes[Len(c.classes)] = TRUE]
GenerateMethods(c, s) ==
    EmitOp(FoldLeft(GenerateMethod, GetNamedVariable(c, s.name), s.methods), "POP")
LeaveClass(c) == [c EXCEPT !.classes = Front(@)]
GenerateClassBody(c, s) ==
    LeaveClass(IF s.super = <<>> THEN GenerateMethods(c, s)
               ELSE EndScope(GenerateMethods(GenerateSuperclass(c, s), s)))
GenerateClass(c, s) ==
    LET name == IdentifierConstant(c, s.name)
        class == DefineVariable(EmitOps(DeclareVariable(name.c, s.name),
                                        "CLASS", name.i), name.i)
    IN GenerateClassBody([class EXCEPT !.classes = Append(@, FALSE)], s)

GenerateStmt(c, s) ==
    LET d == With(c, [Cur(c) EXCEPT !.panicMode = FALSE,
                 !.marks = Append(@, <<Len(Chunk(c)), Len(Cur(c).locals)>>)])
    IN CASE c.miscast -> c
         [] s.k = "expression" -> EmitOp(GenerateExpr(d, s.expr), "POP")
         [] s.k = "print" -> EmitOp(GenerateExpr(d, s.expr), "PRINT")
         [] s.k = "error" -> EmitOp(GenerateExpr(d, s.expr), "ERROR")
         [] s.k = "poke" -> GeneratePoke(d, s)
         [] s.k = "vardecl" -> GenerateVarDeclaration(d, s)
         [] s.k = "place" -> GeneratePlaceDeclaration(d, s)
         [] s.k = "block" -> EndScope(Generate(BeginScope(d), s.stmts))
         [] s.k = "if" -> GenerateIf(d, s)
         [] s.k = "fun" -> GenerateFunDeclaration(d, s)
         [] s.k = "while" -> GenerateWhile(d, s)
         [] s.k = "yield" -> GenerateYield(d, s)
         [] s.k = "return" -> GenerateReturn(d, s)
         [] s.k = "for" -> GenerateFor(d, s)
         [] s.k = "class" -> GenerateClass(d, s)

Gen(kind, c, list) == IF kind = "expr" THEN FoldLeft(GenerateElt, c, list)
                      ELSE FoldLeft(GenerateStmt, c, list)

\* compile, for a source without parse errors: the errors, or the functions,
\* of which the script is the last.
Compiled(c) ==
    [errors |-> Cur(c).errors, miscast |-> c.miscast,
     functions |-> IF Cur(c).errors = <<>> THEN EndCompiler(c).functions ELSE <<>>]
Compile(stmts) ==
    Compiled(Generate([cs |-> <<InitCompiler("SCRIPT", "")>>, classes |-> <<>>,
                       functions |-> <<>>, miscast |-> FALSE], stmts))
=============================================================================
