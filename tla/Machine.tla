------------------------------ MODULE Machine ------------------------------
(***************************************************************************)
(* The interpreter loop of Yarg (src/cyarg/vm.c run) with the stack, the   *)
(* frames and the upvalues of the routine it runs (src/cyarg/routine.c)    *)
(* and the builtin functions that belong to the language itself            *)
(* (src/cyarg/builtin.c): one action per instruction.                      *)
(*                                                                         *)
(* The routine is core0, the one a script starts in.  A call that leaves   *)
(* it (routines, channels, files, the test system, which have modules of   *)
(* their own), text to number conversion, the arithmetic of floats other   *)
(* than + - * on whole numbers, and memory behind an address end the run   *)
(* with status "outside".                                                  *)
(***************************************************************************)
EXTENDS Values, ByteCode, FiniteSets
LOCAL INSTANCE Bitwise

CONSTANT FRAMES_MAX

ASSUME FramesAssumption == FRAMES_MAX \in Nat \ {0}

VARIABLES
    fns,        \* the functions
    stack,      \* the routine's stack of cells: value and cell type
    frames,     \* the call frames: closure, ip (from 0), base (stackEntryIndex)
    open,       \* openUpvalues: the upvalues that are still on the stack
    heap,       \* the objects
    globals,    \* vm.globals: cells by name
    output,     \* what was printed
    status,     \* running, ok, failed (runtimeError), silent (a builtin's
                \* false), undefined, fatal, outside
    error       \* the runtime error

vars == <<fns, stack, frames, open, heap, globals, output, status, error>>

Cell(v) == [v |-> v, type |-> AnyType]
Push(s, v) == Append(s, Cell(v))
Drop(n) == SubSeq(stack, 1, Len(stack) - n)
Peek(n) == stack[Len(stack) - n].v

\* The functions f, of which the script is number main; it starts with itself
\* in slot 0.
Start(f, main) ==
    /\ fns' = f
    /\ heap' = <<[k |-> "closure", fn |-> main, ups |-> <<>>]>>
    /\ stack' = Push(<<>>, Ref("closure", 1))
    /\ frames' = <<[closure |-> 1, ip |-> 0, base |-> 0]>>
    /\ status' = "running"
    /\ UNCHANGED <<open, globals, output, error>>

Idle ==
    /\ fns = <<>> /\ stack = <<>> /\ frames = <<>> /\ open = <<>>
    /\ heap = <<>> /\ globals = <<>> /\ output = <<>>
    /\ status = "idle" /\ error = ""

-----------------------------------------------------------------------------
(* Fetching an instruction, and what becomes of it.                        *)

Frame == Last(frames)
Function == fns[heap[Frame.closure].fn]
Byte(i) == Function.code[Frame.ip + 1 + i]
Short == 256 * Byte(1) + Byte(2)
Const(i) == Function.constants[Byte(i) + 1]
Instruction == OpCodes[Byte(0) + 1]
At(op) == status = "running" /\ Instruction = op

\* The frames when the instruction of n bytes is done.
Past(n) == [frames EXCEPT ![Len(frames)].ip = @ + n]

\* The instruction of n bytes leaves the stack s and the heap h.
Continue(n, s, h) ==
    /\ stack' = s
    /\ heap' = h
    /\ frames' = Past(n)
    /\ UNCHANGED <<fns, open, globals, output, status, error>>
Go(n, s) == Continue(n, s, heap)

\* runtimeError: the routine is reset.
Fail(report) ==
    /\ status' = "failed"
    /\ error' = report
    /\ stack' = <<>>
    /\ frames' = <<>>
    /\ open' = <<>>
    /\ UNCHANGED <<fns, heap, globals, output>>

Stop(why) ==
    /\ status' = why
    /\ UNCHANGED <<fns, stack, frames, open, heap, globals, output, error>>

-----------------------------------------------------------------------------
(* Constants, variables and cells.                                         *)

Constant == At("CONSTANT") /\ Go(2, Push(stack, Const(1)))

Immediates == "IMMEDIATE_P8" :> <<1, 1>> @@ "IMMEDIATE_P16" :> <<2, 1>>
    @@ "IMMEDIATE_P24" :> <<3, 1>> @@ "IMMEDIATE_N8" :> <<1, -1>>
    @@ "IMMEDIATE_N16" :> <<2, -1>> @@ "IMMEDIATE_N24" :> <<3, -1>>
Immediate ==
    \E op \in DOMAIN Immediates :
        LET size == Immediates[op][1]
            num == Byte(1) + (IF size > 1 THEN 256 * Byte(2) ELSE 0)
                           + (IF size > 2 THEN 65536 * Byte(3) ELSE 0)
        IN At(op) /\ Go(1 + size, Push(stack, LiteralVal(Immediates[op][2] * num)))

PushNil == At("NIL") /\ Go(1, Push(stack, Nil))
PushBool == \/ At("TRUE") /\ Go(1, Push(stack, BoolVal(TRUE)))
            \/ At("FALSE") /\ Go(1, Push(stack, BoolVal(FALSE)))
Pop == At("POP") /\ Go(1, Drop(1))

GetBuiltin == At("GET_BUILTIN") /\
    Continue(2, Push(stack, Ref("builtin", Len(heap) + 1)),
             Alloc(heap, [k |-> "builtin", fn |-> BuiltinFns[Byte(1) + 1]]))

\* frameSlot, as a place in the stack
Slot(i) == Frame.base + i + 1

GetLocal == At("GET_LOCAL") /\ Go(2, Push(stack, stack[Slot(Byte(1))].v))

SetLocal ==
    LET at == Slot(Byte(1))
        stored == Initialised(heap, stack[at].type, Peek(0))
    IN /\ At("SET_LOCAL")
       /\ IF stored = <<>> THEN Fail("local of another type")
          ELSE Go(2, [stack EXCEPT ![at].v = stored[1]])

GetGlobal ==
    /\ At("GET_GLOBAL")
    /\ IF Const(1).s \in DOMAIN globals
       THEN Go(2, Push(stack, globals[Const(1).s].v))
       ELSE Fail("undefined variable")

\* The cell goes to the table with its type.
DefineGlobal ==
    /\ At("DEFINE_GLOBAL")
    /\ globals' = Const(1).s :> Last(stack) @@ globals
    /\ stack' = Drop(1)
    /\ frames' = Past(2)
    /\ UNCHANGED <<fns, open, heap, output, status, error>>

SetGlobal ==
    /\ At("SET_GLOBAL")
    /\ LET name == Const(1).s
           stored == Initialised(heap, globals[name].type, Peek(0))
       IN IF name \notin DOMAIN globals THEN Fail("undefined variable")
          ELSE IF stored = <<>> THEN Fail("global of another type")
          ELSE /\ globals' = [globals EXCEPT ![name].v = stored[1]]
               /\ frames' = Past(2)
               /\ UNCHANGED <<fns, stack, open, heap, output, status, error>>

\* The value on top goes into the cell below it.
Initialise ==
    LET stored == Initialised(heap, stack[Len(stack) - 1].type, Peek(0)) IN
    /\ At("INITIALISE")
    /\ IF stored = <<>> THEN Fail("initialiser of another type")
       ELSE Go(1, [Drop(1) EXCEPT ![Len(stack) - 1].v = stored[1]])

DuplicateTop ==
    LET d == Duplicate(heap, Peek(0)) IN
    At("DUPLICATE") /\ Continue(1, Push(Drop(1), d.v), d.heap)

\* A cell with the type on top, and its default.
SetCellType ==
    LET type == IF Peek(0).t = "nil" THEN AnyType ELSE Peek(0).type
        d == DefaultValue(heap, type)
    IN /\ At("SET_CELL_TYPE")
       /\ Continue(1, Append(Drop(1), [v |-> d.v, type |-> type]), d.heap)

-----------------------------------------------------------------------------
(* Upvalues.  at is the stack slot of an open one, 0 when it is closed.    *)

Upvalue(i) == heap[Frame.closure].ups[i + 1]
UpvalueCell(u) == IF heap[u].at > 0 THEN stack[heap[u].at] ELSE heap[u].cell

GetUpvalue == At("GET_UPVALUE") /\
              Go(2, Push(stack, UpvalueCell(Upvalue(Byte(1))).v))

\* Mutant of SetUpvalue: the type of the variable is not asked for.
SetUpvalueUntyped ==
    LET u == Upvalue(Byte(1)) IN
    /\ At("SET_UPVALUE")
    /\ IF heap[u].at > 0 THEN Go(2, [stack EXCEPT ![heap[u].at].v = Peek(0)])
       ELSE Continue(2, stack, [heap EXCEPT ![u].cell.v = Peek(0)])
SetUpvalue ==
    LET u == Upvalue(Byte(1))
        stored == Initialised(heap, UpvalueCell(u).type, Peek(0))
    IN /\ At("SET_UPVALUE")
       /\ IF stored = <<>> THEN Fail("local of another type")
          ELSE IF heap[u].at > 0
               THEN Go(2, [stack EXCEPT ![heap[u].at].v = stored[1]])
               ELSE Continue(2, stack, [heap EXCEPT ![u].cell.v = stored[1]])

\* Mutant of Capture: a new upvalue goes to the head of the list.
CaptureAtHead(acc, at) ==
    LET same == SelectSeq(acc.open, LAMBDA u : acc.heap[u].at = at)
        new == Len(acc.heap) + 1
    IN IF same # <<>> THEN [acc EXCEPT !.ups = Append(@, same[1])]
       ELSE [heap |-> Alloc(acc.heap, [k |-> "upvalue", at |-> at,
                                       cell |-> Cell(Nil)]),
             open |-> <<new>> \o acc.open,
             ups |-> Append(acc.ups, new)]
\* captureUpvalue: the list is searched from the top of the stack down; acc
\* has the heap, the list and the upvalues captured so far.
Capture(acc, at) ==
    LET above == SelectSeq(acc.open, LAMBDA u : acc.heap[u].at > at)
        n == Len(above)
        new == Len(acc.heap) + 1
        found == n < Len(acc.open) /\ acc.heap[acc.open[n + 1]].at = at
    IN IF found THEN [acc EXCEPT !.ups = Append(@, acc.open[n + 1])]
       ELSE [heap |-> Alloc(acc.heap, [k |-> "upvalue", at |-> at,
                                       cell |-> Cell(Nil)]),
             open |-> above \o <<new>> \o SubSeq(acc.open, n + 1, Len(acc.open)),
             ups |-> Append(acc.ups, new)]

MakeClosure ==
    LET f == Const(1).f
        new == Len(heap) + 1
        n == fns[f].upvalueCount
        start == [heap |-> Alloc(heap, [k |-> "closure", fn |-> f, ups |-> <<>>]),
                  open |-> open, ups |-> <<>>]
        made == FoldLeft(LAMBDA acc, i :
                    IF Byte(2 * i) = 1 THEN Capture(acc, Slot(Byte(2 * i + 1)))
                    ELSE [acc EXCEPT !.ups = Append(@, Upvalue(Byte(2 * i + 1)))],
                    start, [i \in 1 .. n |-> i])
    IN /\ At("CLOSURE")
       /\ stack' = Push(stack, Ref("closure", new))
       /\ heap' = [made.heap EXCEPT ![new].ups = made.ups]
       /\ open' = made.open
       /\ frames' = Past(2 + 2 * n)
       /\ UNCHANGED <<fns, globals, output, status, error>>

\* closeUpvalues: how many of the list are at last or above it
Leading(last) == LET i == SelectInSeq(open, LAMBDA u : heap[u].at < last) IN
                 IF i = 0 THEN Len(open) ELSE i - 1
Closed(last) ==
    FoldLeft(LAMBDA h, u : [h EXCEPT ![u].at = 0, ![u].cell = stack[heap[u].at]],
             heap, SubSeq(open, 1, Leading(last)))
StillOpen(last) == SubSeq(open, Leading(last) + 1, Len(open))

CloseUpvalue ==
    /\ At("CLOSE_UPVALUE")
    /\ stack' = Drop(1)
    /\ heap' = Closed(Len(stack))
    /\ open' = StillOpen(Len(stack))
    /\ frames' = Past(1)
    /\ UNCHANGED <<fns, globals, output, status, error>>

\* op_return: the script's own return ends the run.
Return ==
    LET base == Frame.base IN
    /\ At("RETURN")
    /\ heap' = Closed(base + 1)
    /\ open' = StillOpen(base + 1)
    /\ stack' = Push(SubSeq(stack, 1, base), Peek(0))
    /\ frames' = Front(frames)
    /\ status' = IF Len(frames) = 1 THEN "ok" ELSE status
    /\ UNCHANGED <<fns, globals, output, error>>

YieldFromMain == At("YIELD") /\ Fail("yield from the initial routine")

-----------------------------------------------------------------------------
(* Builtin functions of the language.  Each returns its result: r is "ok"  *)
(* with the value v, "error" with a report, "silent" (false without a      *)
(* runtimeError), or "outside".                                            *)

Ok(h, v) == [r |-> "ok", heap |-> h, v |-> v]
Err(report) == [r |-> "error", report |-> report]
Silent == [r |-> "silent"]
Outside == [r |-> "outside"]

LenBuiltin(argCount) ==
    LET v == Peek(0) IN
    CASE argCount # 1 -> Err("arguments")
      [] argCount = 1 /\ v.t = "string" -> Ok(heap, IntVal(Len(v.s)))
      [] argCount = 1 /\ v.t = "array" -> Ok(heap, IntVal(heap[v.o].type.size))
      [] argCount = 1 /\ v.t = "map" ->
             Ok(heap, IntVal(Cardinality(DOMAIN heap[v.o].entries)))
      [] OTHER -> Err("no length")

New(h, obj, t) == Ok(Alloc(h, obj), Ref(t, Len(h) + 1))

\* new_Builtin: unlimited integers and the types that can be nil are refused
\* without a word.
NewBuiltin(argCount) ==
    LET type == Peek(0).type
        p == NewPointer(heap, type)
        c == NewContainer(heap, type)
        any == NewPointer(heap, AnyType)
    IN CASE argCount = 0 \/ (argCount = 1 /\ Peek(0).t = "nil") -> Ok(any.heap, any.v)
         [] argCount > 1 \/ (argCount = 1 /\ Peek(0).t \notin {"nil", "type"}) ->
                Err("not a type")
         [] OTHER ->
                CASE type.yt \in Fixed \cup {"bool", "double", "struct"} -> Ok(p.heap, p.v)
                  [] type.yt = "array" -> Ok(c.heap, c.v)
                  [] type.yt = "map" -> New(heap, [k |-> "map", type |-> type,
                                                  entries |-> <<>>], "map")
                  [] OTHER -> Silent

\* int8Builtin .. uint64Builtin, intBuiltin; the number of arguments is not
\* looked at.
Convert(t) ==
    LET v == Peek(0) IN
    CASE IsNumber(v) -> IF ConvertsTo(t, v.t, v.n)
                        THEN Ok(heap, NumberVal(t, Converted(t, v.n))) ELSE Silent
      [] v.t = "string" -> Outside
      [] OTHER -> Silent

FloatBuiltin ==
    LET v == Peek(0) IN
    CASE IsNumber(v) \/ v.t = "double" -> Ok(heap, [t |-> "double", n |-> v.n])
      [] v.t = "string" -> Outside
      [] OTHER -> Silent

\* valueToString of the scalars
StringBuiltin ==
    LET v == Peek(0) IN
    CASE IsNumber(v) -> Ok(heap, StringVal(ToString(v.n)))
      [] v.t = "string" -> Ok(heap, v)
      [] v.t = "nil" -> Ok(heap, StringVal("nil"))
      [] v.t = "bool" -> Ok(heap, StringVal(IF v.b THEN "true" ELSE "false"))
      [] OTHER -> Outside

Conversions == "INT8" :> "int8" @@ "UINT8" :> "uint8" @@ "INT16" :> "int16"
    @@ "UINT16" :> "uint16" @@ "INT32" :> "int32" @@ "UINT32" :> "uint32"
    @@ "INT64" :> "int64" @@ "UINT64" :> "uint64" @@ "INT" :> "int"

CallBuiltin(fn, argCount) ==
    CASE fn = "LEN" -> LenBuiltin(argCount)
      [] fn = "NEW" -> NewBuiltin(argCount)
      [] fn \in DOMAIN Conversions -> Convert(Conversions[fn])
      [] fn = "MACHINE_FLOAT64" -> FloatBuiltin
      [] fn = "TYPE_STRING" -> StringBuiltin
      [] OTHER -> Outside

-----------------------------------------------------------------------------
(* Calls.  The instruction has n bytes; s and h are the stack and the heap *)
(* that the call starts from.                                              *)

\* The cell d below the top, overwritten.
Target(s, d, v) == [s EXCEPT ![Len(s) - d] = Cell(v)]

Callfn(n, s, h, closure, argCount) ==
    IF argCount # fns[h[closure].fn].arity THEN Fail("arguments")
    ELSE IF Len(frames) = FRAMES_MAX THEN Fail("stack overflow")
    ELSE /\ frames' = Append(Past(n), [closure |-> closure, ip |-> 0,
                                       base |-> Len(s) - argCount - 1])
         /\ stack' = s
         /\ heap' = h
         /\ UNCHANGED <<fns, open, globals, output, status, error>>

\* The receiver of a bound method, and the instance a class makes, take the
\* callee's slot.
CallValue(n, st, callee, argCount) ==
    CASE callee.t = "bound" ->
             Callfn(n, Target(st, argCount, heap[callee.o].receiver), heap,
                    heap[callee.o].method, argCount)
      [] callee.t = "class" ->
             LET made == New(heap, [k |-> "instance", class |-> callee.o,
                                    fields |-> <<>>], "instance")
                 s == Target(st, argCount, made.v)
                 methods == heap[callee.o].methods
             IN IF "init" \in DOMAIN methods
                THEN Callfn(n, s, made.heap, methods["init"], argCount)
                ELSE IF argCount # 0 THEN Fail("arguments")
                ELSE Continue(n, s, made.heap)
      [] callee.t = "closure" -> Callfn(n, st, heap, callee.o, argCount)
      [] callee.t = "builtin" ->
             LET result == CallBuiltin(heap[callee.o].fn, argCount) IN
             CASE result.r = "ok" ->
                      Continue(n, Push(Drop(argCount + 1), result.v), result.heap)
               [] result.r = "error" -> Fail(result.report)
               [] OTHER -> Stop(result.r)
      [] OTHER -> Fail("not callable")

Call == At("CALL") /\ CallValue(2, stack, Peek(Byte(1)), Byte(1))

InvokeFromClass(n, s, class, name, argCount) ==
    IF name \in DOMAIN heap[class].methods
    THEN Callfn(n, s, heap, heap[class].methods[name], argCount)
    ELSE Fail("undefined property")

\* A field of the instance comes before a method of its class.
Invoke ==
    LET name == Const(1).s
        argCount == Byte(2)
        receiver == Peek(argCount)
        fields == heap[receiver.o].fields
        i == FieldIndex(heap[receiver.o].type, name)
        f == StructField(heap, receiver, i)
    IN /\ At("INVOKE")
       /\ CASE receiver.t = "instance" ->
                   IF name \notin DOMAIN fields
                   THEN InvokeFromClass(3, stack, heap[receiver.o].class, name, argCount)
                   ELSE CallValue(3, Target(stack, argCount, fields[name]),
                                  fields[name], argCount)
            [] receiver.t = "struct" ->
                   IF i = 0 THEN Fail("no such field")
                   ELSE IF f.v.t # "closure" THEN Fail("field is no function")
                   ELSE Callfn(3, stack, f.heap, f.v.o, argCount)
            [] OTHER -> Fail("no methods")

SuperInvoke == At("SUPER_INVOKE") /\
    InvokeFromClass(3, Drop(1), Peek(0).o, Const(1).s, Byte(2))

-----------------------------------------------------------------------------
(* Classes and properties.                                                 *)

Class == At("CLASS") /\
    Continue(2, Push(stack, Ref("class", Len(heap) + 1)),
             Alloc(heap, [k |-> "class", name |-> Const(1).s, methods |-> <<>>]))

Inherit ==
    /\ At("INHERIT")
    /\ IF Peek(1).t # "class" THEN Fail("superclass is no class")
       ELSE Continue(1, Drop(1), [heap EXCEPT ![Peek(0).o].methods =
                                      heap[Peek(1).o].methods @@ @])

Method == At("METHOD") /\
    Continue(2, Drop(1), [heap EXCEPT ![Peek(1).o].methods =
                              Const(1).s :> Peek(0).o @@ @])

\* bindMethod: the receiver is the top of s.
BindMethod(n, s, class, name) ==
    IF name \notin DOMAIN heap[class].methods THEN Fail("undefined property")
    ELSE Continue(n, Push(Front(s), Ref("bound", Len(heap) + 1)),
                  Alloc(heap, [k |-> "bound", receiver |-> Last(s).v,
                               method |-> heap[class].methods[name]]))

GetSuper == At("GET_SUPER") /\ BindMethod(2, Drop(1), Peek(0).o, Const(1).s)

\* Memory behind an address is not the machine's.
Placed(v) == v.t \in {"array", "struct", "pointer"} /\ heap[v.o].store = 0
PointsTo(v, t) == v.t = "pointer" /\ heap[v.o].type.of.yt = t

\* An int knows whether it overflowed; in this model's range it did not.
GetProperty ==
    LET v == Peek(0)
        name == Const(1).s
        type == IF v.t = "struct" THEN heap[v.o].type ELSE heap[v.o].type.of
        i == FieldIndex(type, name)
        got == IF v.t = "struct" THEN StructField(heap, v, i)
               ELSE ElementPointer(heap, v.o, type.fields[i].type, FieldOffset(type, i))
    IN /\ At("GET_PROPERTY")
       /\ CASE v.t = "instance" ->
                   IF name \in DOMAIN heap[v.o].fields
                   THEN Go(2, Push(Drop(1), heap[v.o].fields[name]))
                   ELSE BindMethod(2, stack, heap[v.o].class, name)
            [] v.t = "struct" \/ PointsTo(v, "struct") ->
                   IF i = 0 THEN Fail("no such field")
                   ELSE IF Placed(v) THEN Stop("outside")
                   ELSE Continue(2, Push(Drop(1), got.v), got.heap)
            [] v.t = "int" -> IF name = "overflow"
                              THEN Go(2, Push(Drop(1), BoolVal(FALSE)))
                              ELSE Fail("undefined property")
            [] OTHER -> Fail("no properties")

\* A field of an instance takes the value as it is, a field of a struct is
\* typed.
SetProperty ==
    LET v == Peek(1)
        name == Const(1).s
        type == heap[v.o].type
        i == FieldIndex(type, name)
        set == SetElement(heap, v.o, type.fields[i].type, FieldOffset(type, i), Peek(0))
    IN /\ At("SET_PROPERTY")
       /\ CASE v.t = "instance" ->
                   Continue(2, Push(Drop(2), Peek(0)),
                            [heap EXCEPT ![v.o].fields = name :> Peek(0) @@ @])
            [] v.t = "struct" ->
                   IF i = 0 THEN Fail("no such field")
                   ELSE CASE set.result = "refused" -> Fail("field of another type")
                          [] set.result = "fatal" -> Stop("fatal")
                          [] OTHER -> Continue(2, Push(Drop(2), Peek(0)), set.heap)
            [] OTHER -> Fail("no fields")

-----------------------------------------------------------------------------
(* Operators.                                                              *)

\* promote: a literal takes the type of the other operand, the left one is
\* looked at first.
PromoteTo(v, t) == IF PromotesTo(t, v.n) THEN NumberVal(t, Wrap(t, v.n)) ELSE v
Promoted(a, b) ==
    CASE IsLiteral(a) -> <<PromoteTo(a, b.t), b>>
      [] IsLiteral(b) /\ ~ IsLiteral(a) -> <<a, PromoteTo(b, a.t)>>
      [] OTHER -> <<a, b>>
Operands == Promoted(Peek(1), Peek(0))

Result(v) == Go(1, Push(Drop(2), v))

\* The signed types wrap, as the builds do.
ArithmeticOf(op, a, b) ==
    CASE a.t = b.t /\ a.t \in Fixed ->
             IF DivisionUndefined(op, a.t, a.n, b.n) THEN Stop("undefined")
             ELSE Result(NumberVal(a.t, Arithmetic(op, a.t, a.n, b.n)))
      [] IsInt(a) /\ IsInt(b) ->
             IF op \in {"DIVIDE", "MODULO"} /\ b.n = 0 THEN Stop("undefined")
             ELSE Result(IntVal(IntArithmetic(op, a.n, b.n)))
      [] a.t = "double" /\ b.t = "double" /\ op # "MODULO" ->
             IF op = "DIVIDE" THEN Stop("outside")
             ELSE Result([t |-> "double", n |-> IntArithmetic(op, a.n, b.n)])
      [] OTHER -> Fail("operands")

\* OP_ADD has cases of its own besides the numbers.
Add ==
    LET a == Operands[1]
        b == Operands[2]
    IN /\ At("ADD")
       /\ CASE a.t = "string" /\ b.t = "string" -> Result(StringVal(a.s \o b.s))
            [] a.t = "address" /\ b.t \in {"int32", "uint32"} ->
                   Result([t |-> "address", n |-> a.n + b.n])
            [] a.t = "pointer" /\ IsPositiveInteger(b) -> Stop("outside")
            [] OTHER -> ArithmeticOf("ADD", a, b)

BinaryOp == \E op \in {"SUBTRACT", "MULTIPLY", "DIVIDE", "MODULO"} :
                At(op) /\ ArithmeticOf(op, Operands[1], Operands[2])

\* Two ints are compared before anything is promoted.
Compared(op, a, b) == CASE op = "GREATER" -> a.n > b.n [] op = "LESS" -> a.n < b.n
Compare ==
    LET a == Operands[1]
        b == Operands[2]
        ints == IsInt(Peek(0)) /\ IsInt(Peek(1))
    IN \/ At("EQUAL") /\ Result(BoolVal(IF ints THEN Peek(0).n = Peek(1).n
                                       ELSE ValuesEqual(a, b)))
       \/ \E op \in {"GREATER", "LESS"} :
            /\ At(op)
            /\ IF ints \/ (a.t = b.t /\ a.t \in Fixed \cup {"double"})
               THEN Result(BoolVal(Compared(op, a, b)))
               ELSE Fail("operands")

\* C shifts in a 32-bit type at least; a count of that width is undefined.
Shifts == {"LEFT_SHIFT", "RIGHT_SHIFT"}
ShiftWidth(t) == IF t = "uint64" THEN Bits64 ELSE Bits32
BitResult(op, t, a, b) ==
    Wrap(t, CASE op = "LEFT_SHIFT" -> a * 2 ^ b
              [] op = "RIGHT_SHIFT" -> a \div 2 ^ b
              [] op = "BITAND" -> a & b
              [] op = "BITOR" -> a | b
              [] op = "BITXOR" -> a ^^ b)
BinaryUintOp ==
    LET a == Operands[1]
        b == Operands[2]
    IN \E op \in Shifts \cup {"BITAND", "BITOR", "BITXOR"} :
           /\ At(op)
           /\ IF a.t # b.t \/ a.t \notin Unsigned THEN Fail("operands")
              ELSE IF op \in Shifts /\ b.n >= ShiftWidth(a.t) THEN Stop("undefined")
              ELSE Result(NumberVal(a.t, BitResult(op, a.t, a.n, b.n)))

LogicalNot == At("NOT") /\ Go(1, Push(Drop(1), BoolVal(IsFalsey(Peek(0)))))

Negate ==
    LET v == Peek(0) IN
    /\ At("NEGATE")
    /\ CASE v.t \in Signed -> Go(1, Push(Drop(1), NumberVal(v.t, Wrap(v.t, -v.n))))
         [] v.t = "int" -> Go(1, Push(Drop(1), IntVal(-v.n)))
         [] v.t = "double" -> Go(1, Push(Drop(1), [v EXCEPT !.n = -v.n]))
         [] OTHER -> Fail("operand")

-----------------------------------------------------------------------------
(* Control, output and memory.                                             *)

Jump == At("JUMP") /\ Continue(3 + Short, stack, heap)
JumpIfFalse == At("JUMP_IF_FALSE") /\
               Go(3 + (IF IsFalsey(Peek(0)) THEN Short ELSE 0), stack)
Loop == At("LOOP") /\ Go(3 - Short, stack)

RaiseError == At("ERROR") /\ Fail(IF Peek(0).t = "nil" THEN "nil raised" ELSE "raised")

\* What a printed value shows of itself.
Shown(v) == CASE "n" \in DOMAIN v -> [n |-> v.n]
              [] v.t = "string" -> [s |-> v.s]
              [] v.t = "bool" -> [b |-> v.b]
              [] OTHER -> [a |-> v.t]

Write(text) ==
    /\ output' = Append(output, text)
    /\ frames' = Past(1)
    /\ UNCHANGED <<fns, open, heap, globals, status, error>>

PrintTop == At("PRINT") /\ stack' = Drop(1) /\ Write(Shown(Peek(0)))

\* On a host a poke is printed; the memory itself is the test system's.
Poke ==
    LET location == Peek(0)
        isAddress == location.t = "address" \/ IsLiteral(location)
        address == IF isAddress THEN location.n ELSE heap[location.o].at
    IN /\ At("POKE")
       /\ IF ~ isAddress /\ ~ PointsTo(location, "uint32") THEN Fail("location")
          ELSE IF ~ IsPositiveInteger(Peek(1)) THEN Fail("value")
          ELSE IF ~ isAddress /\ ~ Placed(location) THEN Stop("outside")
          ELSE stack' = Drop(2) /\ Write([poke |-> <<address, Peek(1).n>>])

Place ==
    LET type == [yt |-> "pointer", of |-> Peek(1).type] IN
    /\ At("PLACE")
    /\ IF ~ Placeable(Peek(1).type) THEN Fail("not placeable")
       ELSE IF Peek(0).t # "address" THEN Fail("not an address")
       ELSE Continue(1, Push(Drop(2), Ref("pointer", Len(heap) + 1)),
                     Alloc(heap, Container(0, Peek(0).n, type)))

-----------------------------------------------------------------------------
(* Types and collections.                                                  *)

TypeNames == "BOOL" :> "bool" @@ "MACHINE_FLOAT64" :> "double"
             @@ "TYPE_STRING" :> "string" @@ Conversions
TypeLiteral == At("TYPE_LITERAL") /\
    Go(2, Push(stack, TypeVal(Simple(TypeNames[BuiltinTypes[Byte(1) + 1]]))))

TypeFrom(v) == IF v.t = "type" THEN v.type ELSE AnyType

\* The first field is on top: name, offset, type.  A field with an offset
\* that is no number is counted and never filled in.
TypeStruct ==
    LET n == Byte(1)
        name(i) == Peek(3 * (i - 1)).s
        offset(i) == Peek(3 * (i - 1) + 1)
        fields == [i \in 1 .. n |-> [name |-> name(i),
                                    type |-> TypeFrom(Peek(3 * (i - 1) + 2))]]
    IN /\ At("TYPE_STRUCT")
       /\ IF \E i, j \in 1 .. n : i < j /\ name(i) = name(j) THEN Fail("field twice")
          ELSE IF \E i \in 1 .. n : offset(i).t # "nil" /\ ~ IsPositiveInteger(offset(i))
          THEN Stop("undefined")
          ELSE Go(2, Push(Drop(3 * n), TypeVal([yt |-> "struct", fields |-> fields])))

TypeIndexedCollection ==
    LET index == Peek(0)
        element == TypeFrom(Peek(1))
    IN /\ At("TYPE_INDEXED_COLLECTION")
       /\ CASE index.t \in {"nil", "type"} ->
                   IF SupportedKey(TypeFrom(index))
                   THEN Result(TypeVal([yt |-> "map", of |-> element]))
                   ELSE Fail("map key type")
            [] IsPositiveInteger(index) ->
                   IF index.n = 0 THEN Fail("no elements")
                   ELSE Result(TypeVal([yt |-> "array", of |-> element,
                                        size |-> index.n]))
            [] OTHER -> Fail("array or map")

\* An array gives its element, a pointer to an array a pointer to it.  The
\* index of a struct is not compared with the number of its fields.
Element ==
    LET v == Peek(1)
        i == Peek(0)
        type == IF v.t = "array" THEN heap[v.o].type ELSE heap[v.o].type.of
        got == CASE v.t = "array" -> ArrayElement(heap, v, i.n)
                 [] v.t = "struct" -> StructField(heap, v, i.n + 1)
                 [] OTHER -> ElementPointer(heap, v.o, type.of, ElementOffset(type, i.n))
        take == Continue(1, Push(Drop(2), got.v), got.heap)
    IN /\ At("ELEMENT")
       /\ CASE v.t = "array" \/ PointsTo(v, "array") ->
                   IF ~ IsPositiveInteger(i) THEN Fail("index")
                   ELSE IF i.n >= type.size THEN Fail("out of bounds")
                   ELSE IF Placed(v) THEN Stop("outside") ELSE take
            [] v.t = "map" ->
                   IF i.t # "string" THEN Fail("key")
                   ELSE Result(IF i.s \in DOMAIN heap[v.o].entries
                               THEN heap[v.o].entries[i.s] ELSE Nil)
            [] v.t = "struct" ->
                   IF ~ IsPositiveInteger(i) THEN Fail("index")
                   ELSE IF i.n >= Len(heap[v.o].type.fields) THEN Stop("undefined")
                   ELSE take
            [] OTHER -> Fail("no collection")

\* The collection stays on the stack.
SetElementAt ==
    LET v == Peek(2)
        i == Peek(1)
        type == heap[v.o].type
        set == SetElement(heap, v.o, type.of, ElementOffset(type, i.n), Peek(0))
    IN /\ At("SET_ELEMENT")
       /\ CASE v.t = "map" ->
                   IF i.t # "string" THEN Fail("key")
                   ELSE Continue(1, Drop(2), [heap EXCEPT ![v.o].entries =
                                                  i.s :> Peek(0) @@ @])
            [] v.t = "array" ->
                   IF ~ IsPositiveInteger(i) THEN Fail("index")
                   ELSE IF i.n >= type.size THEN Fail("out of bounds")
                   ELSE CASE set.result = "refused" -> Fail("element of another type")
                          [] set.result = "fatal" -> Stop("fatal")
                          [] OTHER -> Continue(1, Drop(2), set.heap)
            [] OTHER -> Fail("no array")

\* What is dereferenced is taken for a pointer.
DerefPtr ==
    LET got == PointerDestination(heap, Peek(0)) IN
    /\ At("DEREF_PTR")
    /\ IF Peek(0).t # "pointer" THEN Stop("undefined")
       ELSE IF Placed(Peek(0)) THEN Stop("outside")
       ELSE Continue(1, Push(Drop(1), got.v), got.heap)

SetPtrTarget ==
    LET p == Peek(1)
        set == SetElement(heap, p.o, heap[p.o].type.of, 0, Peek(0))
    IN /\ At("SET_PTR_TARGET")
       /\ IF p.t # "pointer" THEN Stop("undefined")
          ELSE IF Placed(p) THEN Stop("outside")
          ELSE CASE set.result = "refused" -> Fail("target of another type")
                 [] set.result = "fatal" -> Stop("fatal")
                 [] OTHER -> Continue(1, Push(Drop(2), Peek(0)), set.heap)

-----------------------------------------------------------------------------
Next ==
    \/ Constant \/ Immediate \/ PushNil \/ PushBool \/ Pop \/ GetBuiltin
    \/ GetLocal \/ SetLocal \/ GetGlobal \/ DefineGlobal \/ SetGlobal
    \/ Initialise \/ DuplicateTop \/ SetCellType
    \/ GetUpvalue \/ SetUpvalue \/ MakeClosure \/ CloseUpvalue \/ Return
    \/ YieldFromMain \/ Call \/ Invoke \/ SuperInvoke
    \/ Class \/ Inherit \/ Method \/ GetSuper \/ GetProperty \/ SetProperty
    \/ Add \/ BinaryOp \/ Compare \/ BinaryUintOp \/ LogicalNot \/ Negate
    \/ Jump \/ JumpIfFalse \/ Loop \/ RaiseError \/ PrintTop \/ Poke \/ Place
    \/ TypeLiteral \/ TypeStruct \/ TypeIndexedCollection
    \/ Element \/ SetElementAt \/ DerefPtr \/ SetPtrTarget
=============================================================================
