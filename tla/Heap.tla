-------------------------------- MODULE Heap --------------------------------
(***************************************************************************)
(* Objects and the garbage collector (memory.c, object.c): an allocation   *)
(* may collect first; the collector marks from the roots, blackens, drops  *)
(* dead strings from the intern table and sweeps the list of all objects.  *)
(* One mutator, the boot routine core0; it builds objects in C variables   *)
(* that the collector cannot see and guards them with temporary roots.     *)
(*                                                                         *)
(* An object is plain (one field: closures, instances, containers), a      *)
(* string, a suspended routine (one stack slot) or an upvalue. A routine's *)
(* steps are the mutator's: SetField stores in its slot, Capture makes the *)
(* closure it yields to core0, Finish is its return. How much              *)
(* memory is in use is left out: any allocation may collect or not.        *)
(* The gray stack is a set, so any order of blackening is covered.         *)
(***************************************************************************)
EXTENDS Integers, Sequences, FiniteSets, SequencesExt

CONSTANTS
    Objs,            \* addresses
    Null, Closed,    \* NULL; no home: the upvalue holds its own value
    StackMax,        \* bound on core0's stack
    TempRootsMax,    \* TEMP_ROOTS_MAX - 1
    Escapes          \* TRUE: closures capture the variables of routines

ASSUME HeapAssumption ==
    /\ Null \notin Objs /\ Closed \notin Objs \cup Nat /\ Objs \cap Nat = {}
    /\ StackMax \in Nat /\ TempRootsMax \in Nat /\ Escapes \in BOOLEAN

VARIABLES
    objects,         \* vm.objects, head first
    kind,            \* "free" or the object's type
    field,           \* the one reference: field, closed value
    home,            \* upvalue: stack position on core0, a routine, or Closed
    stack, temps,    \* core0's stack, vm.tempRoots
    local,           \* the object under construction, in a C variable
    strings,         \* vm.strings, which does not keep its keys alive
    marked, gray,    \* isMarked, vm.grayStack
    pc, want,        \* where the mutator or collector is; kind to allocate
    at               \* sweep's position in the list

mutatorVars == <<field, home, stack, temps, local, want>>
vars == <<objects, kind, strings, marked, gray, pc, at, mutatorVars>>

Kinds == {"plain", "string", "upvalue", "routine"}
Refs == Objs \cup {Null}

TypeOK ==
    /\ objects \in Seq(Objs) /\ kind \in [Objs -> Kinds \cup {"free"}]
    /\ field \in [Objs -> Refs]
    /\ home \in [Objs -> Objs \cup (1 .. StackMax) \cup {Closed}]
    /\ stack \in Seq(Refs) /\ Len(stack) <= StackMax
    /\ temps \in Seq(Objs) /\ Len(temps) <= TempRootsMax
    /\ local \in Refs /\ want \in Kinds
    /\ strings \subseteq Objs /\ marked \subseteq Objs /\ gray \subseteq Objs
    /\ pc \in {"run", "alloc", "take", "trace", "sweep", "fatal"} /\ at \in Nat

Init ==
    /\ objects = <<>> /\ kind = [o \in Objs |-> "free"]
    /\ field = [o \in Objs |-> Null] /\ home = [o \in Objs |-> Closed]
    /\ stack = <<>> /\ temps = <<>> /\ local = Null /\ strings = {}
    /\ marked = {} /\ gray = {} /\ pc = "run" /\ want = "plain" /\ at = 1

-----------------------------------------------------------------------------
(* Allocation. allocateObject zeroes the object and links it; it must not  *)
(* be called while the last object is held by a C variable only.           *)
AllocateCall(k) ==
    /\ pc = "run" /\ local = Null
    /\ want' = k
    /\ pc' = "alloc"
    /\ UNCHANGED <<objects, kind, strings, marked, gray, at, field, home, stack, temps, local>>

AllocateObject(o) ==
    /\ pc \in {"alloc", "take"} /\ kind[o] = "free"
    /\ kind' = [kind EXCEPT ![o] = want]
    /\ field' = [field EXCEPT ![o] = Null]
    /\ home' = [home EXCEPT ![o] = Closed]
    /\ objects' = <<o>> \o objects
    /\ local' = o /\ want' = "plain"
    /\ pc' = "run"
    /\ UNCHANGED <<strings, marked, gray, at, stack, temps>>

OutOfMemory ==   \* fatalVMError
    /\ pc = "take" /\ \A o \in Objs : kind[o] # "free"
    /\ pc' = "fatal"
    /\ UNCHANGED <<objects, kind, strings, marked, gray, at, mutatorVars>>

(* tempRootPush and tempRootPop: an object stays reachable while its parts *)
(* are allocated, then it is linked and goes to the stack.                 *)
MutTempRootPush ==   \* no check of the bound
    /\ pc = "run" /\ local # Null
    /\ temps' = Append(temps, local) /\ local' = Null
    /\ UNCHANGED <<objects, kind, strings, marked, gray, pc, at, field, home, stack, want>>
TempRootPush ==
    /\ pc = "run" /\ local # Null /\ Len(temps) < TempRootsMax
    /\ temps' = Append(temps, local) /\ local' = Null
    /\ UNCHANGED <<objects, kind, strings, marked, gray, pc, at, field, home, stack, want>>
TempRootOverflow ==   \* fatalVMError
    /\ pc = "run" /\ local # Null /\ Len(temps) = TempRootsMax
    /\ pc' = "fatal"
    /\ UNCHANGED <<objects, kind, strings, marked, gray, at, mutatorVars>>
TempRootPop ==
    /\ pc = "run" /\ local = Null /\ temps # <<>>
    /\ local' = Last(temps) /\ temps' = Front(temps)
    /\ UNCHANGED <<objects, kind, strings, marked, gray, pc, at, field, home, stack, want>>
(* A finished part is stored in the object that waits for it, guarded by   *)
(* the last temporary root or already on the stack (OP_CLOSURE).           *)
Owners == ({Last(temps) : x \in Range(temps)} \cup {Last(stack) : x \in Range(stack)}) \ {Null}
LinkPart ==
    /\ pc = "run" /\ local # Null
    /\ \E o \in Owners :
         kind[o] \in {"plain", "routine"} /\ field' = [field EXCEPT ![o] = local]
    /\ local' = Null
    /\ UNCHANGED <<objects, kind, strings, marked, gray, pc, at, home, stack, temps, want>>
(* allocateString enters the guarded string into the intern table.         *)
Intern ==
    /\ pc = "run" /\ temps # <<>> /\ kind[Last(temps)] = "string"
    /\ strings' = strings \cup {Last(temps)}
    /\ UNCHANGED <<objects, kind, marked, gray, pc, at, mutatorVars>>
(* tableFindString hands out an interned string again.                     *)
FindString(o) ==
    /\ pc = "run" /\ local = Null /\ o \in strings
    /\ local' = o
    /\ UNCHANGED <<objects, kind, strings, marked, gray, pc, at, field, home, stack, temps, want>>

-----------------------------------------------------------------------------
(* What running code does to the graph: push, pop, dup, get and set field. *)
Push(x) ==
    /\ Len(stack) < StackMax
    /\ stack' = Append(stack, x)
PushLocal ==
    /\ pc = "run" /\ local # Null /\ Push(local)
    /\ local' = Null
    /\ UNCHANGED <<objects, kind, strings, marked, gray, pc, at, field, home, temps, want>>
Discard ==   \* a local that is an error, or part of an abandoned object
    /\ pc = "run" /\ local # Null /\ local' = Null
    /\ UNCHANGED <<objects, kind, strings, marked, gray, pc, at, field, home, stack, temps, want>>
Running == pc = "run" /\ local = Null
GetField ==
    /\ Running /\ stack # <<>> /\ Last(stack) # Null /\ kind[Last(stack)] = "plain"
    /\ Push(field[Last(stack)])
    /\ UNCHANGED <<objects, kind, strings, marked, gray, pc, at, field, home, temps, local, want>>
SetField ==
    /\ Running /\ Len(stack) > 1 /\ stack[Len(stack) - 1] # Null
    /\ kind[stack[Len(stack) - 1]] \in {"plain", "routine"}
    /\ field' = [field EXCEPT ![stack[Len(stack) - 1]] = Last(stack)]
    /\ UNCHANGED <<objects, kind, strings, marked, gray, pc, at, home, stack, temps, local, want>>

(* Upvalues: captureUpvalue finds or makes the open upvalue of a variable  *)
(* of core0 or of a routine; popping the variable closes it.               *)
OpenAt(h) == {u \in Range(objects) : kind[u] = "upvalue" /\ home[u] = h}
Suspended == {r \in Range(stack) \ {Null} : kind[r] = "routine"}
Captured == (1 .. Len(stack)) \cup (IF Escapes THEN Suspended ELSE {})
Capture(h) ==
    /\ pc = "run" /\ local # Null /\ kind[local] = "upvalue" /\ home[local] = Closed
    /\ h \in Captured /\ OpenAt(h) = {}
    /\ home' = [home EXCEPT ![local] = h]
    /\ UNCHANGED <<objects, kind, strings, marked, gray, pc, at, field, stack, temps, local, want>>
Recapture(h) ==
    /\ Running /\ \E u \in OpenAt(h) : local' = u
    /\ UNCHANGED <<objects, kind, strings, marked, gray, pc, at, field, home, stack, temps, want>>
ValueAt(h) == IF h \in Nat THEN stack[h] ELSE field[h]
MutCloseUpvalues(h, popped) ==   \* leaves the upvalue pointing at the popped slot
    /\ field' = [u \in Objs |-> IF u \in popped THEN Null ELSE field[u]]
    /\ UNCHANGED home
CloseUpvalues(h, popped) ==
    /\ field' = [u \in Objs |-> IF u \in OpenAt(h) THEN ValueAt(h)
                                ELSE IF u \in popped THEN Null ELSE field[u]]
    /\ home' = [u \in Objs |-> IF u \in OpenAt(h) THEN Closed ELSE home[u]]
Pop ==
    /\ Running /\ stack # <<>>
    /\ CloseUpvalues(Len(stack), {})
    /\ stack' = Front(stack)
    /\ UNCHANGED <<objects, kind, strings, marked, gray, pc, at, temps, local, want>>
Finish(r) ==   \* a routine returns
    /\ Running /\ r \in Suspended
    /\ CloseUpvalues(r, {r})
    /\ UNCHANGED <<objects, kind, strings, marked, gray, pc, at, stack, temps, local, want>>

-----------------------------------------------------------------------------
(* The collector, called by vm_allocate. markRoots, then one step for each *)
(* gray object and one for each object of the list.                        *)
Roots == (Range(stack) \cup Range(temps)) \ {Null}
OpenUpvaluesOfCore0 == {u \in Range(objects) : kind[u] = "upvalue" /\ home[u] \in Nat}
MutMarkRoots ==   \* forgets the temporary roots
    /\ pc = "alloc"
    /\ marked' = marked \cup (Range(stack) \ {Null}) \cup OpenUpvaluesOfCore0
    /\ gray' = marked' \ marked
    /\ pc' = "trace"
    /\ UNCHANGED <<objects, kind, strings, at, mutatorVars>>
MarkRoots ==
    /\ pc = "alloc"
    /\ marked' = marked \cup Roots \cup OpenUpvaluesOfCore0
    /\ gray' = marked' \ marked
    /\ pc' = "trace"
    /\ UNCHANGED <<objects, kind, strings, at, mutatorVars>>

(* blackenObject: an upvalue's closed value, not what an open one points   *)
(* at; a routine's stack and its open upvalues.                            *)
Children(o) ==
    CASE kind[o] = "string" -> {}
      [] kind[o] = "routine" -> ({field[o]} \ {Null}) \cup OpenAt(o)
      [] OTHER -> {field[o]} \ {Null}
Blacken(o) ==
    /\ pc = "trace" /\ o \in gray
    /\ marked' = marked \cup Children(o)
    /\ gray' = (gray \ {o}) \cup (Children(o) \ marked)
    /\ UNCHANGED <<objects, kind, strings, pc, at, mutatorVars>>

MutRemoveWhite ==   \* keeps dead strings
    /\ pc = "trace" /\ gray = {}
    /\ pc' = "sweep" /\ at' = 1
    /\ UNCHANGED <<objects, kind, strings, marked, gray, mutatorVars>>
RemoveWhite ==
    /\ pc = "trace" /\ gray = {}
    /\ strings' = strings \cap marked
    /\ pc' = "sweep" /\ at' = 1
    /\ UNCHANGED <<objects, kind, marked, gray, mutatorVars>>

FreeObject(o) ==   \* what freed memory holds is left out
    /\ kind' = [kind EXCEPT ![o] = "free"]
    /\ field' = [field EXCEPT ![o] = Null] /\ home' = [home EXCEPT ![o] = Closed]
MutSweep ==   \* steps over the object after a freed one
    /\ pc = "sweep" /\ at <= Len(objects)
    /\ IF objects[at] \in marked
         THEN marked' = marked \ {objects[at]} /\ at' = at + 1 /\ UNCHANGED <<objects, kind, field, home>>
         ELSE /\ FreeObject(objects[at])
              /\ objects' = RemoveAt(objects, at)
              /\ at' = at + 1 /\ UNCHANGED marked
    /\ UNCHANGED <<strings, gray, pc, stack, temps, local, want>>
Sweep ==
    /\ pc = "sweep" /\ at <= Len(objects)
    /\ IF objects[at] \in marked
         THEN marked' = marked \ {objects[at]} /\ at' = at + 1 /\ UNCHANGED <<objects, kind, field, home>>
         ELSE /\ FreeObject(objects[at])
              /\ objects' = RemoveAt(objects, at)
              /\ UNCHANGED <<marked, at>>
    /\ UNCHANGED <<strings, gray, pc, stack, temps, local, want>>
SweepDone ==
    /\ pc = "sweep" /\ at > Len(objects)
    /\ pc' = "take" /\ at' = 1
    /\ UNCHANGED <<objects, kind, strings, marked, gray, mutatorVars>>

Next ==
    \/ \E k \in Kinds : AllocateCall(k)
    \/ \E o \in Objs : AllocateObject(o) \/ FindString(o) \/ Blacken(o) \/ Finish(o)
    \/ OutOfMemory \/ TempRootOverflow \/ TempRootPush \/ TempRootPop \/ LinkPart \/ Intern
    \/ PushLocal \/ Discard \/ GetField \/ SetField \/ Pop
    \/ \E h \in (1 .. StackMax) \cup Objs : Capture(h) \/ Recapture(h)
    \/ MarkRoots \/ RemoveWhite \/ Sweep \/ SweepDone

Spec == Init /\ [][Next]_vars

-----------------------------------------------------------------------------
(* What an object needs in order to be used: what it refers to and, for an *)
(* open upvalue, the routine whose stack holds the variable.               *)
Needs(o) == Children(o) \cup (IF kind[o] = "upvalue" /\ home[o] \in Objs THEN {home[o]} ELSE {})
ClosedUnder(S, edges) == \A o \in S : edges[o] \subseteq S
Closure(start, edges) ==   \* the least set that holds start and what it leads to
    {o \in Objs : \A S \in SUBSET Objs :
                     start \subseteq S /\ ClosedUnder(S, edges) => o \in S}
AllRoots == Roots \cup OpenUpvaluesOfCore0
InUse == Closure(AllRoots \cup ({local} \ {Null}), [o \in Objs |-> Needs(o)])

(* No object that the program can still use has been freed, so none is     *)
(* handed out twice.                                                       *)
NoDangling == InUse \subseteq Range(objects)

(* The intern table never holds a freed string, although it keeps none     *)
(* alive: comparing a new string with its keys is safe.                    *)
StringsAlive == strings \subseteq Range(objects)

(* An open upvalue of core0 points at a variable that is on the stack, and *)
(* two closures that capture one variable share it.                        *)
UpvaluesAreVariables ==
    \A u \in OpenUpvaluesOfCore0 :
        home[u] <= Len(stack) /\ OpenAt(home[u]) = {u}

(* A collection leaves exactly what can be reached from the roots, and no  *)
(* mark: a mark left behind would stop the next collection's tracing.      *)
GarbageGoes ==
    [][SweepDone => /\ marked = {}
                    /\ Range(objects) = Closure(AllRoots, [o \in Objs |-> Children(o)])]_vars
=============================================================================
