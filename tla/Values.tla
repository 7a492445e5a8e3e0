------------------------------- MODULE Values -------------------------------
(***************************************************************************)
(* Values, types and typed storage of Yarg: src/cyarg/value.c,             *)
(* value_cell.c, yargtype.c and packed_containers.c.                       *)
(*                                                                         *)
(* A value is a record: t names its type; n is a number's value, lit marks *)
(* an int as a literal that takes the type of what it meets; s is a        *)
(* string's text; type is the type a type value stands for; o is the heap  *)
(* object behind any other value.                                          *)
(*                                                                         *)
(* A type is a record with field yt; "any" is the NULL type.  Types are    *)
(* compared by structure.                                                  *)
(*                                                                         *)
(* Arrays, structs and pointers are containers: a place in a packed store. *)
(* A store is a sequence of leaf values, one for each scalar its type has; *)
(* bytes and padding are left out.                                         *)
(***************************************************************************)
EXTENDS Numbers, Sequences, SequencesExt, TLC

AnyType == [yt |-> "any"]
Simple(t) == [yt |-> t]

Nil == [t |-> "nil"]
BoolVal(b) == [t |-> "bool", b |-> b]
IntVal(n) == [t |-> "int", n |-> n, lit |-> FALSE]
LiteralVal(n) == [t |-> "int", n |-> n, lit |-> TRUE]
NumberVal(t, n) == IF t = "int" THEN IntVal(n) ELSE [t |-> t, n |-> n]
StringVal(s) == [t |-> "string", s |-> s]
TypeVal(type) == [t |-> "type", type |-> type]
Ref(t, o) == [t |-> t, o |-> o]

IsInt(v) == v.t = "int"
IsNumber(v) == v.t \in Fixed \cup {"int"}
IsLiteral(v) == IsInt(v) /\ v.lit
NoLongerLiteral(v) == IF IsInt(v) THEN [v EXCEPT !.lit = FALSE] ELSE v
IsFalsey(v) == v.t = "nil" \/ (v.t = "bool" /\ ~ v.b)
IsPositiveInteger(v) == IsNumber(v) /\ IsPositive(v.t, v.n)

\* The type of a value that is not nil (concrete_typeof).
FunctionTags == {"closure", "bound", "builtin"}
TypeOf(heap, v) ==
    CASE v.t \in {"array", "struct", "pointer", "map"} -> heap[v.o].type
      [] v.t \in FunctionTags -> Simple("function")
      [] OTHER -> Simple(v.t)

-----------------------------------------------------------------------------
(* Types.                                                                  *)

RECURSIVE TypesEqual(_, _), Leaves(_), Placeable(_)

\* typesEqual: the names of a struct's fields and the parts of a map do not
\* count.
TypesEqual(a, b) ==
    /\ a.yt = b.yt
    /\ CASE a.yt = "pointer" -> TypesEqual(a.of, b.of)
         [] a.yt = "array" -> TypesEqual(a.of, b.of) /\ a.size = b.size
         [] a.yt = "struct" ->
                /\ Len(a.fields) = Len(b.fields)
                /\ \A i \in DOMAIN a.fields :
                       TypesEqual(a.fields[i].type, b.fields[i].type)
         [] OTHER -> TRUE

\* is_nil_assignable_type
NilAssignable(type) ==
    type.yt \notin Fixed \cup {"bool", "int", "double", "struct", "address"}

\* is_placeable_type: has a layout in memory that the machine knows.
Placeable(type) ==
    CASE type.yt = "array" -> Placeable(type.of)
      [] type.yt = "struct" -> \A i \in DOMAIN type.fields :
                                   Placeable(type.fields[i].type)
      [] OTHER -> type.yt \in Fixed \cup {"double"}

\* is_packable_container_type
Packable(type) == type.yt \in {"array", "struct", "pointer"}

\* yt_flatten_types: the scalars of a type, in order.
Leaves(type) ==
    CASE type.yt = "array" -> FlattenSeq([i \in 1 .. type.size |-> Leaves(type.of)])
      [] type.yt = "struct" -> FlattenSeq([i \in DOMAIN type.fields |->
                                              Leaves(type.fields[i].type)])
      [] OTHER -> <<type>>

\* arrayElementOffset, structFieldOffset, counted in leaves from 0
ElementOffset(type, i) == i * Len(Leaves(type.of))
FieldOffset(type, i) ==
    Len(FlattenSeq([j \in 1 .. i - 1 |-> Leaves(type.fields[j].type)]))

\* structFieldIndex, 0 if there is no such field
FieldIndex(type, name) ==
    LET at == {i \in DOMAIN type.fields : type.fields[i].name = name} IN
    IF at = {} THEN 0 ELSE CHOOSE i \in at : TRUE

\* isSupportedMapKeyType
SupportedKey(type) == type.yt = "string"

-----------------------------------------------------------------------------
(* Assignment to a typed place.                                            *)

\* isInitialisableType: what is stored, in a sequence of at most one value.
\* A literal is checked against the type's range and takes the type.
Initialised(heap, type, v) ==
    LET plain == NoLongerLiteral(v)
        vt == TypeOf(heap, v)
    IN CASE type.yt = "any" -> <<plain>>
         [] type.yt # "any" /\ v.t = "nil" ->
                IF NilAssignable(type) THEN <<v>> ELSE <<>>
         [] type.yt = "array" /\ v.t = "array" ->
                IF type.size = vt.size /\ (type.of.yt = "any" \/
                                           TypesEqual(type.of, vt.of))
                THEN <<v>> ELSE <<>>
         [] IsLiteral(v) /\ type.yt \in Fixed ->
                IF InRange(type.yt, v.n) THEN <<NumberVal(type.yt, v.n)>> ELSE <<>>
         [] OTHER -> IF TypesEqual(type, vt) THEN <<plain>> ELSE <<>>

-----------------------------------------------------------------------------
(* The heap: objects are numbered by their place in it.                    *)

Alloc(heap, obj) == Append(heap, obj)

\* A step that returns a value besides the heap.
Got(heap, v) == [heap |-> heap, v |-> v]

\* defaultValue of a scalar type
ScalarDefault(type) ==
    CASE type.yt = "bool" -> BoolVal(FALSE)
      [] type.yt \in Fixed \cup {"int"} -> NumberVal(type.yt, 0)
      [] type.yt \in {"double", "address"} -> [t |-> type.yt, n |-> 0]
      [] OTHER -> Nil

Container(store, at, type) ==
    [k |-> "container", store |-> store, at |-> at, type |-> type]

\* createPackedContainerFor: another view of the container's store.
View(heap, c, offset, type) ==
    Got(Alloc(heap, Container(heap[c].store, heap[c].at + offset, type)),
        Ref(type.yt, Len(heap) + 1))

\* newPackedValueContainer
NewContainer(heap, type) ==
    LET cells == [i \in DOMAIN Leaves(type) |-> ScalarDefault(Leaves(type)[i])]
        h == Alloc(heap, [k |-> "store", cells |-> cells])
    IN Got(Alloc(h, Container(Len(h), 0, type)), Ref(type.yt, Len(h) + 1))

DefaultValue(heap, type) ==
    IF type.yt \in {"array", "struct"} THEN NewContainer(heap, type)
    ELSE Got(heap, ScalarDefault(type))

\* createPointerAndTarget
NewPointer(heap, target) ==
    LET c == NewContainer(heap, target) IN
    View(c.heap, c.v.o, 0, [yt |-> "pointer", of |-> target])

\* Mutant of Duplicate: a struct is shared, as arrays are.
DuplicateShared(heap, v) == Got(heap, v)
\* duplicateStruct copies the leaves; duplicateValue leaves arrays and
\* pointers shared.
Duplicate(heap, v) ==
    IF v.t # "struct" THEN Got(heap, v)
    ELSE LET c == heap[v.o]
             n == Len(Leaves(c.type))
             new == NewContainer(heap, c.type)
             store == Len(heap) + 1
         IN Got([new.heap EXCEPT ![store].cells =
                     SubSeq(heap[c.store].cells, c.at + 1, c.at + n)], new.v)

\* containerElement: a scalar is read, a container is viewed in place.
ContainerElement(heap, c, type, offset) ==
    IF Packable(type) THEN View(heap, c, offset, type)
    ELSE Got(heap, heap[heap[c].store].cells[heap[c].at + offset + 1])

ArrayElement(heap, v, i) ==
    LET type == heap[v.o].type IN
    ContainerElement(heap, v.o, type.of, ElementOffset(type, i))
StructField(heap, v, i) ==
    LET type == heap[v.o].type IN
    ContainerElement(heap, v.o, type.fields[i].type, FieldOffset(type, i))
PointerDestination(heap, v) == ContainerElement(heap, v.o, heap[v.o].type.of, 0)

\* containerElementPointer
ElementPointer(heap, c, type, offset) ==
    View(heap, c, offset, [yt |-> "pointer", of |-> type])

\* setPlacedContainerElement.  A container that is assigned to a placeable
\* element has no case in setPlacedValue, which ends the program; one that is
\* assigned to any other element is stored over the element's first leaf.
SetElement(heap, c, type, offset, v) ==
    LET stored == Initialised(heap, type, v)
        at == heap[c].at + offset + 1
    IN CASE stored = <<>> -> [heap |-> heap, result |-> "refused"]
         [] stored # <<>> /\ Placeable(type) /\ Packable(type) ->
                [heap |-> heap, result |-> "fatal"]
         [] OTHER -> [heap |-> [heap EXCEPT
                          ![heap[c].store].cells[at] = stored[1]],
                      result |-> "set"]

\* valuesEqual: containers and other objects are equal when they are the
\* same object, types by structure, an int whatever its literal mark.
\* pointersEqual compares places, but valuesEqual gets there only with one
\* type object, and each of newYargPointerType's callers makes a pointer and
\* a type object for it alone: two pointers to one place are not equal.
ValuesEqual(a, b) ==
    /\ a.t = b.t
    /\ CASE a.t = "type" -> TypesEqual(a.type, b.type)
         [] a.t \in Fixed \cup {"int", "double", "address"} -> a.n = b.n
         [] OTHER -> a = b
=============================================================================
