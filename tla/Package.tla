------------------------------ MODULE Package ------------------------------
(***************************************************************************)
(* Packages: compiled functions as a file (src/cyarg/pack.c) and the file  *)
(* as functions again (src/cyarg/pack_load.c).                             *)
(*                                                                         *)
(* The functions are the compiler's, of which the script is the last; a    *)
(* constant refers to a function by its number.  A file is a record of its *)
(* sections; offsets into the string and integer sections and into the     *)
(* code count bytes, as in the file.  The line table and the function      *)
(* names, which only error reports use, are left out.                      *)
(***************************************************************************)
EXTENDS Integers, Sequences, SequencesExt, TLC

RECURSIVE FlattenConstants(_, _, _)

\* The pools that flattenConstants fills; funs has the compiler's numbers.
NoFiles == [funs |-> <<>>, strings |-> <<>>, ints |-> <<>>, doubles |-> <<>>,
            addresses |-> <<>>, consts |-> <<>>]

Item(type, index) == [type |-> type, index |-> index]

\* One constant of the chunk: what is written for it, and its pool with it.
\* A string that is there already is not added again.
FlattenConstant(acc, v) ==
    LET f == acc.f
        at == SelectInSeq(f.strings, LAMBDA s : s = v.s)
    IN CASE v.t = "double" ->
                [f |-> [f EXCEPT !.doubles = Append(@, v)],
                 items |-> Append(acc.items, Item("D", Len(f.doubles)))]
         [] v.t = "fun" ->
                [f |-> [f EXCEPT !.funs = Append(@, v.f),
                                 !.consts = Append(@, <<>>)],
                 items |-> Append(acc.items, Item("F", Len(f.funs)))]
         [] v.t = "int" ->
                [f |-> [f EXCEPT !.ints = Append(@, v)],
                 items |-> Append(acc.items, Item("I", Len(f.ints)))]
         [] v.t = "string" ->
                [f |-> IF at # 0 THEN f ELSE [f EXCEPT !.strings = Append(@, v.s)],
                 items |-> Append(acc.items,
                               Item("S", IF at # 0 THEN at - 1 ELSE Len(f.strings)))]
         [] v.t = "address" ->
                [f |-> [f EXCEPT !.addresses = Append(@, v)],
                 items |-> Append(acc.items, Item("A", Len(f.addresses)))]

\* The constants of chunk i, then those of the functions among them, which
\* have got the next numbers.
FlattenConstants(fns, f, i) ==
    LET acc == FoldLeft(FlattenConstant, [f |-> f, items |-> <<>>],
                        fns[f.funs[i]].constants)
        g == [acc.f EXCEPT !.consts[i] = acc.items]
        subs == [j \in 1 .. Len(g.funs) - Len(f.funs) |-> Len(f.funs) + j]
    IN FoldLeft(LAMBDA h, j : FlattenConstants(fns, h, j), g, subs)

\* The bytes before the k-th element (from 0), each of the size given.
OffsetOf(sizes, k) == FoldLeft(+, 0, SubSeq(sizes, 1, k))

\* A string has its terminator, an integer its head and an even number of
\* 16-bit digits.
Digits(n) == LET m == IF n < 0 THEN -n ELSE n IN IF m < 65536 THEN 1 ELSE 2
StringSizes(strings) == [i \in DOMAIN strings |-> Len(strings[i]) + 1]
IntSizes(ints) == [i \in DOMAIN ints |->
                      4 + 2 * (Digits(ints[i].n) + (Digits(ints[i].n) % 2))]

\* calcStringAndIntOffsets, and what pack writes of a constant
WrittenItem(f, item) ==
    CASE item.type = "S" -> Item("S", OffsetOf(StringSizes(f.strings), item.index))
      [] item.type = "I" -> Item("I", OffsetOf(IntSizes(f.ints), item.index))
      [] OTHER -> item

\* An integer is copied into one that was initialised, which has lost its
\* literal mark.
WrittenInt(v) == [v EXCEPT !.lit = FALSE]

\* pack: the script's arity and upvalues are written as 0; code lengths have
\* two bytes.
Pack(fns) ==
    LET f == FlattenConstants(fns, [NoFiles EXCEPT !.funs = <<Len(fns)>>,
                                                   !.consts = <<<<>>>>], 1)
        Fn(i) == fns[f.funs[i]]
        chunk(i) == [codeLength |-> Len(Fn(i).code) % 65536,
                     arity |-> IF i = 1 THEN 0 ELSE Fn(i).arity,
                     numUpvalues |-> IF i = 1 THEN 0 ELSE Fn(i).upvalueCount,
                     consts |-> [k \in DOMAIN f.consts[i] |->
                                    WrittenItem(f, f.consts[i][k])]]
    IN [doubles |-> f.doubles, addresses |-> f.addresses,
        chunks |-> [i \in DOMAIN f.funs |-> chunk(i)],
        ints |-> [i \in DOMAIN f.ints |-> WrittenInt(f.ints[i])],
        strings |-> f.strings,
        code |-> FlattenSeq([i \in DOMAIN f.funs |-> Fn(i).code])]

-----------------------------------------------------------------------------
\* What is at a byte of a section.
ElementAt(section, sizes, offset) ==
    section[CHOOSE i \in DOMAIN section : OffsetOf(sizes, i - 1) = offset]

\* Mutant of LoadedConstant: functions are counted without the script.
LoadedConstantAfterScript(file, item) ==
    CASE item.type = "S" -> [t |-> "string", s |-> ElementAt(file.strings,
                                 StringSizes(file.strings), item.index)]
      [] item.type = "I" -> ElementAt(file.ints, IntSizes(file.ints), item.index)
      [] item.type = "D" -> file.doubles[item.index + 1]
      [] item.type = "F" -> [t |-> "fun", f |-> item.index]
      [] item.type = "A" -> file.addresses[item.index + 1]
LoadedConstant(file, item) ==
    CASE item.type = "S" -> [t |-> "string", s |-> ElementAt(file.strings,
                                 StringSizes(file.strings), item.index)]
      [] item.type = "I" -> ElementAt(file.ints, IntSizes(file.ints), item.index)
      [] item.type = "D" -> file.doubles[item.index + 1]
      [] item.type = "F" -> [t |-> "fun", f |-> item.index + 1]
      [] item.type = "A" -> file.addresses[item.index + 1]

\* loadPackageFromBuffer: the script is the first function; the code of each
\* is the next piece of the code section.
LoadPackageFromBuffer(file) ==
    LET lengths == [i \in DOMAIN file.chunks |-> file.chunks[i].codeLength]
        start(i) == OffsetOf(lengths, i - 1)
    IN [i \in DOMAIN file.chunks |->
           [arity |-> file.chunks[i].arity,
            upvalueCount |-> file.chunks[i].numUpvalues,
            code |-> SubSeq(file.code, start(i) + 1, start(i) + lengths[i]),
            constants |-> [k \in DOMAIN file.chunks[i].consts |->
                              LoadedConstant(file, file.chunks[i].consts[k])]]]

\* The compiler's number of each function of the package, for the properties.
Order(fns) == FlattenConstants(fns, [NoFiles EXCEPT !.funs = <<Len(fns)>>,
                                                    !.consts = <<<<>>>>], 1).funs
=============================================================================
