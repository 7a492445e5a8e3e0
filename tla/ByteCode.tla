------------------------------ MODULE ByteCode ------------------------------
(***************************************************************************)
(* The numbers that the compiler and the interpreter agree on              *)
(* (src/cyarg/chunk.h): opcodes, builtin functions and builtin types.      *)
(***************************************************************************)
EXTENDS Integers, Sequences

\* The opcodes of chunk.h in the order of their numbers.
OpCodes == <<"CONSTANT", "NIL", "TRUE", "FALSE", "POP", "GET_BUILTIN",
    "GET_LOCAL", "SET_LOCAL", "GET_GLOBAL", "DEFINE_GLOBAL", "SET_GLOBAL",
    "INITIALISE", "GET_UPVALUE", "SET_UPVALUE", "GET_PROPERTY",
    "SET_PROPERTY", "GET_SUPER", "EQUAL", "GREATER", "LESS", "LEFT_SHIFT",
    "RIGHT_SHIFT", "ADD", "SUBTRACT", "BITOR", "BITAND", "BITXOR", "MODULO",
    "MULTIPLY", "DIVIDE", "NOT", "NEGATE", "PRINT", "POKE", "JUMP",
    "JUMP_IF_FALSE", "LOOP", "CALL", "INVOKE", "SUPER_INVOKE", "CLOSURE",
    "CLOSE_UPVALUE", "RETURN", "YIELD", "CLASS", "INHERIT", "METHOD",
    "ELEMENT", "SET_ELEMENT", "IMMEDIATE_P8", "IMMEDIATE_P16",
    "IMMEDIATE_P24", "IMMEDIATE_N8", "IMMEDIATE_N16", "IMMEDIATE_N24",
    "TYPE_LITERAL", "TYPE_STRUCT", "TYPE_INDEXED_COLLECTION",
    "SET_CELL_TYPE", "DEREF_PTR", "SET_PTR_TARGET", "PLACE", "DUPLICATE",
    "ERROR">>

\* BuiltinFn and BuiltinType, by the token that names them.
BuiltinFns == <<"READ_YARG_SOURCE", "VM_READ_XIP_FILE", "COMPILE",
    "MAKE_ROUTINE", "MAKE_CHANNEL", "MAKE_SYNCGROUP", "RESUME", "START",
    "RECEIVE", "SEND", "CPEEK", "SHARE", "PEEK", "LEN", "PIN", "NEW", "INT8",
    "UINT8", "INT16", "UINT16", "INT32", "UINT32", "INT64", "UINT64",
    "TS_SET", "TS_READ", "TS_WRITE", "TS_INTERRUPT", "TS_SYNC", "INT",
    "MACHINE_FLOAT64", "TYPE_STRING", "LOAD">>
BuiltinTypes == <<"BOOL", "INT8", "UINT8", "INT16", "UINT16", "INT32",
    "UINT32", "INT64", "UINT64", "MACHINE_FLOAT64", "TYPE_STRING", "INT">>

\* The number of a name in one of these lists.
Numbering(names) == [x \in {names[i] : i \in DOMAIN names} |->
                        (CHOOSE i \in DOMAIN names : names[i] = x) - 1]
Op == Numbering(OpCodes)
BuiltinFn == Numbering(BuiltinFns)
BuiltinType == Numbering(BuiltinTypes)
=============================================================================
