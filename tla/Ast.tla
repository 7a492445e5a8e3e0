-------------------------------- MODULE Ast --------------------------------
(***************************************************************************)
(* The printer of the syntax tree (src/cyarg/ast.c), which writes a tree   *)
(* as source again.  It is modelled by the words it writes; a word is a    *)
(* token's type, with its text where the text is free.  Spaces, line ends  *)
(* and indentation are left out.                                           *)
(***************************************************************************)
EXTENDS Integers, Sequences, SequencesExt, TLC

RECURSIVE PrintExpr(_), PrintStmts(_)

Name(x) == <<"name", x>>
Words(types) == [i \in DOMAIN types |-> <<types[i], "">>]
W(t) == Words(<<t>>)

\* The expressions, with commas between them.
PrintList(list) ==
    FlattenSeq([i \in DOMAIN list |->
        PrintExpr(list[i]) \o (IF i < Len(list) THEN W("COMMA") ELSE <<>>)])

PrintCallArgs(args) == W("LEFT_PAREN") \o PrintList(args) \o W("RIGHT_PAREN")

PrintAssignment(e) == IF e = <<>> THEN <<>> ELSE W("EQUAL") \o PrintExpr(e)

OpWord(op) == CASE op = "NEGATE" -> "MINUS"
                [] op = "NOT" -> "BANG"
                [] op = "DEREF_PTR" -> "STAR"
                [] OTHER -> op

\* printExprOperation puts every right operand in parentheses.
PrintOperation(x) ==
    W(OpWord(x.op)) \o W("LEFT_PAREN") \o PrintExpr(x.rhs) \o W("RIGHT_PAREN")
        \o PrintAssignment(x.assign)

PrintOptCall(call) == IF call = <<>> THEN <<>> ELSE PrintCallArgs(call[1])

IsNil(e) == e # <<>> /\ e[1].k = "literal" /\ e[1].literal = "NIL"

PrintField(f) ==
    (IF IsNil(f.type) THEN <<>> ELSE PrintExpr(f.type))
    \o (IF IsNil(f.offset) THEN <<>> ELSE W("AT") \o PrintExpr(f.offset))
    \o <<Name(f.name)>> \o W("SEMICOLON")

PrintItem(item) ==
    PrintExpr(item.a)
    \o (IF item.isPair THEN W("COLON") \o PrintExpr(item.b) ELSE <<>>)

\* One node of a chain; an address has no case in printExpr.
PrintElement(x) ==
    CASE x.k = "op" -> PrintOperation(x)
      [] x.k = "grouping" ->
             W("LEFT_PAREN") \o PrintExpr(x.expr) \o W("RIGHT_PAREN")
      [] x.k = "number" -> <<<<"NUMBER", ToString(x.n)>>>>
      [] x.k = "var" -> <<Name(x.name)>> \o PrintAssignment(x.assign)
      [] x.k = "literal" -> W(x.literal)
      [] x.k = "string" -> <<<<"STRING", x.str>>>>
      [] x.k = "call" -> PrintCallArgs(x.args)
      [] x.k = "init" ->
             W("LEFT_SQUARE_BRACKET")
             \o FlattenSeq([i \in DOMAIN x.items |-> PrintItem(x.items[i])
                    \o (IF i < Len(x.items) THEN W("COMMA") ELSE <<>>)])
             \o W("RIGHT_SQUARE_BRACKET")
      [] x.k = "element" ->
             W("LEFT_SQUARE_BRACKET") \o PrintExpr(x.element)
             \o W("RIGHT_SQUARE_BRACKET") \o PrintAssignment(x.assign)
      [] x.k = "builtin" -> W(x.builtin)
      [] x.k = "dot" -> W("DOT") \o <<Name(x.name)>> \o PrintAssignment(x.assign)
                        \o PrintOptCall(x.call)
      [] x.k = "super" -> Words(<<"SUPER", "DOT">>) \o <<Name(x.name)>>
                          \o PrintOptCall(x.call)
      [] x.k = "type" -> W(x.type)
      [] x.k = "struct" ->
             Words(<<"STRUCT", "LEFT_BRACE">>)
             \o FlattenSeq([i \in DOMAIN x.fields |-> PrintField(x.fields[i])])
             \o W("RIGHT_BRACE")
      [] x.k = "collection" -> W("LEFT_SQUARE_BRACKET") \o PrintExpr(x.indexing)
                               \o W("RIGHT_SQUARE_BRACKET")
      [] OTHER -> W("UNKNOWN")

PrintExpr(e) == FlattenSeq([i \in DOMAIN e |-> PrintElement(e[i])])

-----------------------------------------------------------------------------
PrintIf(s) ==
    Words(<<"IF", "LEFT_PAREN">>) \o PrintExpr(s.test) \o W("RIGHT_PAREN")
    \o PrintStmts(s.then)
    \o (IF s.else = <<>> THEN <<>> ELSE W("ELSE") \o PrintStmts(s.else))

PrintFunDeclaration(s) ==
    W("FUN") \o <<Name(s.name)>> \o PrintCallArgs(s.params) \o W("LEFT_BRACE")
    \o PrintStmts(s.body) \o W("RIGHT_BRACE")

PrintWhile(s) ==
    Words(<<"WHILE", "LEFT_PAREN">>) \o PrintExpr(s.test) \o W("RIGHT_PAREN")
    \o PrintStmts(s.body)

\* An absent initialiser leaves its semicolon out.
PrintFor(s) ==
    Words(<<"FOR", "LEFT_PAREN">>) \o PrintStmts(s.init) \o PrintExpr(s.cond)
    \o W("SEMICOLON") \o PrintExpr(s.loop) \o W("RIGHT_PAREN")
    \o PrintStmts(s.body)

\* A method is printed like a function, fun included.
PrintClassDeclaration(s) ==
    W("CLASS") \o <<Name(s.name)>>
    \o (IF s.super = <<>> THEN <<>> ELSE W("LESS") \o PrintExpr(s.super))
    \o W("LEFT_BRACE")
    \o FlattenSeq([i \in DOMAIN s.methods |-> PrintFunDeclaration(s.methods[i])])
    \o W("RIGHT_BRACE")

KeywordOf(k) == CASE k = "return" -> W("RETURN")
                  [] k = "yield" -> W("YIELD")
                  [] k = "print" -> W("PRINT")
                  [] k = "error" -> W("STMT_ERROR")
                  [] OTHER -> <<>>

PrintPoke(s) ==
    W("POKE") \o PrintExpr(s.location)
    \o (IF s.offset = <<>> THEN <<>> ELSE W("COMMA") \o PrintExpr(s.offset))
    \o W("COMMA") \o PrintExpr(s.value) \o W("SEMICOLON")

PrintVarDeclaration(s) ==
    W("VAR") \o PrintExpr(s.type) \o <<Name(s.name)>> \o PrintAssignment(s.init)
    \o W("SEMICOLON")

PrintAlias(a) == PrintExpr(a.location) \o <<Name(a.name)>> \o W("SEMICOLON")

PrintPlace(s) ==
    W("PLACE") \o PrintExpr(s.type)
    \o (IF Len(s.aliases) = 1 THEN PrintAlias(s.aliases[1])
        ELSE IF s.aliases = <<>> THEN <<>>
        ELSE W("LEFT_BRACE")
             \o FlattenSeq([i \in DOMAIN s.aliases |-> PrintAlias(s.aliases[i])])
             \o W("RIGHT_BRACE"))

PrintStmt(s) ==
    CASE s.k \in {"return", "yield", "print", "error", "expression"} ->
             KeywordOf(s.k) \o PrintExpr(s.expr) \o W("SEMICOLON")
      [] s.k = "poke" -> PrintPoke(s)
      [] s.k = "vardecl" -> PrintVarDeclaration(s)
      [] s.k = "place" -> PrintPlace(s)
      [] s.k = "block" ->
             W("LEFT_BRACE") \o PrintStmts(s.stmts) \o W("RIGHT_BRACE")
      [] s.k = "if" -> PrintIf(s)
      [] s.k = "fun" -> PrintFunDeclaration(s)
      [] s.k = "while" -> PrintWhile(s)
      [] s.k = "for" -> PrintFor(s)
      [] s.k = "class" -> PrintClassDeclaration(s)

PrintStmts(stmts) == FlattenSeq([i \in DOMAIN stmts |-> PrintStmt(stmts[i])])
=============================================================================
