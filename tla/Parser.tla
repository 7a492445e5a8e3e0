------------------------------- MODULE Parser -------------------------------
(***************************************************************************)
(* The recursive descent parser of Yarg (src/cyarg/parser.c).              *)
(*                                                                         *)
(* A token is a record with its type t (TokenType without TOKEN_) and,     *)
(* for an identifier or a string, its text x; a number carries its form    *)
(* ("int", "float", "bad") and its value n.  The scanner's tokens are a    *)
(* sequence that ends with EOF, which is scanned for ever.                 *)
(*                                                                         *)
(* The parser's state is a record p.  Every parse function takes it and    *)
(* returns a record with the new state p and the tree e it built.  An      *)
(* expression is the chain its nextExpr pointers make, as a sequence;      *)
(* <<>> is the NULL pointer.  Two fields of p record what the code does    *)
(* not survive: hung, a loop that takes no token and will not end, and     *)
(* broken, a write through the NULL expression that a failed prefix rule   *)
(* returned.                                                               *)
(***************************************************************************)
EXTENDS Integers, Sequences, TLC

Pair(p, e) == [p |-> p, e |-> e]

\* Precedence, lowest first.
Precedences == <<"NONE", "ASSIGNMENT", "OR", "AND", "EQUALITY", "COMPARISON",
                 "TERM", "FACTOR", "UNARY", "CALL", "DEREF", "PRIMARY">>
Prec(name) == CHOOSE i \in DOMAIN Precedences : Precedences[i] = name

Assignment == Prec("ASSIGNMENT")

MachineTypes == {"MACHINE_FLOAT64", "INT8", "UINT8", "INT16", "UINT16",
                 "INT32", "UINT32", "INT64", "UINT64", "INT", "TYPE_STRING"}
\* checkTypeToken
TypeTokens == MachineTypes \cup {"BOOL", "ANY", "STRUCT"}

\* The tokens whose prefix rule is builtin (a type token is one before "(").
BuiltinTokens == {"PEEK", "READ_YARG_SOURCE", "VM_READ_XIP_FILE", "COMPILE",
    "MAKE_ROUTINE", "MAKE_CHANNEL", "MAKE_SYNCGROUP", "RESUME", "SEND",
    "RECEIVE", "SHARE", "START", "CPEEK", "LEN", "PIN", "NEW", "TS_SET",
    "TS_READ", "TS_WRITE", "TS_INTERRUPT", "TS_SYNC", "LOAD"}

ReservedTokens == {"BREAK", "CONST", "CONTINUE", "DEFER"}

\* The operators binary accepts, and the level each binds at.
BinaryLevel ==
    [t \in {"BANG_EQUAL", "EQUAL_EQUAL"} |-> "EQUALITY"] @@
    [t \in {"GREATER", "GREATER_EQUAL", "LESS", "LESS_EQUAL"} |-> "COMPARISON"] @@
    [t \in {"MINUS", "PLUS", "BAR", "AMP", "CARET", "PERCENT"} |-> "TERM"] @@
    [t \in {"SLASH", "STAR", "RIGHT_SHIFT", "LEFT_SHIFT"} |-> "FACTOR"]

\* rules[t].precedence
InfixPrec(t) ==
    CASE t \in DOMAIN BinaryLevel -> Prec(BinaryLevel[t])
      [] t = "AND" -> Prec("AND")
      [] t = "OR" -> Prec("OR")
      [] t \in {"LEFT_PAREN", "DOT"} -> Prec("CALL")
      [] t = "LEFT_SQUARE_BRACKET" -> Prec("DEREF")
      [] OTHER -> Prec("NONE")

-----------------------------------------------------------------------------
(* The token stream and the errors.                                        *)

NewParser(toks) == [toks |-> toks, current |-> 0, previous |-> 0,
                    panicMode |-> FALSE, errors |-> <<>>,
                    hung |-> FALSE, broken |-> FALSE]

Current(p) == p.toks[p.current].t
Previous(p) == p.toks[p.previous]
Check(p, t) == Current(p) = t

\* The first error of a statement is kept, the ones it causes are not.
Error(p, report) == IF p.panicMode THEN p
                    ELSE [p EXCEPT !.panicMode = TRUE,
                                   !.errors = Append(@, report)]

\* advance reports and skips the tokens the scanner could not make.
RECURSIVE Scan(_, _)
Scan(p, i) == LET at == IF i > Len(p.toks) THEN Len(p.toks) ELSE i IN
              IF p.toks[at].t = "ERROR" THEN Scan(Error(p, "scanner"), at + 1)
              ELSE [p EXCEPT !.current = at]
Advance(p) == Scan([p EXCEPT !.previous = p.current], p.current + 1)

Match(p, t) == IF Check(p, t) THEN Advance(p) ELSE p
\* Mutant of Consume: the token is taken whatever it is.
ConsumeAny(p, t) == Advance(p)
Consume(p, t) == IF Check(p, t) THEN Advance(p) ELSE Error(p, t)

\* A statement may start here, as far as synchronize is concerned.
SyncTokens == {"CLASS", "FUN", "VAR", "FOR", "IF", "WHILE", "PRINT", "RETURN",
               "LOAD"}
RECURSIVE SkipStatement(_)
SkipStatement(p) ==
    IF \/ Check(p, "EOF")
       \/ Previous(p).t = "SEMICOLON"
       \/ Current(p) \in SyncTokens
    THEN p ELSE SkipStatement(Advance(p))
Synchronize(p) == SkipStatement([p EXCEPT !.panicMode = FALSE])

-----------------------------------------------------------------------------
(* Expressions.                                                            *)

\* The rules that rules use: x is the precedence of an expression.
RECURSIVE Rule(_, _, _)
ParsePrecedence(p, precedence) == Rule("precedence", p, precedence)
TypeExpression(p) == Rule("type", p, 0)
Statement(p) == Rule("statement", p, 0)
Declaration(p) == Rule("declaration", p, 0)

RECURSIVE ParseInfix(_, _, _, _), ExpressionList(_, _), Initializers(_, _),
          StructFields(_, _)

Expression(p) == ParsePrecedence(p, Assignment)

\* An optional "= expression" where the rule allows an assignment.
OptAssign(p, canAssign) ==
    IF canAssign /\ Check(p, "EQUAL") THEN Expression(Advance(p))
    ELSE Pair(p, <<>>)

\* expressionList after the first argument was found to be there
ExpressionList(p, items) ==
    LET r == Expression(p)
        list == Append(items, r.e)
        q == IF Len(list) > 255 THEN Error(r.p, "arguments") ELSE r.p
    IN IF Check(q, "COMMA") THEN ExpressionList(Advance(q), list)
       ELSE Pair(q, list)
Arguments(p) ==
    LET r == IF Check(p, "RIGHT_PAREN") THEN Pair(p, <<>>)
             ELSE ExpressionList(p, <<>>)
    IN Pair(Consume(r.p, "RIGHT_PAREN"), r.e)

\* The optional call of a dot or of super: the arguments are in a sequence
\* of at most one list.
OptCall(p) == IF Check(p, "LEFT_PAREN")
              THEN LET r == Arguments(Advance(p)) IN Pair(r.p, <<r.e>>)
              ELSE Pair(p, <<>>)

NamedVariable(p, canAssign) ==
    LET r == OptAssign(p, canAssign) IN
    Pair(r.p, <<[k |-> "var", name |-> Previous(p).x, assign |-> r.e]>>)

Super(p) ==
    LET q == Consume(Consume(p, "DOT"), "IDENTIFIER")
        r == OptCall(q)
    IN Pair(r.p, <<[k |-> "super", name |-> Previous(q).x, call |-> r.e]>>)

Dot(p, canAssign) ==
    LET q == Consume(p, "IDENTIFIER")
        assigns == canAssign /\ Check(q, "EQUAL")
        r == IF assigns THEN OptAssign(q, TRUE) ELSE OptCall(q)
    IN Pair(r.p, [k |-> "dot", name |-> Previous(q).x,
                  assign |-> IF assigns THEN r.e ELSE <<>>,
                  call |-> IF assigns THEN <<>> ELSE r.e])

Deref(p, canAssign) ==
    LET r == ParsePrecedence(p, Assignment)
        a == OptAssign(Consume(r.p, "RIGHT_SQUARE_BRACKET"), canAssign)
    IN Pair(a.p, [k |-> "element", element |-> r.e, assign |-> a.e])

\* appendInitializer, once per item of [item, key: value, ...]
Initializers(p, items) ==
    LET r == Expression(p)
        v == IF Check(r.p, "COLON") THEN Expression(Advance(r.p))
             ELSE Pair(r.p, <<>>)
        list == Append(items, [isPair |-> Check(r.p, "COLON"),
                               a |-> r.e, b |-> v.e])
        q == IF Len(list) > 255 THEN Error(v.p, "initialisers") ELSE v.p
    IN IF Check(q, "COMMA") THEN Initializers(Advance(q), list)
       ELSE Pair(q, list)

CollectionInit(p) ==
    LET r == IF Check(p, "RIGHT_SQUARE_BRACKET") THEN Pair(p, <<>>)
             ELSE Initializers(p, <<>>)
    IN Pair(Consume(r.p, "RIGHT_SQUARE_BRACKET"),
            <<[k |-> "init", items |-> r.e,
               isMap |-> \E i \in DOMAIN r.e : r.e[i].isPair]>>)

NilExpr == <<[k |-> "literal", literal |-> "NIL"]>>

\* fieldStmt: a type and an offset that may be absent, then the name.
FieldStmt(p) ==
    LET ty == IF Current(p) \in TypeTokens THEN TypeExpression(p)
              ELSE Pair(p, NilExpr)
        off == IF Check(ty.p, "AT") THEN Expression(Advance(ty.p))
               ELSE Pair(ty.p, NilExpr)
        q == Consume(off.p, "IDENTIFIER")
    IN Pair(Consume(q, "SEMICOLON"),
            [type |-> ty.e, offset |-> off.e, name |-> Previous(q).x])

\* The loop of structExpression: it looks for "}" alone, and a field that
\* is no field takes no token, so the next one finds what this one found.
StructFields(p, fields) ==
    IF Check(p, "RIGHT_BRACE") THEN Pair(p, fields)
    ELSE LET f == FieldStmt(p) IN
         IF f.p.current = p.current THEN Pair([f.p EXCEPT !.hung = TRUE], fields)
         ELSE StructFields(f.p, Append(fields, f.e))
StructExpression(p) ==
    LET r == StructFields(Consume(p, "LEFT_BRACE"), <<>>) IN
    Pair(Consume(r.p, "RIGHT_BRACE"), <<[k |-> "struct", fields |-> r.e]>>)

\* consumeCollectionIndex: the [size] or [key type] after a type.
CollectionIndex(p, type) ==
    IF ~ Check(p, "LEFT_SQUARE_BRACKET") THEN Pair(p, type)
    ELSE LET q == Advance(p)
             r == IF Check(q, "RIGHT_SQUARE_BRACKET") THEN Pair(q, <<>>)
                  ELSE ParsePrecedence(q, Assignment)
             s == IF r.e = <<>> THEN Error(r.p, "size or index type") ELSE r.p
         IN Pair(Consume(s, "RIGHT_SQUARE_BRACKET"),
                 Append(type, [k |-> "collection", indexing |-> r.e]))

\* The type that the token just taken names, with its index.
NamedType(p) ==
    LET t == Previous(p).t
        r == CASE t = "ANY" -> Pair(p, NilExpr)
               [] t = "STRUCT" -> StructExpression(p)
               [] OTHER -> Pair(p, <<[k |-> "type", type |-> t]>>)
    IN CollectionIndex(r.p, r.e)

TypeRule(p) == IF Current(p) \in TypeTokens THEN NamedType(Advance(p))
               ELSE Pair(p, <<>>)

\* builtin has no case for any, bool and struct: it returns NULL for them.
Builtin(p) == Pair(p, IF Previous(p).t \in {"ANY", "BOOL", "STRUCT"} THEN <<>>
                      ELSE <<[k |-> "builtin", builtin |-> Previous(p).t]>>)

\* type: a type before "(" is a conversion, any other is a type literal.
TypeOrConversion(p) == IF Check(p, "LEFT_PAREN") THEN Builtin(p)
                       ELSE NamedType(p)

Operation(op, r, assign) ==
    [k |-> "op", op |-> op, rhs |-> r.e, assign |-> assign]

Unary(p, op) == LET r == ParsePrecedence(p, Prec("UNARY")) IN
                Pair(r.p, <<Operation(op, r, <<>>)>>)

UnaryPlace(p, canAssign) ==
    LET r == ParsePrecedence(p, Prec("UNARY"))
        a == OptAssign(r.p, canAssign)
    IN Pair(a.p, <<Operation("DEREF_PTR", r, a.e)>>)

Grouping(p) ==
    LET r == Expression(p) IN
    Pair(Consume(r.p, "RIGHT_PAREN"), <<[k |-> "grouping", expr |-> r.e]>>)

\* and, or take another of their own level, a binary operator only more
\* tightly bound ones.
Binary(p) ==
    LET t == Previous(p).t
        r == ParsePrecedence(p, InfixPrec(t) +
                                (IF t \in DOMAIN BinaryLevel THEN 1 ELSE 0))
    IN Pair(r.p, Operation(t, r, <<>>))

Number(p) ==
    IF Previous(p).form = "bad" THEN Pair(Error(p, "number"), <<>>)
    ELSE Pair(p, <<[k |-> "number", form |-> Previous(p).form,
                    n |-> Previous(p).n]>>)

\* rules[t].prefix applied; a token without one is no expression.
Prefix(p, canAssign) ==
    LET t == Previous(p).t IN
    CASE t = "LEFT_PAREN" -> Grouping(p)
      [] t = "LEFT_SQUARE_BRACKET" -> CollectionInit(p)
      [] t = "MINUS" -> Unary(p, "NEGATE")
      [] t = "BANG" -> Unary(p, "NOT")
      [] t = "STAR" -> UnaryPlace(p, canAssign)
      [] t = "ADDRESS" -> Pair(p, <<[k |-> "address", n |-> Previous(p).n]>>)
      [] t = "IDENTIFIER" -> NamedVariable(p, canAssign)
      [] t = "THIS" -> NamedVariable(p, FALSE)
      [] t = "SUPER" -> Super(p)
      [] t = "STRING" -> Pair(p, <<[k |-> "string", str |-> Previous(p).x]>>)
      [] t = "NUMBER" -> Number(p)
      [] t \in {"FALSE", "NIL", "TRUE"} ->
             Pair(p, <<[k |-> "literal", literal |-> t]>>)
      [] t \in BuiltinTokens -> Builtin(p)
      [] t \in TypeTokens -> TypeOrConversion(p)
      [] t \in ReservedTokens -> Pair(Error(p, "reserved"), <<>>)
      [] OTHER -> Pair(Error(p, "expression"), <<>>)

\* rules[t].infix applied
Infix(p, canAssign) ==
    LET t == Previous(p).t IN
    CASE t = "LEFT_PAREN" ->
             LET r == Arguments(p) IN Pair(r.p, [k |-> "call", args |-> r.e])
      [] t = "DOT" -> Dot(p, canAssign)
      [] t = "LEFT_SQUARE_BRACKET" -> Deref(p, canAssign)
      [] OTHER -> Binary(p)

\* The loop of parsePrecedence.  The first operator is stored through the
\* nextExpr of the operand's first node: the index of a type literal, which
\* is there already, is replaced, and a NULL operand is written through.
ParseInfix(p, precedence, operand, tail) ==
    IF precedence > InfixPrec(Current(p))
    THEN Pair(p, IF tail = <<>> \/ operand = <<>> THEN operand
                 ELSE <<operand[1]>> \o tail)
    ELSE LET r == Infix(Advance(p), precedence <= Assignment)
             q == IF operand = <<>> THEN [r.p EXCEPT !.broken = TRUE] ELSE r.p
         IN ParseInfix(q, precedence, operand, Append(tail, r.e))

HasPrefix(t) == \/ t \in {"LEFT_PAREN", "LEFT_SQUARE_BRACKET", "MINUS", "BANG",
                          "STAR", "ADDRESS", "IDENTIFIER", "THIS", "SUPER",
                          "STRING", "NUMBER", "FALSE", "NIL", "TRUE"}
                \/ t \in BuiltinTokens \cup TypeTokens \cup ReservedTokens

\* What follows the operand: infix operators, and an "=" that no rule took.
WithoutTarget(r, precedence) ==
    IF precedence <= Assignment /\ Check(r.p, "EQUAL")
    THEN Pair(Error(Advance(r.p), "assignment target"), r.e) ELSE r
AfterPrefix(t, operand, precedence) ==
    IF ~ HasPrefix(t) THEN operand
    ELSE WithoutTarget(ParseInfix(operand.p, precedence, operand.e, <<>>), precedence)
PrecedenceRule(p, precedence) ==
    LET q == Advance(p) IN
    AfterPrefix(Previous(q).t, Prefix(q, precedence <= Assignment), precedence)

-----------------------------------------------------------------------------
(* Statements and declarations.                                            *)

RECURSIVE DeclarationsTo(_, _), Parameters(_, _), Methods(_, _), Aliases(_, _)

ExpressionStatement(p, k, expectExpression) ==
    IF Check(p, "SEMICOLON")
    THEN LET q == Advance(p) IN
         Pair(IF expectExpression THEN Error(q, "expression") ELSE q,
              [k |-> k, expr |-> <<>>])
    ELSE LET r == Expression(p) IN
         Pair(Consume(r.p, "SEMICOLON"), [k |-> k, expr |-> r.e])

PokeStatement(p) ==
    LET l == Expression(p)
        a == Expression(Consume(l.p, "COMMA"))
        b == IF Check(a.p, "COMMA") THEN Expression(Advance(a.p))
             ELSE Pair(a.p, <<>>)
    IN Pair(Consume(b.p, "SEMICOLON"),
            IF Check(a.p, "COMMA")
            THEN [k |-> "poke", location |-> l.e, offset |-> a.e, value |-> b.e]
            ELSE [k |-> "poke", location |-> l.e, offset |-> <<>>, value |-> a.e])

VarDeclaration(p) ==
    LET ty == TypeExpression(p)
        q == Consume(ty.p, "IDENTIFIER")
        i == OptAssign(q, TRUE)
    IN Pair(Consume(i.p, "SEMICOLON"),
            [k |-> "vardecl", type |-> ty.e, name |-> Previous(q).x,
             init |-> i.e])

\* block: the declarations up to "}" or the end of the source
DeclarationsTo(p, stmts) ==
    IF Current(p) \in {"RIGHT_BRACE", "EOF"} THEN Pair(p, stmts)
    ELSE LET d == Declaration(p) IN DeclarationsTo(d.p, Append(stmts, d.e))
Block(p) == LET r == DeclarationsTo(p, <<>>) IN
            Pair(Consume(r.p, "RIGHT_BRACE"), r.e)

\* (test) statement
Condition(p) ==
    LET t == Expression(Consume(p, "LEFT_PAREN")) IN
    Pair(Consume(t.p, "RIGHT_PAREN"), t.e)

IfStatement(p) ==
    LET t == Condition(p)
        s == Statement(t.p)
        e == IF Check(s.p, "ELSE") THEN Statement(Advance(s.p))
             ELSE Pair(s.p, <<>>)
    IN Pair(e.p, [k |-> "if", test |-> t.e, then |-> <<s.e>>,
                  else |-> IF Check(s.p, "ELSE") THEN <<e.e>> ELSE <<>>])

WhileStatement(p) ==
    LET t == Condition(p)
        s == Statement(t.p)
    IN Pair(s.p, [k |-> "while", test |-> t.e, body |-> <<s.e>>])

\* A clause of for that ends with the token: empty when the token is next.
Clause(p, end) == IF Check(p, end) THEN Pair(Advance(p), <<>>)
                  ELSE LET r == Expression(p) IN Pair(Consume(r.p, end), r.e)

ForStatement(p) ==
    LET q == Consume(p, "LEFT_PAREN")
        i == CASE Check(q, "SEMICOLON") -> Pair(Advance(q), <<>>)
               [] Check(q, "VAR") -> VarDeclaration(Advance(q))
               [] OTHER -> ExpressionStatement(q, "expression", TRUE)
        c == Clause(i.p, "SEMICOLON")
        l == Clause(c.p, "RIGHT_PAREN")
        b == Statement(l.p)
    IN Pair(b.p, [k |-> "for", cond |-> c.e, loop |-> l.e, body |-> <<b.e>>,
                  init |-> IF Check(q, "SEMICOLON") THEN <<>> ELSE <<i.e>>])

\* statement, after the keyword it matched
StatementRule(p) ==
    LET q == Advance(p) IN
    CASE Check(p, "PRINT") -> ExpressionStatement(q, "print", TRUE)
      [] Check(p, "POKE") -> PokeStatement(q)
      [] Check(p, "STMT_ERROR") -> ExpressionStatement(q, "error", TRUE)
      [] Check(p, "FOR") -> ForStatement(q)
      [] Check(p, "IF") -> IfStatement(q)
      [] Check(p, "YIELD") -> ExpressionStatement(q, "yield", FALSE)
      [] Check(p, "RETURN") -> ExpressionStatement(q, "return", FALSE)
      [] Check(p, "WHILE") -> WhileStatement(q)
      [] Check(p, "LEFT_BRACE") ->
             LET b == Block(q) IN Pair(b.p, [k |-> "block", stmts |-> b.e])
      [] OTHER -> ExpressionStatement(p, "expression", TRUE)

\* Parameters are parsed as expressions; the compiler looks at them.
Parameters(p, list) ==
    LET r == Expression(p)
        params == Append(list, r.e)
        q == IF Len(params) > 255 THEN Error(r.p, "parameters") ELSE r.p
    IN IF Check(q, "COMMA") THEN Parameters(Advance(q), params)
       ELSE Pair(q, params)

FunDeclaration(p) ==
    LET q == Consume(p, "IDENTIFIER")
        s == Consume(q, "LEFT_PAREN")
        r == IF Check(s, "RIGHT_PAREN") THEN Pair(s, <<>>)
             ELSE Parameters(s, <<>>)
        b == Block(Consume(Consume(r.p, "RIGHT_PAREN"), "LEFT_BRACE"))
    IN Pair(b.p, [k |-> "fun", name |-> Previous(q).x, params |-> r.e,
                  body |-> b.e])

Methods(p, list) ==
    IF Current(p) \in {"RIGHT_BRACE", "EOF"} THEN Pair(p, list)
    ELSE LET m == FunDeclaration(p) IN Methods(m.p, Append(list, m.e))

ClassDeclaration(p) ==
    LET q == Consume(p, "IDENTIFIER")
        s == Consume(Advance(q), "IDENTIFIER")
        super == NamedVariable(s, FALSE)
        h == IF ~ Check(q, "LESS") THEN Pair(q, <<>>)
             ELSE IF Previous(q).x = Previous(s).x
             THEN Pair(Error(super.p, "inherit"), super.e) ELSE super
        m == Methods(Consume(h.p, "LEFT_BRACE"), <<>>)
    IN Pair(Consume(m.p, "RIGHT_BRACE"),
            [k |-> "class", name |-> Previous(q).x, super |-> h.e,
             methods |-> m.e])

PlaceAlias(p) ==
    LET l == Expression(p)
        q == Consume(l.p, "IDENTIFIER")
    IN Pair(Consume(q, "SEMICOLON"), [location |-> l.e, name |-> Previous(q).x])

Aliases(p, list) ==
    IF Current(p) \in {"RIGHT_BRACE", "EOF"} THEN Pair(p, list)
    ELSE LET a == PlaceAlias(p) IN Aliases(a.p, Append(list, a.e))

PlaceDeclaration(p) ==
    LET ty == Expression(p)
        braces == Check(ty.p, "LEFT_BRACE")
        m == Aliases(Advance(ty.p), <<>>)
        a == PlaceAlias(ty.p)
    IN IF braces
       THEN Pair(Consume(m.p, "RIGHT_BRACE"),
                 [k |-> "place", type |-> ty.e, aliases |-> m.e])
       ELSE Pair(a.p, [k |-> "place", type |-> ty.e, aliases |-> <<a.e>>])

DeclarationRule(p) ==
    LET q == Advance(p)
        d == CASE Check(p, "CLASS") -> ClassDeclaration(q)
               [] Check(p, "FUN") -> FunDeclaration(q)
               [] Check(p, "VAR") -> VarDeclaration(q)
               [] Current(p) \in TypeTokens -> VarDeclaration(p)
               [] Check(p, "PLACE") -> PlaceDeclaration(q)
               [] OTHER -> Statement(p)
    IN IF d.p.panicMode THEN Pair(Synchronize(d.p), d.e) ELSE d

Rule(rule, p, x) ==
    CASE rule = "precedence" -> PrecedenceRule(p, x)
      [] rule = "type" -> TypeRule(p)
      [] rule = "statement" -> StatementRule(p)
      [] rule = "declaration" -> DeclarationRule(p)

\* parse: the statements up to the end of the source.
RECURSIVE Statements(_, _)
StatementsAfter(d, stmts) == Statements(d.p, Append(stmts, d.e))
Statements(p, stmts) == IF Check(p, "EOF") THEN Pair(p, stmts)
                        ELSE StatementsAfter(Declaration(p), stmts)
Parse(toks) == Statements(Advance(NewParser(toks)), <<>>)
=============================================================================
