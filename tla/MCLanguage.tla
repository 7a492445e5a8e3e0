----------------------------- MODULE MCLanguage -----------------------------
(***************************************************************************)
(* The programs of the language run.  A program is written with a blank    *)
(* between its words; the ones whose output the repository's tests state   *)
(* are shortened from src/test/yarg-expect.                                *)
(***************************************************************************)
EXTENDS Language

\* The words of a text, which a blank separates.
Words(text) ==
    LET ends == SelectSeq([i \in 1 .. Len(text) + 2 |-> i - 1], LAMBDA i :
                    i \in {0, Len(text) + 1} \/ SubSeq(text, i, i) = " ")
    IN [i \in 1 .. Len(ends) - 1 |-> SubSeq(text, ends[i] + 1, ends[i + 1] - 1)]

N(n) == [n |-> n]
S(s) == [s |-> s]
B(b) == [b |-> b]
NilText == [a |-> "nil"]
Case(text, out, end) == [text |-> text, out |-> out, end |-> end]

\* Variables, control, numbers.
Plain == <<
    Case("var a = 1 ; var b = 2 ; print a + b * 3 ; if ( a < b ) print \"less\" ; else print \"more\" ;",
         <<N(7), S("less")>>, "ok"),
    Case("for ( var i = 0 ; i < 2 ; i = i + 1 ) { var j = i ; print j ; }",
         <<N(0), N(1)>>, "ok"),
    Case("var a = 0 ; while ( a < 2 ) { a = a + 1 ; } print a ;", <<N(2)>>, "ok"),
    Case("print nil or 3 ; print false and 3 ; print ! true ; print 1 != 2 ; print 2 >= 1 ;",
         <<N(3), B(FALSE), B(FALSE), B(TRUE), B(TRUE)>>, "ok"),
    Case("print 300 ; print 70000 ; print 20000000 ; print 2.0 + 1.0 ;",
         <<N(300), N(70000), N(20000000), N(3)>>, "ok"),
    Case("if ( nil ) print 1 ; { var b = 3 ; if ( false ) { var c ; } else { print b ; } print 2 ; }",
         <<N(3), N(2)>>, "ok"),
    Case("var a = 5 ; { var a = a ; }", <<>>, "rejected"),
    Case("print missing ;", <<>>, "failed"),
    Case("print ( 3 + 4 ) * 2 - 1 ; print - 7 % 3 ; print 7 / 2 ;",
         <<N(13), N(2), N(3)>>, "ok"),
    Case("error \"bad\" ;", <<>>, "failed"),
    Case("poke @x20 , 1 ; place uint32 @x10 led ; poke led , 5 ;",
         <<[poke |-> <<32, 1>>], [poke |-> <<16, 5>>]>>, "ok")>>

\* Functions and closures.
Closures == <<
    Case("fun make ( ) { var i = 0 ; fun count ( ) { i = i + 1 ; return i ; } return count ; } var c = make ( ) ; print c ( ) ; print c ( ) ;",
         <<N(1), N(2)>>, "ok"),
    \* closure/nested_closure.ya
    Case("var f ; fun f1 ( ) { var a = \"a\" ; fun f2 ( ) { var b = \"b\" ; fun f3 ( ) { print a ; print b ; } f = f3 ; } f2 ( ) ; } f1 ( ) ; f ( ) ;",
         <<S("a"), S("b")>>, "ok"),
    \* closure/assign_to_shadowed_later.ya, close_over_later_variable.ya
    Case("fun f ( ) { var a = \"a\" ; var b = \"b\" ; fun g ( ) { print b ; print a ; } g ( ) ; } f ( ) ;",
         <<S("b"), S("a")>>, "ok"),
    \* closure/reuse_closure_slot.ya
    Case("{ var f ; { var a = \"a\" ; fun g ( ) { print a ; } f = g ; } { var b = \"b\" ; f ( ) ; } }",
         <<S("a")>>, "ok"),
    Case("var f ; for ( var i = 0 ; i < 2 ; i = i + 1 ) { var j = i ; fun g ( ) { print j ; j = 7 ; } f = g ; } f ( ) ; f ( ) ;",
         <<N(1), N(7)>>, "ok"),
    \* two closures of one variable
    Case("var get ; var set ; fun f ( ) { var a = 1 ; fun g ( ) { print a ; } fun s ( ) { a = 2 ; } get = g ; set = s ; } f ( ) ; set ( ) ; get ( ) ;",
         <<N(2)>>, "ok"),
    Case("fun f ( ) { var r ; { var a = 1 ; fun g ( ) { a = a + 1 ; return a ; } r = g ; g ( ) ; return r ; } } print f ( ) ( ) ;",
         <<N(3)>>, "ok"),
    Case("fun f ( n ) { if ( n < 2 ) return n ; return f ( n - 1 ) + f ( n - 2 ) ; } print f ( 3 ) ;",
         <<N(2)>>, "ok"),
    Case("{ int8 x = 1 ; fun set ( v ) { x = v ; } set ( 5 ) ; print x ; set ( \"no\" ) ; }",
         <<N(5)>>, "failed"),
    Case("fun f ( n ) { return f ( n ) ; } f ( 1 ) ;", <<>>, "failed"),
    Case("fun f ( ) { yield 1 ; } f ( ) ;", <<>>, "failed"),
    Case("fun f ( a , b ) { if ( a ) return b ; } print f ( true , 2 ) ; print f ( false , 2 ) ; f ( 1 ) ;",
         <<N(2), NilText>>, "failed")>>

Classes == <<
    Case("class A { init ( x ) { this . x = x ; } get ( ) { return this . x ; } } class B < A { get ( ) { var m = super . get ; return m ( ) + super . get ( ) ; } } var b = B ( 4 ) ; print b . get ( ) ; var g = b . get ; b . x = 5 ; print g ( ) ;",
         <<N(8), N(10)>>, "ok"),
    Case("class A { m ( ) { var t = this ; fun f ( ) { return t . x ; } return f ; } } var a = A ( ) ; a . x = 3 ; var f = a . m ( ) ; print f ( ) ; a . h = f ; print a . h ( ) ;",
         <<N(3), N(3)>>, "ok"),
    Case("var a = 1 ; class B < a { }", <<>>, "failed")>>

Containers == <<
    Case("struct { int8 x ; any y ; } s ; s . x = 5 ; var t = s ; t . x = 6 ; print s . x ; print t . x ; s . x = 9 ;",
         <<N(5), N(6)>>, "failed"),
    \* a struct is copied to a parameter and from it
    Case("struct { int8 x ; } s ; fun f ( t ) { t . x = 3 ; return t ; } var u = f ( s ) ; print s . x ; print u . x ;",
         <<N(0), N(3)>>, "ok"),
    Case("var a = new ( struct { int8 x ; } [ 2 ] ) ; a [ 1 ] . x = 3 ; print a [ 1 ] . x ; print a [ 0 ] . x ;",
         <<N(3), N(0)>>, "ok"),
    Case("struct { f ; } s ; fun g ( ) { print 1 ; } s . f = g ; s . f ( ) ; print s [ 0 ] == g ;",
         <<N(1), B(TRUE)>>, "ok"),
    Case("int8 [ 2 ] a ; a [ 0 ] = 7 ; var b = a ; b [ 1 ] = 3 ; print a [ 1 ] ; print len ( a ) ; a [ 2 ] = 1 ;",
         <<N(3), N(2)>>, "failed"),
    Case("var l = [ 1 , \"two\" ] ; print l [ 1 ] ; l [ 0 ] = nil ; print l [ 0 ] ;",
         <<S("two"), NilText>>, "ok"),
    Case("var m = [ \"k\" : 1 , \"j\" : 2 ] ; print m [ \"k\" ] ; m [ \"z\" ] = 3 ; print len ( m ) ; print m [ \"none\" ] ;",
         <<N(1), N(3), NilText>>, "ok"),
    Case("var p = new ( int8 ) ; * p = 5 ; var q = p ; * q = 6 ; print * p ; * p = 9 ;",
         <<N(6)>>, "failed"),
    Case("var p = new ( int8 ) ; var q = p ; print p == q ; print p == new ( int8 ) ;",
         <<B(TRUE), B(FALSE)>>, "ok"),
    Case("var p = new ( struct { int8 x ; int8 [ 2 ] a ; } ) ; * p . x = 4 ; * p . a [ 1 ] = 5 ; print * p . x ; print * p . a [ 1 ] ;",
         <<N(4), N(5)>>, "ok"),
    Case("int8 x = 5 ; bool b = true ; string s = \"a\" ; any v = x ; print v ; x = 8 ;",
         <<N(5)>>, "failed"),
    Case("print string ( 5 ) + \"a\" ; print uint8 ( 15 ) ; print uint8 ( 16 ) ;",
         <<S("5a"), N(15)>>, "silent"),
    Case("print uint8 ( 5 ) & uint8 ( 3 ) ; print uint8 ( 1 ) << uint8 ( 2 ) ; print - int8 ( 3 ) ;",
         <<N(1), N(4), N(-3)>>, "ok")>>

Written == Plain \o Closures \o Classes \o Containers

\* A struct or an array is assigned to a whole element: of a type that is not
\* placeable, whose first leaf is then written again or read through another
\* view, and of one that is. No output is stated for these: yargtype.h says that
\* a struct is copied, and the code does not copy it.
Assigned == <<
    "var a = new ( struct { string s ; int8 x ; } [ 2 ] ) ; struct { string s ; int8 x ; } t ; t . s = \"a\" ; t . x = 5 ; a [ 1 ] = t ; print a [ 1 ] . s ; print a [ 1 ] . x ;",
    "struct { struct { string s ; int8 x ; } in ; } o ; struct { string s ; int8 x ; } t ; o . in = t ; o . in . x = 2 ; print t . x ; o . in . s = \"b\" ; print o . in . s ; string u = o . in . s ; o . in = t ; u = o . in . s ;",
    "struct { string [ 2 ] r ; } o ; string [ 2 ] c ; o . r = c ; o . r [ 1 ] = \"b\" ; print c [ 1 ] ; print o . r [ 0 ] ;",
    "struct { int8 x ; } [ 2 ] a ; struct { int8 x ; } t ; a [ 0 ] = t ;">>

\* One operator on two typed numbers, at the edges of the types.
Ops == <<"+", "-", "*", "/", "%", "<", "==", "&", ">>">>
Types == <<"int8", "uint8", "int16", "uint16", "int32", "uint32", "int64", "uint64">>
Edges(t) == <<MinOf(t), 1, MaxOf(t), IF t \in Signed THEN -3 ELSE 6>>
\* Literals on both sides of the edges.
Literals(t) == <<MinOf(t) - 1, 1, MaxOf(t), MaxOf(t) + 1>>
Text(n) == IF n < 0 THEN <<"-", ToString(-n)>> ELSE <<ToString(n)>>
Typed(t, n) == <<t, "(">> \o Text(n) \o <<")">>
Print1(a, op, b) == <<"print">> \o a \o <<op>> \o b \o <<";">>
\* The k-th calculation: operator, type, two edges, and whether the second is
\* a literal.
Digit(k, base, below) == 1 + ((k \div below) % base)
Calculation(k) ==
    LET t == Types[Digit(k, 8, 1)]
        op == Ops[Digit(k, 9, 8)]
        a == Edges(t)[Digit(k, 4, 72)]
        j == Digit(k, 4, 288)
    IN Print1(Typed(t, a), op, IF k < 1152 THEN Typed(t, Edges(t)[j])
                               ELSE Text(Literals(t)[j]))
Calculations == [k \in 1 .. 2304 |-> Calculation(k - 1)]

Sources(texts) == [i \in DOMAIN texts |-> Words(texts[i])]
MCPrograms == Sources([i \in DOMAIN Written |-> Written[i].text]) \o Sources(Assigned) \o Calculations
MCExpected == [i \in DOMAIN Written |-> [out |-> Written[i].out, end |-> Written[i].end]]
MCCuttable == DOMAIN Written

Numerals == (0 .. 7) \cup {-MinOf(t) : t \in Signed} \cup {1 - MinOf(t) : t \in Signed}
            \cup {MaxOf(t) : t \in Fixed} \cup {MaxOf(t) + 1 : t \in Fixed} \cup {16, 300, 70000, 20000000}
MCNumberText == "2.0" :> [form |-> "float", n |-> 2] @@ "1.0" :> [form |-> "float", n |-> 1]
    @@ [w \in {ToString(n) : n \in Numerals} |->
            [form |-> "int", n |-> CHOOSE n \in Numerals : ToString(n) = w]]
MCStringText == [w \in {"\"a\"", "\"b\"", "\"k\"", "\"j\"", "\"z\"", "\"no\"", "\"bad\"",
                        "\"two\"", "\"less\"", "\"more\"", "\"none\""} |->
                    SubSeq(w, 2, Len(w) - 1)]
MCAddressText == "@x10" :> 16 @@ "@x20" :> 32
=============================================================================
