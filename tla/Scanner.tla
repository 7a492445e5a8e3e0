------------------------------ MODULE Scanner ------------------------------
(***************************************************************************)
(* The scanner of Yarg (src/cyarg/scanner.c): words to tokens.             *)
(*                                                                         *)
(* A source is a sequence of words, the runs of characters that            *)
(* skipWhitespace and the longest match separate.  What a number, a string *)
(* or an address is worth is a parameter; the keywords and the punctuation *)
(* are the scanner's own.                                                  *)
(***************************************************************************)
EXTENDS Integers, Sequences, TLC

CONSTANTS
    NumberText,     \* the number words: their form ("int", "float", "bad") and n
    StringText,     \* the words in quotes: their text
    AddressText     \* the address words, @x...: their n

\* The cases of identifierType, by first letter.  The case for "co" has no
\* break and runs into the one for "cp".
KeywordsAtoI ==
    "and" :> "AND" @@ "any" :> "ANY" @@ "bool" :> "BOOL" @@ "break" :> "BREAK"
    @@ "class" :> "CLASS" @@ "compile" :> "COMPILE" @@ "const" :> "CONST"
    @@ "continue" :> "CONTINUE" @@ "cpeek" :> "CPEEK" @@ "coeek" :> "CPEEK"
    @@ "defer" :> "DEFER" @@ "else" :> "ELSE" @@ "error" :> "STMT_ERROR"
    @@ "false" :> "FALSE" @@ "for" :> "FOR" @@ "fun" :> "FUN" @@ "if" :> "IF"
    @@ "int" :> "INT" @@ "int8" :> "INT8" @@ "int16" :> "INT16"
    @@ "int32" :> "INT32" @@ "int64" :> "INT64"

\* The case for "te" has no break either: it runs into the one for "th".
KeywordsLtoT ==
    "len" :> "LEN" @@ "load" :> "LOAD" @@ "make_channel" :> "MAKE_CHANNEL"
    @@ "make_routine" :> "MAKE_ROUTINE" @@ "make_sync_group" :> "MAKE_SYNCGROUP"
    @@ "mfloat64" :> "MACHINE_FLOAT64" @@ "new" :> "NEW" @@ "nil" :> "NIL"
    @@ "or" :> "OR" @@ "peek" :> "PEEK" @@ "pin" :> "PIN" @@ "place" :> "PLACE"
    @@ "poke" :> "POKE" @@ "print" :> "PRINT"
    @@ "read_yarg_source" :> "READ_YARG_SOURCE" @@ "receive" :> "RECEIVE"
    @@ "resume" :> "RESUME" @@ "return" :> "RETURN" @@ "send" :> "SEND"
    @@ "share" :> "SHARE" @@ "start" :> "START" @@ "string" :> "TYPE_STRING"
    @@ "struct" :> "STRUCT" @@ "super" :> "SUPER"
    @@ "test_interrupt" :> "TS_INTERRUPT" @@ "test_read" :> "TS_READ"
    @@ "test_set" :> "TS_SET" @@ "test_sync" :> "TS_SYNC"
    @@ "test_write" :> "TS_WRITE" @@ "this" :> "THIS" @@ "teis" :> "THIS"
    @@ "true" :> "TRUE"

KeywordsUtoY ==
    "uint8" :> "UINT8" @@ "uint16" :> "UINT16" @@ "uint32" :> "UINT32"
    @@ "uint64" :> "UINT64" @@ "var" :> "VAR"
    @@ "vm_read_xip_file" :> "VM_READ_XIP_FILE" @@ "while" :> "WHILE"
    @@ "yield" :> "YIELD"

Keywords == KeywordsAtoI @@ KeywordsLtoT @@ KeywordsUtoY

\* The switch of scanToken.
Punctuation ==
    "(" :> "LEFT_PAREN" @@ ")" :> "RIGHT_PAREN" @@ "{" :> "LEFT_BRACE"
    @@ "}" :> "RIGHT_BRACE" @@ "[" :> "LEFT_SQUARE_BRACKET"
    @@ "]" :> "RIGHT_SQUARE_BRACKET" @@ ";" :> "SEMICOLON" @@ "," :> "COMMA"
    @@ "." :> "DOT" @@ "-" :> "MINUS" @@ "+" :> "PLUS" @@ "/" :> "SLASH"
    @@ "*" :> "STAR" @@ "|" :> "BAR" @@ "&" :> "AMP" @@ "^" :> "CARET"
    @@ "%" :> "PERCENT" @@ ":" :> "COLON" @@ "@" :> "AT" @@ "!" :> "BANG"
    @@ "!=" :> "BANG_EQUAL" @@ "=" :> "EQUAL" @@ "==" :> "EQUAL_EQUAL"
    @@ "<" :> "LESS" @@ "<<" :> "LEFT_SHIFT" @@ "<=" :> "LESS_EQUAL"
    @@ ">" :> "GREATER" @@ ">>" :> "RIGHT_SHIFT" @@ ">=" :> "GREATER_EQUAL"

\* Characters no case takes.
Unexpected == {"#", "$", "?", "~"}

ScanToken(w) ==
    CASE w \in DOMAIN Keywords -> [t |-> Keywords[w], x |-> w]
      [] w \in DOMAIN Punctuation -> [t |-> Punctuation[w], x |-> w]
      [] w \in DOMAIN NumberText -> [t |-> "NUMBER", x |-> w,
                                     form |-> NumberText[w].form,
                                     n |-> NumberText[w].n]
      [] w \in DOMAIN StringText -> [t |-> "STRING", x |-> StringText[w]]
      [] w \in DOMAIN AddressText -> [t |-> "ADDRESS", x |-> w,
                                      n |-> AddressText[w]]
      [] w \in Unexpected -> [t |-> "ERROR", x |-> w]
      [] OTHER -> [t |-> "IDENTIFIER", x |-> w]

\* The tokens of a source; its end is scanned last, and for ever.
Scan(words) == Append([i \in DOMAIN words |-> ScanToken(words[i])],
                      [t |-> "EOF", x |-> ""])
=============================================================================
