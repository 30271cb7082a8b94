------------------------------- MODULE Printer ------------------------------
(***************************************************************************)
(* Trees back into lines of tokens, with no parentheses but the necessary  *)
(* ones: the grammar of ODIO-GRAMMAR.md written a second time, to hold the *)
(* parser against.  Nothing of it is in the code.                          *)
(***************************************************************************)
EXTENDS Declarations

Keywords == Methods \cup { "app", "class", "fn", "group", "import", "on", "error", "endpoint", "origins",
              "static", "validate", "void", "this", "true", "false", "null", "await", "or", "and", "not",
              "return", "if", "elif", "else", "while", "for", "in", "require", "try", "catch", "break",
              "continue" }
Word(x)  == IF x \in Keywords THEN Tok(x, x) ELSE Tok("Ident", x)
Line(d, toks) == [width |-> 4 * d, tabs |-> FALSE, toks |-> toks]

RECURSIVE Commas(_)
Commas(parts) == IF Len(parts) < 2 THEN FlattenSeq(parts)
                 ELSE Head(parts) \o <<Punct(",")>> \o Commas(Tail(parts))

Literal(v) == CASE v[1] = "null"   -> Word("null")
                [] v[1] = "bool"   -> Word(IF v[2] THEN "true" ELSE "false")
                [] v[1] = "string" -> Tok("String", v[2])
                [] OTHER           -> Tok("Int", CHOOSE x \in DOMAIN Number : Number[x] = v[2])

LevelOf(e) == CASE e.kind = "Ternary" -> 0
                [] e.kind = "Binary"  -> CHOOSE n \in DOMAIN Operators : e.text \in Operators[n]
                [] e.kind = "Unary" /\ e.text = "not" -> 3
                [] e.kind \in {"Unary", "PreStep", "Await"} -> 8
                [] OTHER -> 9

RECURSIVE Show(_), ShowAt(_, _), ShowType(_)
ShowAt(e, n) == IF LevelOf(e) >= n THEN Show(e) ELSE <<Punct("(")>> \o Show(e) \o <<Punct(")")>>

ShowType(t) == <<Word(t.text)>>
               \o (IF t.kids = <<>> THEN <<>>
                   ELSE <<Punct("<")>> \o Commas([i \in DOMAIN t.kids |-> ShowType(t.kids[i])]) \o <<Punct(">")>>)
               \o (IF t = Optional(t) THEN <<Punct("?")>> ELSE <<>>)

Step2(e) == Punct(IF e.text = "+" THEN "++" ELSE "--")
Show(e) ==
  LET k == e.kids
      n == LevelOf(e)
      each == Commas([i \in DOMAIN k |-> Show(k[i])])
      args == Commas([i \in 1..Len(k) - 1 |-> Show(k[i + 1])])
  IN CASE e.kind = "Lit"     -> <<Literal(e.val)>>
       [] e.kind = "Ident"   -> <<Word(e.text)>>
       [] e.kind = "This"    -> <<Word("this")>>
       [] e.kind = "Named"   -> <<Word(e.text), Punct("=")>> \o Show(k[1])
       [] e.kind = "Entry"   -> Show(k[1]) \o <<Punct(":")>> \o Show(k[2])
       [] e.kind = "Ternary" -> ShowAt(k[1], 1) \o <<Punct("?")>> \o Show(k[2]) \o <<Punct(":")>> \o Show(k[3])
       [] e.kind = "Binary"  -> ShowAt(k[1], n)
                                \o <<IF e.text \in {"or", "and"} THEN Word(e.text) ELSE Punct(e.text)>>
                                \o ShowAt(k[2], n + 1)
       [] e.kind = "Unary"   -> <<IF e.text = "not" THEN Word("not") ELSE Punct("-")>> \o ShowAt(k[1], n)
       [] e.kind = "Await"   -> <<Word("await")>> \o ShowAt(k[1], 8)
       [] e.kind = "PreStep" -> <<Step2(e)>> \o ShowAt(k[1], 8)
       [] e.kind = "PostStep" -> ShowAt(k[1], 9) \o <<Step2(e)>>
       [] e.kind = "Member"  -> ShowAt(k[1], 9) \o <<Punct("."), Word(e.text)>>
       [] e.kind = "Index"   -> ShowAt(k[1], 9) \o <<Punct("[")>> \o Show(k[2]) \o <<Punct("]")>>
       [] e.kind = "Call"    -> ShowAt(k[1], 9) \o <<Punct("(")>> \o args \o <<Punct(")")>>
       [] e.kind = "List"    -> <<Punct("[")>> \o each \o <<Punct("]")>>
       [] OTHER              -> <<Punct("{")>> \o each \o <<Punct("}")>>

ShowParam(p) == ShowType(p.kids[1]) \o <<Word(p.text)>>
                \o (IF p.kids[2] = Missing THEN <<>> ELSE <<Punct("=")>> \o Show(p.kids[2]))
ShowParams(ps) == Commas([i \in DOMAIN ps |-> ShowParam(ps[i])])

-----------------------------------------------------------------------------
RECURSIVE Lines(_, _), Statement(_, _), Chain(_, _, _)
Lines(d, block) == FlattenSeq([i \in DOMAIN block.kids |-> Statement(d, block.kids[i])])
Headed(d, head, block) == <<Line(d, head \o <<Punct(":")>>)>> \o Lines(d + 1, block)

\* An if, and what its else holds: another if is an elif.
Chain(d, word, s) ==
  Headed(d, <<Word(word)>> \o Show(s.kids[1]), s.kids[2])
  \o (CASE s.kids[3].kids = <<>> -> <<>>
        [] Len(s.kids[3].kids) = 1 /\ s.kids[3].kids[1].kind = "If" -> Chain(d, "elif", s.kids[3].kids[1])
        [] OTHER -> Headed(d, <<Word("else")>>, s.kids[3]))

Statement(d, s) ==
  LET k == s.kids
      value(e) == IF e = Missing THEN <<>> ELSE Show(e)
  IN CASE s.kind = "Return"   -> <<Line(d, <<Word("return")>> \o value(k[1]))>>
       [] s.kind = "ExprStmt" -> <<Line(d, Show(k[1]))>>
       [] s.kind = "VarDecl"  -> <<Line(d, ShowType(k[2]) \o <<Word(s.text)>>
                                     \o (IF k[1] = Missing THEN <<>> ELSE <<Punct("=")>> \o Show(k[1])))>>
       [] s.kind = "Assign"   -> <<Line(d, Show(k[1]) \o <<Punct("=")>> \o Show(k[2]))>>
       [] s.kind = "If"       -> Chain(d, "if", s)
       [] s.kind = "While"    -> Headed(d, <<Word("while")>> \o Show(k[1]), k[2])
       [] s.kind = "For"      -> Headed(d, <<Word("for")>> \o ShowType(k[3])
                                           \o <<Word(s.text), Word("in")>> \o Show(k[1]), k[2])
       [] s.kind = "Require"  -> <<Line(d, <<Word("require")>> \o Show(k[1]) \o <<Word("else")>> \o Show(k[2]))>>
       [] s.kind = "Try"      -> Headed(d, <<Word("try")>>, k[1])
                                 \o Headed(d, <<Word("catch")>> \o (IF s.text = "" THEN <<>> ELSE <<Word(s.text)>>), k[2])
       [] OTHER               -> <<Line(d, <<Word(IF s.kind = "Break" THEN "break" ELSE "continue")>>)>>

-----------------------------------------------------------------------------
ShowRoute(r) ==
  Headed(0, <<Word(CHOOSE m \in Methods : MethodOf[m] = r.method), Word("endpoint"), Punct("("),
              Tok("String", r.pattern)>>
            \o (IF r.params = <<>> THEN <<>> ELSE <<Punct(",")>> \o ShowParams(r.params)) \o <<Punct(")")>>
            \o (IF r.origins = <<>> THEN <<>>
                ELSE <<Word("origins"), Punct("(")>>
                     \o Commas([i \in DOMAIN r.origins |-> <<Tok("String", r.origins[i])>>]) \o <<Punct(")")>>),
         Block(r.guards \o r.body.kids))

Signed(head, f) == head \o <<Punct("(")>> \o ShowParams(f.params) \o <<Punct(")")>>
ShowFn(d, f) == Headed(d, Signed(<<Word("fn"), Word("void"), Word(f.name)>>, f), f.body)

ShowClass(c) ==
  <<Line(0, <<Word("class"), Word(c.name), Punct(":")>>)>>
  \o [i \in DOMAIN c.fields |-> Line(1, ShowType(c.fields[i].type) \o <<Word(c.fields[i].name)>>)]
  \o (IF c.rules = <<>> THEN <<>>
      ELSE <<Line(1, <<Word("validate"), Punct(":")>>)>>
           \o [i \in DOMAIN c.rules |-> Line(2, Show(c.rules[i].kids[1]) \o <<Tok("String", c.rules[i].text)>>)])
  \o FlattenSeq([i \in DOMAIN c.ctors |->
       IF c.ctors[i].name = "body" THEN Headed(1, Signed(<<Word(c.name)>>, c.ctors[i]), c.ctors[i].body)
       ELSE <<Line(1, Signed(<<Word(c.name)>>, c.ctors[i]))>>])
  \o FlattenSeq([i \in DOMAIN c.methods |-> ShowFn(1, c.methods[i])])

ShowError(e) ==
  Headed(0, <<Word("on"), Word("error")>>
            \o (IF e.code = 0 THEN <<>> ELSE <<Literal(Integer(e.code))>>), e.body)

\* The lines of a program, its declarations by kind.
Unparse(p) ==
  FlattenSeq([i \in DOMAIN p.classes |-> ShowClass(p.classes[i])])
  \o FlattenSeq([i \in DOMAIN p.functions |-> ShowFn(0, p.functions[i])])
  \o FlattenSeq([i \in DOMAIN p.routes |-> ShowRoute(p.routes[i])])
  \o FlattenSeq([i \in DOMAIN p.errors |-> ShowError(p.errors[i])])
=============================================================================
