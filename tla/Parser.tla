------------------------------- MODULE Parser -------------------------------
(***************************************************************************)
(* The recursive-descent parser of parser.cpp, over the tokens of Lexer.   *)
(* An operator takes the tokens that remain (the last one, EndOfFile, is   *)
(* never passed) and gives [e |-> what it built, r |-> what remains,       *)
(* ok |-> nothing was reported].  Messages and locations are left out.     *)
(***************************************************************************)
EXTENDS Ast, Lexer, FiniteSets

Got(e, r, ok) == [e |-> e, r |-> r, ok |-> ok]

At(r)     == Head(r).t
Text(r)   == Head(r).x
AtEnd(r)  == At(r) \in {"Dedent", "EndOfFile"}
Adv(r)    == IF Len(r) > 1 THEN Tail(r) ELSE r
Second(r) == IF Len(r) > 1 THEN r[2] ELSE r[1]

\* match() where the result does not depend on it, and expect().
Skip(r, t)   == IF At(r) = t THEN Adv(r) ELSE r
Expect(s, t) == [s EXCEPT !.r = Skip(@, t), !.ok = @ /\ At(s.r) = t]

RECURSIVE SkipNewlines(_), SkipLine(_), Synchronize(_, _)
SkipNewlines(r) == IF At(r) = "Newline" THEN SkipNewlines(Adv(r)) ELSE r

\* What follows an unusable line inside a block.
SkipLine(r) == IF At(r) = "Newline" \/ AtEnd(r) THEN r ELSE SkipLine(Adv(r))

MethodOf == [get |-> "GET", post |-> "POST", put |-> "PUT", patch |-> "PATCH",
             delete |-> "DELETE", any |-> "*", sse |-> "SSE", ws |-> "WS"]
Methods      == DOMAIN MethodOf
Declarations == Methods \cup {"app", "class", "fn", "group", "import", "on"}

\* synchronize(): to the next declaration at this depth.
Synchronize(r, depth) ==
  CASE At(r) = "EndOfFile" \/ (At(r) \in Declarations /\ depth = 0) -> r
    [] At(r) = "Indent" -> Synchronize(Adv(r), depth + 1)
    [] At(r) = "Dedent" /\ depth > 0 -> Synchronize(Adv(r), depth - 1)
    [] OTHER -> Synchronize(Adv(r), depth)

Bail(out, r) == Got(out, Synchronize(r, 0), FALSE)

\* strtol on the numbers the models write.
Number == [x \in {"0", "1", "2", "3", "404", "500", "200", "8080", "70000"} |->
             CASE x = "0" -> 0 [] x = "1" -> 1 [] x = "2" -> 2 [] x = "3" -> 3
               [] x = "404" -> 404 [] x = "500" -> 500 [] x = "200" -> 200
               [] x = "8080" -> 8080 [] OTHER -> 70000]

-----------------------------------------------------------------------------
RECURSIVE ParseExpr(_), ParseLevel(_, _), LeftChain(_, _), ParseUnary(_), ParsePostfix(_),
          ParsePrimary(_), ParseItems(_, _, _), ParseType(_), ParseTypeArgs(_),
          ParseStatement(_), ParseStatements(_), ParseIf(_)

(***************************************************************************)
(* Types.  A declaration is told from an expression by looking ahead: a    *)
(* name, its <...>, a '?', and then another name.                          *)
(***************************************************************************)
ParseTypeArgs(s) ==
  LET a == ParseType(s.r)
      t == Got(Append(s.e, a.e), a.r, s.ok /\ a.ok)
  IN IF At(a.r) = "," THEN ParseTypeArgs([t EXCEPT !.r = Adv(@)]) ELSE t

ParseType(r) ==
  IF At(r) = "void" THEN Got(Type("void", <<>>), Adv(r), TRUE)
  ELSE IF At(r) # "Ident" THEN Got(NoType, r, FALSE)
  ELSE LET args == IF At(Adv(r)) = "<"
                   THEN Expect(ParseTypeArgs(Got(<<>>, Adv(Adv(r)), TRUE)), ">")
                   ELSE Got(<<>>, Adv(r), TRUE)
           type == Type(Text(r), args.e)
       IN Got(IF At(args.r) = "?" THEN Optional(type) ELSE type, Skip(args.r, "?"), args.ok)

RECURSIVE CloseAngle(_, _, _)
CloseAngle(r, j, depth) ==      \* the place after the '>' that closes, 0 if none
  IF j > Len(r) \/ r[j].t \in {"Newline", "EndOfFile"} THEN 0
  ELSE IF r[j].t = ">" /\ depth = 1 THEN j + 1
  ELSE CloseAngle(r, j + 1, CASE r[j].t = "<" -> depth + 1 [] r[j].t = ">" -> depth - 1
                              [] OTHER -> depth)

LooksLikeType(r) ==
  LET Kind(j) == IF j > Len(r) THEN "EndOfFile" ELSE r[j].t
      j == IF Kind(2) = "<" THEN CloseAngle(r, 2, 0) ELSE 2
  IN /\ At(r) \in {"Ident", "void"} /\ j # 0
     /\ Kind(IF Kind(j) = "?" THEN j + 1 ELSE j) = "Ident"

ParseParam(r) ==
  LET t == ParseType(r)
      named == At(t.r) = "Ident"
      after == Skip(t.r, "Ident")
      d == IF At(after) = "=" THEN ParseExpr(Adv(after)) ELSE Got(Missing, after, TRUE)
  IN Got(Node("Param", IF named THEN Text(t.r) ELSE "", <<t.e, d.e>>), d.r, t.ok /\ named /\ d.ok)

(***************************************************************************)
(* Comma lists: parameters, arguments (named after positional), the        *)
(* entries of a Dict, the elements of a List.                              *)
(***************************************************************************)
ParseItem(what, r, before) ==
  CASE what = "param" -> ParseParam(r)
    [] what = "entry" ->
         LET k == Expect(ParseExpr(r), ":")  v == ParseExpr(k.r)
         IN Got(Node("Entry", "", <<k.e, v.e>>), v.r, k.ok /\ v.ok)
    [] what = "arg" /\ At(r) = "Ident" /\ Second(r).t = "=" ->
         LET v == ParseExpr(Adv(Adv(r))) IN Got(Node("Named", Text(r), <<v.e>>), v.r, v.ok)
    [] what = "arg" ->
         LET v == ParseExpr(r)
         IN [v EXCEPT !.ok = @ /\ \A i \in DOMAIN before : before[i].kind # "Named"]
    [] OTHER -> ParseExpr(r)

ParseItems(what, close, s) ==
  IF At(s.r) \in {close, "EndOfFile"} THEN s
  ELSE LET i == ParseItem(what, s.r, s.e)
           t == Got(Append(s.e, i.e), i.r, s.ok /\ i.ok)
       IN IF At(i.r) = "," THEN ParseItems(what, close, [t EXCEPT !.r = Adv(@)]) ELSE t

ParseList(what, close, r) == Expect(ParseItems(what, close, Got(<<>>, r, TRUE)), close)

(***************************************************************************)
(* Expressions: one level per precedence, `not` between and and ==.        *)
(***************************************************************************)
Operators == << {"or"}, {"and"}, {}, {"==", "!="}, {"<", "<=", ">", ">="},
                {"+", "-"}, {"*", "/", "%"} >>

ParseExpr(r) ==
  LET c == ParseLevel(1, r)
      a == Expect(ParseExpr(Adv(c.r)), ":")
      b == ParseExpr(a.r)
  IN IF At(c.r) # "?" THEN c
     ELSE Got(Node("Ternary", "", <<c.e, a.e, b.e>>), b.r, c.ok /\ a.ok /\ b.ok)

ParseLevel(n, r) ==
  CASE n = 8 -> ParseUnary(r)
    [] n = 3 /\ At(r) = "not" ->
         LET e == ParseLevel(3, Adv(r)) IN Got(Unary("not", e.e), e.r, e.ok)
    [] n = 3 /\ At(r) # "not" -> ParseLevel(4, r)
    [] OTHER -> LeftChain(n, ParseLevel(n + 1, r))

\* Mutant: the operators of a level associate to the right.
RightChain(n, l) ==
  LET e == ParseLevel(n, Adv(l.r))
  IN IF At(l.r) \in Operators[n] THEN Got(Binary(At(l.r), l.e, e.e), e.r, l.ok /\ e.ok) ELSE l

LeftChain(n, l) ==
  IF At(l.r) \in Operators[n]
  THEN LET e == ParseLevel(n + 1, Adv(l.r))
       IN LeftChain(n, Got(Binary(At(l.r), l.e, e.e), e.r, l.ok /\ e.ok))
  ELSE l

Sign(t) == IF t = "++" THEN "+" ELSE "-"

ParseUnary(r) ==
  LET e == ParseUnary(Adv(r))
  IN CASE At(r) \in {"++", "--"} ->
            Got(Node("PreStep", Sign(At(r)), <<e.e>>), e.r, e.ok /\ Assignable(e.e))
       [] At(r) = "-" -> Got(Unary("-", e.e), e.r, e.ok)
       [] OTHER -> ParsePostfix(ParsePrimary(r))

\* After a dot a keyword is a name; a call, an index and x++ chain.
ParsePostfix(s) ==
  LET r == s.r
      args  == ParseList("arg", ")", Adv(r))
      index == Expect(ParseExpr(Adv(r)), "]")
      named == Text(Adv(r)) # "" \/ At(Adv(r)) = "Ident"
  IN CASE At(r) \in {"++", "--"} ->
            ParsePostfix(Got(Node("PostStep", Sign(At(r)), <<s.e>>), Adv(r), s.ok /\ Assignable(s.e)))
       [] At(r) = "." ->
            ParsePostfix(Got(Node("Member", IF named THEN Text(Adv(r)) ELSE "", <<s.e>>),
                             IF named THEN Adv(Adv(r)) ELSE Adv(r), s.ok /\ named))
       [] At(r) = "(" -> ParsePostfix(Got(Node("Call", "", <<s.e>> \o args.e), args.r, s.ok /\ args.ok))
       [] At(r) = "[" -> ParsePostfix(Got(Node("Index", "", <<s.e, index.e>>), index.r, s.ok /\ index.ok))
       [] OTHER -> s

ParsePrimary(r) ==
  LET next == Adv(r)
  IN CASE At(r) = "String" -> Got(Lit(Str(Text(r))), next, TRUE)
       [] At(r) = "Int"    -> Got(Lit(Integer(Number[Text(r)])), next, TRUE)
       [] At(r) \in {"true", "false"} -> Got(Lit(Boolean(At(r) = "true")), next, TRUE)
       [] At(r) = "null"   -> Got(Lit(Null), next, TRUE)
       [] At(r) = "this"   -> Got(Node("This", "", <<>>), next, TRUE)
       [] At(r) = "await"  -> LET e == ParseUnary(next) IN Got(Node("Await", "", <<e.e>>), e.r, e.ok)
       [] At(r) \in {"Ident", "sse", "ws", "error"} -> Got(Ident(Text(r)), next, TRUE)
       [] At(r) = "("      -> Expect(ParseExpr(next), ")")
       [] At(r) = "["      -> LET l == ParseList("element", "]", next)
                              IN Got(Node("List", "", l.e), l.r, l.ok)
       [] At(r) = "{"      -> LET d == ParseList("entry", "}", next)
                              IN Got(Node("Dict", "", d.e), d.r, d.ok)
       [] OTHER            -> Got(Lit(Null), next, FALSE)

\* parse_single_expression(), for the templates: nothing may be left over.
ParseSingleExpression(toks) ==
  LET e == ParseExpr(SkipNewlines(toks))
      rest == SkipNewlines(e.r)
  IN IF At(SkipNewlines(toks)) = "EndOfFile" THEN Got(Missing, toks, FALSE)
     ELSE [e EXCEPT !.r = rest, !.ok = @ /\ At(rest) = "EndOfFile"]

-----------------------------------------------------------------------------
(***************************************************************************)
(* Statements.                                                             *)
(***************************************************************************)
\* parse_block(): a statement that consumes nothing is skipped over.
ParseStatements(s) ==
  LET r == SkipNewlines(s.r)
      t == ParseStatement(r)
      n == SkipNewlines(t.r)
  IN IF AtEnd(r) THEN [s EXCEPT !.r = Skip(r, "Dedent")]
     ELSE ParseStatements(Got(IF t.e = Missing THEN s.e ELSE Append(s.e, t.e),
                              IF n = r THEN Adv(n) ELSE n, s.ok /\ t.ok))

ParseBlock(r) ==
  LET open == Expect(Got(<<>>, SkipNewlines(r), TRUE), "Indent")
      s == ParseStatements(open)
  IN IF open.ok THEN Got(Block(s.e), s.r, s.ok) ELSE Got(Block(<<>>), open.r, FALSE)

\* The ':' and the block of a compound statement whose head is `s`.
Body(s) == LET c == Expect(s, ":")  b == ParseBlock(c.r) IN Got(b.e, b.r, c.ok /\ b.ok)

\* parse_if() and parse_if_from_elif(): an elif, or an else followed by if,
\* is an If of its own in the else branch.
ParseIf(r) ==
  LET cond == ParseExpr(Adv(r))
      then == Body(cond)
      n == SkipNewlines(then.r)
      other == CASE At(n) = "elif" -> ParseIf(n)
                 [] At(n) = "else" /\ At(Adv(n)) = "if" -> ParseIf(Adv(n))
                 [] At(n) = "else" /\ At(Adv(n)) # "if" -> Body(Got(Missing, Adv(n), TRUE))
                 [] OTHER -> Got(Block(<<>>), n, TRUE)
      orelse == IF other.e.kind = "If" THEN Block(<<other.e>>) ELSE other.e
  IN Got(Node("If", "", <<cond.e, then.e, orelse>>), other.r, cond.ok /\ then.ok /\ other.ok)

ParseWhile(r) ==
  LET cond == ParseExpr(Adv(r))  body == Body(cond)
  IN Got(Node("While", "", <<cond.e, body.e>>), body.r, body.ok)

ParseFor(r) ==
  LET t == ParseType(Adv(r))
      named == At(t.r) = "Ident"
      in == Expect(Got(Missing, Skip(t.r, "Ident"), t.ok /\ named), "in")
      xs == ParseExpr(in.r)
      body == Body(xs)
  IN Got(Node("For", IF named THEN Text(t.r) ELSE "", <<xs.e, body.e, t.e>>), body.r,
         in.ok /\ body.ok)

ParseRequire(r) ==
  LET cond == ParseExpr(Adv(r))
      else == Expect(cond, "else")
      other == ParseExpr(else.r)
  IN IF At(cond.r) # "else" THEN Got(Node("Require", "", <<cond.e, Missing>>), cond.r, FALSE)
     ELSE Got(Node("Require", "", <<cond.e, other.e>>), other.r, else.ok /\ other.ok)

ParseTry(r) ==
  LET body == Body(Got(Missing, Adv(r), TRUE))
      catch == Expect([body EXCEPT !.r = SkipNewlines(@)], "catch")
      name == IF At(catch.r) = "Ident" THEN Text(catch.r) ELSE ""
      handler == Body([catch EXCEPT !.r = Skip(@, "Ident")])
  IN IF At(SkipNewlines(body.r)) # "catch"
     THEN Got(Node("Try", "", <<body.e, Block(<<>>)>>), catch.r, FALSE)
     ELSE Got(Node("Try", name, <<body.e, handler.e>>), handler.r, handler.ok)

ParseReturn(r) ==
  IF At(Adv(r)) \in {"Newline", "Dedent", "EndOfFile"}
  THEN Got(Node("Return", "", <<Missing>>), Adv(r), TRUE)
  ELSE LET e == ParseExpr(Adv(r)) IN Got(Node("Return", "", <<e.e>>), e.r, e.ok)

ParseVarDecl(r) ==
  LET t == ParseType(r)
      named == At(t.r) = "Ident"
      after == Skip(t.r, "Ident")
      v == IF At(after) = "=" THEN ParseExpr(Adv(after)) ELSE Got(Missing, after, TRUE)
  IN Got(Node("VarDecl", IF named THEN Text(t.r) ELSE "", <<v.e, t.e>>), v.r, t.ok /\ named /\ v.ok)

\* clone_target(): the receiver is copied, and the left operand of an Index;
\* every other child of the copy is null.
RECURSIVE CloneTarget(_)
CloneTarget(e) ==
  LET kept == CASE e.kind = "Index" -> 2 [] e.kind \in {"Member", "Call"} -> 1 [] OTHER -> 0
      slots == IF e.kind \in {"Binary", "Unary", "Ternary", "Await", "PreStep", "PostStep"}
               THEN Len(e.kids) ELSE kept
  IN [e EXCEPT !.kids = [i \in 1..slots |-> IF i <= kept THEN CloneTarget(e.kids[i]) ELSE Missing]]

Compound == [t \in {"+=", "-=", "*=", "/=", "%="} |->
               CASE t = "+=" -> "+" [] t = "-=" -> "-" [] t = "*=" -> "*"
                 [] t = "/=" -> "/" [] OTHER -> "%"]

\* An assignment, plain or compound, or an expression whose value is dropped.
ParseExprStatement(r) ==
  LET e == ParseExpr(r)
      v == ParseExpr(Adv(e.r))
  IN CASE At(e.r) \in DOMAIN Compound /\ ~Assignable(e.e) -> Got(Missing, Adv(e.r), FALSE)
       [] At(e.r) \in DOMAIN Compound /\ Assignable(e.e) ->
            Got(Node("Assign", "", <<e.e, Binary(Compound[At(e.r)], CloneTarget(e.e), v.e)>>),
                v.r, e.ok /\ v.ok)
       [] At(e.r) = "=" -> Got(Node("Assign", "", <<e.e, v.e>>), v.r, e.ok /\ v.ok)
       [] OTHER -> Got(Node("ExprStmt", "", <<e.e>>), e.r, e.ok)

ParseStatement(r) ==
  CASE At(r) = "return"   -> ParseReturn(r)
    [] At(r) = "if"       -> ParseIf(r)
    [] At(r) = "while"    -> ParseWhile(r)
    [] At(r) = "for"      -> ParseFor(r)
    [] At(r) = "require"  -> ParseRequire(r)
    [] At(r) = "try"      -> ParseTry(r)
    [] At(r) = "break"    -> Got(Node("Break", "", <<>>), Adv(r), TRUE)
    [] At(r) = "continue" -> Got(Node("Continue", "", <<>>), Adv(r), TRUE)
    [] LooksLikeType(r)   -> ParseVarDecl(r)
    [] OTHER              -> ParseExprStatement(r)
=============================================================================
