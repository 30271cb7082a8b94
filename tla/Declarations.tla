---------------------------- MODULE Declarations ----------------------------
(***************************************************************************)
(* The declarations of parser.cpp: routes, groups with their guards,       *)
(* functions, error handlers, classes, the app block and the imports.      *)
(* Every file of a project is parsed into the same Program, in the order   *)
(* the files are given.                                                    *)
(***************************************************************************)
EXTENDS Parser

NoProgram ==
  [imports |-> {}, classes |-> <<>>, functions |-> <<>>, routes |-> <<>>,
   errors |-> <<>>, app |-> FALSE, settings |-> <<>>, statics |-> <<>>]

Names(decls) == {decls[i].name : i \in DOMAIN decls}

\* A declaration gives the Program as it leaves it, what remains, and whether
\* nothing was reported: Got(out, r, ok).
Add(out, field, decl) == [out EXCEPT ![field] = Append(@, decl)]

-----------------------------------------------------------------------------
(***************************************************************************)
(* Routes and groups.                                                      *)
(***************************************************************************)
First(s) == SubSeq(s, 1, 1)
Chop(s)  == IF s # "" /\ SubSeq(s, Len(s), Len(s)) = "/" THEN SubSeq(s, 1, Len(s) - 1) ELSE s
Rooted(s) == s # "" /\ First(s) = "/"

\* The pattern of a route under the prefix of its groups.
RoutePattern(prefix, pattern) ==
  LET p == Chop(prefix)
  IN CASE prefix = ""      -> pattern
       [] prefix # "" /\ pattern = "/" -> IF p = "" THEN "/" ELSE p
       [] prefix # "" /\ Rooted(pattern) /\ pattern # "/" -> p \o pattern
       [] OTHER            -> p \o "/" \o pattern

GroupPrefix(prefix, own) ==
  LET p == Chop(prefix)
  IN IF own \in {"", "/"} THEN p
     ELSE Chop(p \o (IF Rooted(own) THEN own ELSE "/" \o own))

\* The parameters that follow the pattern, a comma before each, and one more
\* tolerated at the end.
RECURSIVE RouteParams(_)
RouteParams(s) ==
  IF At(s.r) # "," THEN s
  ELSE IF At(Adv(s.r)) = ")" THEN [s EXCEPT !.r = Adv(@)]
  ELSE LET p == ParseParam(Adv(s.r)) IN RouteParams(Got(Append(s.e, p.e), p.r, s.ok /\ p.ok))

RECURSIVE Origins(_)
Origins(s) ==
  IF At(s.r) \in {")", "EndOfFile"} THEN s
  ELSE LET t == IF At(s.r) = "String" THEN Got(Append(s.e, Text(s.r)), Adv(s.r), s.ok)
                ELSE Got(s.e, Adv(s.r), FALSE)
       IN IF At(t.r) = "," THEN Origins([t EXCEPT !.r = Adv(@)]) ELSE t

ParseRoute(out, r0, prefix, guards) ==
  LET open    == Adv(Adv(r0))
      pattern == Adv(open)
      params  == RouteParams(Got(<<>>, Adv(pattern), TRUE))
      close   == Adv(params.r)
      origins == IF At(close) # "origins" THEN Got(<<>>, close, TRUE)
                 ELSE LET o == Expect(Got(<<>>, Adv(close), TRUE), "(") IN Expect(Origins(o), ")")
      body    == ParseBlock(Adv(origins.r))
  IN CASE At(Adv(r0)) # "endpoint" -> Bail(out, Adv(r0))
       [] At(Adv(r0)) = "endpoint" /\ At(open) # "(" -> Bail(out, open)
       [] At(Adv(r0)) = "endpoint" /\ At(open) = "(" /\ At(pattern) # "String" -> Bail(out, pattern)
       [] OTHER ->
            IF At(params.r) # ")" THEN Bail(out, params.r)
            ELSE IF At(origins.r) # ":" THEN Bail(out, origins.r)
            ELSE Got(Add(out, "routes",
                       [method |-> MethodOf[At(r0)], pattern |-> RoutePattern(prefix, Text(pattern)),
                        params |-> params.e, origins |-> origins.e, guards |-> guards, body |-> body.e]),
                     body.r, params.ok /\ origins.ok /\ body.ok)

\* The members of a group: its guards, which come first and add to those of
\* the groups around it, its routes and the groups inside it.
RECURSIVE ParseGroup(_, _, _, _), GroupMembers(_, _, _, _)
GroupMembers(s, prefix, guards, seenRoute) ==
  LET r == SkipNewlines(s.r)
      cond == Expect(ParseExpr(Adv(r)), "else")
      other == IF At(ParseExpr(Adv(r)).r) = "else" THEN ParseExpr(cond.r) ELSE [cond EXCEPT !.e = Missing]
      t == CASE At(r) = "group"    -> ParseGroup(s.e, r, prefix, guards)
             [] At(r) \in Methods  -> ParseRoute(s.e, r, prefix, guards)
             [] At(r) = "require"  -> Got(s.e, other.r, cond.ok /\ other.ok /\ ~seenRoute)
             [] OTHER              -> Got(s.e, SkipLine(r), FALSE)
      n == SkipNewlines(t.r)
  IN IF AtEnd(r) THEN [s EXCEPT !.r = Skip(r, "Dedent")]
     ELSE GroupMembers(Got(t.e, IF n = r THEN Adv(n) ELSE n, s.ok /\ t.ok), prefix,
                       IF At(r) = "require"
                       THEN Append(guards, Node("Require", "", <<cond.e, other.e>>)) ELSE guards,
                       seenRoute \/ At(r) \in Methods \cup {"group"})

ParseGroup(out, r0, prefix, guards) ==
  LET named == At(Adv(Adv(r0))) = "String"
      own   == IF named THEN Text(Adv(Adv(r0))) ELSE ""
      close == Skip(Adv(Adv(r0)), "String")
      body  == SkipNewlines(Adv(Adv(close)))
  IN CASE At(Adv(r0)) # "(" -> Bail(out, Adv(r0))
       [] At(Adv(r0)) = "(" /\ At(close) # ")" -> Bail(out, close)
       [] At(Adv(r0)) = "(" /\ At(close) = ")" /\ At(Adv(close)) # ":" -> Bail(out, Adv(close))
       [] OTHER -> IF At(body) # "Indent" THEN Bail(out, body)
                   ELSE GroupMembers(Got(out, Adv(body), named), GroupPrefix(prefix, own), guards, FALSE)

-----------------------------------------------------------------------------
(***************************************************************************)
(* Functions, error handlers and classes.                                  *)
(***************************************************************************)
Callable(name, params, body) == [name |-> name, params |-> params, body |-> body]

ParseFn(out, r0) ==
  LET t    == ParseType(Adv(r0))
      open == Adv(t.r)
      ps   == ParseItems("param", ")", Got(<<>>, Adv(open), TRUE))
      body == ParseBlock(Adv(Adv(ps.r)))
  IN IF At(t.r) # "Ident" THEN Bail(out, t.r)
     ELSE IF At(open) # "(" THEN Bail(out, open)
     ELSE IF At(ps.r) # ")" THEN Bail(out, ps.r)
     ELSE IF At(Adv(ps.r)) # ":" THEN Bail(out, Adv(ps.r))
     ELSE Got(Add(out, "functions", Callable(Text(t.r), ps.e, body.e)), body.r,
              t.ok /\ ps.ok /\ body.ok /\ Text(t.r) \notin Names(out.functions))

\* `on error 404:` covers one of the codes the engine makes, `on error:` all.
ParseError(out, r0) ==
  LET coded == At(Adv(Adv(r0))) = "Int"
      code  == IF coded THEN Number[Text(Adv(Adv(r0)))] ELSE 0
      colon == Skip(Adv(Adv(r0)), "Int")
      body  == ParseBlock(Adv(colon))
      known == {out.errors[i].code : i \in DOMAIN out.errors}
  IN IF At(Adv(r0)) # "error" THEN Bail(out, Adv(r0))
     ELSE IF coded /\ code \notin 400..599 THEN Bail(out, colon)
     ELSE IF At(colon) # ":" THEN Bail(out, colon)
     ELSE Got(Add(out, "errors", [code |-> code, body |-> body.e]), body.r,
              body.ok /\ code \notin known)

\* The rules of a validate block: an expression and its message.
RECURSIVE ValidateRules(_)
ValidateRules(s) ==
  LET r == SkipNewlines(s.r)
      c == ParseExpr(r)
  IN IF AtEnd(r) THEN [s EXCEPT !.r = Skip(r, "Dedent")]
     ELSE ValidateRules(Got(Append(s.e, Node("Rule", Text(c.r), <<c.e>>)), SkipNewlines(Skip(c.r, "String")),
                            s.ok /\ c.ok /\ At(c.r) = "String"))

\* The head and the body of a method or of a constructor, after its name.
Signature(r) == LET open == Expect(Got(<<>>, r, TRUE), "(")
                IN Expect(ParseItems("param", ")", open), ")")

ClassMember(c, r) ==
  LET colon  == Expect(Got(<<>>, Adv(r), TRUE), ":")
      open   == SkipNewlines(colon.r)
      rules  == ValidateRules(Got(<<>>, Adv(open), colon.ok))
      t      == ParseType(Adv(r))
      msig   == Signature(Adv(t.r))
      mbody  == Body(msig)
      csig   == Signature(Adv(r))
      cbody  == Body(csig)
      arities == {Len(c.ctors[i].params) : i \in DOMAIN c.ctors}
      f      == ParseType(r)
      fname  == IF At(f.r) = "Ident" THEN Text(f.r) ELSE ""
  IN CASE At(r) = "validate" ->
            IF At(open) # "Indent" THEN Got(c, open, FALSE)
            ELSE Got([c EXCEPT !.rules = @ \o rules.e], rules.r, rules.ok)
       [] At(r) = "fn" ->
            IF At(t.r) # "Ident" THEN Got(c, t.r, FALSE)
            ELSE Got([c EXCEPT !.methods = Append(@, Callable(Text(t.r), msig.e, mbody.e))],
                     mbody.r, t.ok /\ mbody.ok /\ msig.ok /\ Text(t.r) \notin Names(c.methods))
       [] At(r) = "Ident" /\ Text(r) = c.name /\ Second(r).t = "(" ->
            IF At(csig.r) = ":"
            THEN Got([c EXCEPT !.ctors = Append(@, Callable("body", csig.e, cbody.e))], cbody.r,
                     csig.ok /\ cbody.ok /\ Len(csig.e) \notin arities)
            ELSE Got([c EXCEPT !.ctors = Append(@, Callable("mapped", csig.e, Block(<<>>)))], csig.r,
                     csig.ok /\ Len(csig.e) \notin arities)
       [] OTHER ->
            Got([c EXCEPT !.fields = Append(@, [name |-> fname, type |-> f.e])], Skip(f.r, "Ident"),
                f.ok /\ At(f.r) = "Ident" /\ fname \notin Names(c.fields))

\* An unusable validate or method ends the class where it stands.
GivesUp(r) == \/ At(r) = "validate" /\ At(SkipNewlines(Skip(Adv(r), ":"))) # "Indent"
              \/ At(r) = "fn" /\ At(ParseType(Adv(r)).r) # "Ident"

RECURSIVE ClassMembers(_)
ClassMembers(s) ==
  LET r == SkipNewlines(s.r)
      m == ClassMember(s.e, r)
      n == SkipNewlines(m.r)
  IN IF AtEnd(r) THEN [s EXCEPT !.r = Skip(r, "Dedent")]
     ELSE IF GivesUp(r) THEN Got(m.e, Skip(m.r, "Dedent"), FALSE)
     ELSE ClassMembers(Got(m.e, IF n = r THEN Adv(n) ELSE n, s.ok /\ m.ok))

ParseClass(out, r0) ==
  LET name == Text(Adv(r0))
      colon == Adv(Adv(r0))
      body == SkipNewlines(Adv(colon))
      c == ClassMembers(Got([name |-> name, fields |-> <<>>, rules |-> <<>>, methods |-> <<>>,
                             ctors |-> <<>>], Adv(body), TRUE))
  IN IF At(Adv(r0)) # "Ident" THEN Bail(out, Adv(r0))
     ELSE IF At(colon) # ":" THEN Bail(out, colon)
     ELSE IF At(body) # "Indent" THEN Bail(out, body)
     ELSE Got(Add(out, "classes", c.e), c.r, c.ok /\ c.e.fields # <<>>)
-----------------------------------------------------------------------------
(***************************************************************************)
(* The app block.  Settings holds <<section, key, value>> in the order     *)
(* written; a later one replaces an earlier one.                           *)
(***************************************************************************)
\* config_value(): a string (env("X") counts as one), a number or a boolean.
ConfigValue(r) ==
  LET env == At(r) = "Ident" /\ Text(r) = "env" /\ Second(r).t = "("
      name == Adv(Adv(r))
      close == Expect(Got("string", Adv(name), TRUE), ")")
  IN CASE At(r) = "String" -> Got("string", Adv(r), TRUE)
       [] At(r) = "Int"    -> Got("int", Adv(r), TRUE)
       [] At(r) \in {"true", "false"} -> Got("bool", Adv(r), TRUE)
       [] env /\ At(name) = "String" -> close
       [] env /\ At(name) # "String" -> Got("none", name, FALSE)
       [] OTHER -> Got("none", r, FALSE)

\* The keys the sub-blocks know, with their type; a module's are any.
Expected == [session |-> << <<"secret", "string">>, <<"max_age", "int">>, <<"secure", "bool">> >>,
             jwt     |-> << <<"secret", "string">>, <<"issuer", "string">> >>]
Accepts(section, key, type) ==
  section \in DOMAIN Expected => <<key, type>> \in {Expected[section][i] : i \in DOMAIN Expected[section]}

RECURSIVE SubBlock(_, _)
SubBlock(s, section) ==
  LET r == SkipNewlines(s.r)
      v == ConfigValue(Adv(r))
  IN IF AtEnd(r) THEN [s EXCEPT !.r = Skip(r, "Dedent")]
     ELSE IF At(r) # "Ident" THEN SubBlock(Got(s.e, Adv(r), FALSE), section)
     ELSE IF v.e = "none" THEN SubBlock(Got(s.e, SkipLine(v.r), FALSE), section)
     ELSE IF ~Accepts(section, Text(r), v.e) THEN SubBlock(Got(s.e, SkipNewlines(v.r), FALSE), section)
     ELSE SubBlock(Got([s.e EXCEPT !.settings = Append(@, <<section, Text(r), v.e>>)],
                       SkipNewlines(v.r), s.ok /\ v.ok), section)

\* One key of the block; a module's section is known only once imported.
AppKey(out, r) ==
  LET key == Text(r)
      v   == Adv(r)
      root == Skip(Expect(Got(<<>>, Skip(v, "String"), TRUE), "->").r, "String")
      colon == Expect(Got(out, v, TRUE), ":")
      open == SkipNewlines(colon.r)
      Set(value) == [out EXCEPT !.settings = Append(@, <<"app", key, value>>)]
  IN CASE At(r) = "static" ->
            Got([out EXCEPT !.statics = Append(@, [prefix |-> Text(v), spa |-> At(root) = "spa"])],
                Skip(root, "spa"), At(v) = "String" /\ At(Adv(v)) = "->" /\ At(Adv(Adv(v))) = "String")
       [] At(r) = "Ident" /\ key \in {"name", "version", "templates"} ->
            IF At(v) = "String" THEN Got(Set(Text(v)), Adv(v), TRUE) ELSE Got(out, v, FALSE)
       [] At(r) = "Ident" /\ key = "port" ->
            IF At(v) # "Int" THEN Got(out, v, FALSE)
            ELSE IF Number[Text(v)] \in 1..65535 THEN Got(Set(Text(v)), Adv(v), TRUE)
            ELSE Got(out, Adv(v), FALSE)
       [] At(r) = "Ident" /\ key \in {"docs", "health", "metrics"} -> Got(Set("true"), v, TRUE)
       [] At(r) = "Ident" /\ key \in out.imports \cup DOMAIN Expected ->
            IF At(open) = "Indent" THEN SubBlock(Got(out, Adv(open), colon.ok), key)
            ELSE Got(out, open, FALSE)
       [] OTHER -> Got(out, SkipLine(r), FALSE)

\* A section without its block ends the app block where it stands.
Opens(out, r) ==
  At(r) = "Ident" /\ Text(r) \in out.imports \cup DOMAIN Expected =>
    At(SkipNewlines(Skip(Adv(r), ":"))) = "Indent"

RECURSIVE AppKeys(_)
AppKeys(s) ==
  LET r == SkipNewlines(s.r)
      k == AppKey(s.e, r)
  IN IF AtEnd(r) THEN [s EXCEPT !.r = Skip(r, "Dedent")]
     ELSE IF ~Opens(s.e, r) THEN Got(k.e, Skip(k.r, "Dedent"), FALSE)
     ELSE AppKeys(Got(k.e, SkipNewlines(k.r), s.ok /\ k.ok))

ParseApp(out, r0) ==
  LET body == SkipNewlines(Adv(Adv(r0)))
      seen == [out EXCEPT !.app = TRUE]
  IN IF At(Adv(r0)) # ":" THEN Bail(seen, Adv(r0))
     ELSE IF At(body) # "Indent" THEN Bail(seen, body)
     ELSE AppKeys(Got(seen, Adv(body), ~out.app))

ParseImport(out, r0) ==
  IF At(Adv(r0)) # "Ident" THEN Bail(out, Adv(r0))
  ELSE Got([out EXCEPT !.imports = @ \cup {Text(Adv(r0))}], Adv(Adv(r0)),
           Text(Adv(r0)) \notin out.imports)

ParseDeclaration(out, r) ==
  CASE At(r) \in Methods -> ParseRoute(out, r, "", <<>>)
    [] At(r) = "group"   -> ParseGroup(out, r, "", <<>>)
    [] At(r) = "app"     -> ParseApp(out, r)
    [] At(r) = "class"   -> ParseClass(out, r)
    [] At(r) = "on"      -> ParseError(out, r)
    [] At(r) = "fn"      -> ParseFn(out, r)
    [] At(r) = "import"  -> ParseImport(out, r)
    [] OTHER             -> Bail(out, r)

\* parse_into(): always ends, for a declaration that consumes nothing is
\* stepped over.
RECURSIVE ParseInto(_)
ParseInto(s) ==
  LET r == SkipNewlines(s.r)
      d == ParseDeclaration(s.e, r)
      n == SkipNewlines(d.r)
  IN IF At(r) = "EndOfFile" THEN [s EXCEPT !.r = r]
     ELSE ParseInto(Got(d.e, IF n = r THEN Adv(n) ELSE n, s.ok /\ d.ok))

\* A project: every file is lexed and parsed into the same Program.
ParseFile(s, lines) ==
  LET t == Tokenize(lines)
      p == ParseInto(Got(s.e, t.toks, TRUE))
  IN [e |-> p.e, ok |-> s.ok /\ t.ok /\ p.ok]

ParseProject(files) == FoldLeft(ParseFile, [e |-> NoProgram, ok |-> TRUE], files)
=============================================================================
