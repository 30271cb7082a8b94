----------------------------- MODULE LanguageMC -----------------------------
(***************************************************************************)
(* The projects and the requests of the runs of Handlers.  A line is       *)
(* written as words parted by blanks, 'x' for a string; a project that is  *)
(* not written here is printed from a tree (Printer), one per expression.  *)
(***************************************************************************)
EXTENDS Handlers, Arguments

CONSTANTS Reread,       \* project |-> whether the parser reads it as it is meant
          Meaning       \* story |-> form of a request |-> versions |-> what the source says

Ref == INSTANCE Semantics
Txt == INSTANCE Printer

-----------------------------------------------------------------------------
\* Lines of words into lines of tokens.
Punctuation == {"(", ")", "[", "]", "{", "}", ",", ":", ".", "?", "=", "==", "!=", "<", "<=", ">", ">=",
                "+", "-", "*", "/", "%", "++", "--", "+=", "-=", "->"}
At1(s, i) == SubSeq(s, i, i)
RECURSIVE Blanks(_), Split(_, _, _)
Blanks(s) == IF s # "" /\ At1(s, 1) = " " THEN 1 + Blanks(SubSeq(s, 2, Len(s))) ELSE 0
Split(s, i, from) ==
  CASE i > Len(s) -> IF i > from THEN <<SubSeq(s, from, i - 1)>> ELSE <<>>
    [] i <= Len(s) /\ At1(s, i) = " " ->
         (IF i > from THEN <<SubSeq(s, from, i - 1)>> ELSE <<>>) \o Split(s, i + 1, i + 1)
    [] OTHER -> Split(s, i + 1, from)
Token(x) == CASE x \in Punctuation -> Punct(x)
              [] At1(x, 1) = "'"   -> Tok("String", SubSeq(x, 2, Len(x) - 1))
              [] x \in DOMAIN Number -> Tok("Int", x)
              [] OTHER -> Txt!Word(x)
File(lines) == [i \in DOMAIN lines |->
  [width |-> Blanks(lines[i]), tabs |-> FALSE,
   toks |-> LET ws == Split(lines[i], 1, 1) IN [j \in DOMAIN ws |-> Token(ws[j])]]]

-----------------------------------------------------------------------------
\* Expressions over an int n: every pair of operators in both shapes, and
\* what binds tighter or looser than they do.
Arg == Ident("n")
One == Lit(Integer(1))
Two == Lit(Integer(2))
Ops == <<"or", "and", "==", "<", "+", "-", "*", "/", "%">>
Pairs == [k \in 1..81 |-> LET o == Ops[(k - 1) \div 9 + 1]  q == Ops[((k - 1) % 9) + 1]
                          IN <<Binary(o, Binary(q, Arg, Two), One), Binary(o, Arg, Binary(q, One, Two))>>]
Choose(c, a, b) == Node("Ternary", "", <<c, a, b>>)
Index(e, i) == Node("Index", "", <<e, i>>)
Array(es) == Node("List", "", es)
Entry(k, v) == Node("Entry", "", <<Lit(Str(k)), v>>)
Box(e) == Node("Dict", "", <<Entry("a", Arg), Entry("b", e), Entry("a", Two)>>)
Post(e) == Node("PostStep", "+", <<e>>)
Others ==
  <<Unary("-", Unary("-", Arg)), Unary("not", Binary("==", Arg, One)), Binary("==", Unary("not", Arg), One),
   Binary("and", Unary("not", Arg), Arg), Unary("-", Binary("+", Arg, One)), Binary("*", Unary("-", Arg), Two),
   Choose(Choose(Arg, One, Two), Arg, Two), Choose(Arg, Choose(Arg, One, Two), Choose(Two, Arg, Two)),
   Binary("+", Choose(Arg, One, Two), One), Choose(Binary("or", Arg, One), Arg, Binary("or", Arg, Two)),
   Index(Array(<<Arg, Two>>), One), Index(Array(<<Arg, Two>>), Unary("-", One)),
   Index(Array(<<Arg, Two>>), Choose(Arg, One, Arg)), Box(Arg), Box(Array(<<Box(One)>>)),
   Index(Box(One), Lit(Str("b"))), Node("Member", "a", <<Box(One)>>),
   Node("Call", "", <<Ident("len"), Box(One)>>), Node("Call", "", <<Ident("str"), Binary("<", Arg, Two)>>),
   Post(Arg), Node("PreStep", "-", <<Arg>>), Binary("-", Post(Arg), Node("PreStep", "+", <<Arg>>)),
   Binary("+", Array(<<Arg>>), Array(<<One, Box(Two)>>))>>
Exprs == FlattenSeq(Pairs) \o Others

IntParam == Node("Param", "n", <<Type("int", <<>>), Missing>>)
TreeOf(e) == [NoProgram EXCEPT !.routes =
  <<[method |-> "GET", pattern |-> "/e", params |-> <<IntParam>>, origins |-> <<>>, guards |-> <<>>,
     body |-> Block(<<Node("Return", "", <<e>>)>>)]>>]

-----------------------------------------------------------------------------
\* Projects that are written: functions and loops, classes, bodies with rules
\* that may fail, errors and a session, groups, constants, limits, handlers that suspend,
\* layouts, uploads, paths, errors that are caught.
Flow == <<
  "fn void twice ( int x ) :",
  "    return x * 2",
  "fn void count ( int x , int k = 1 ) :",
  "    int total = 0",
  "    while k < x :",
  "        total = total + k",
  "        k ++",
  "    return total",
  "get endpoint ( '/a' , int n ) :",
  "    if n > 1 :",
  "        return twice ( count ( n ) )",
  "    else :",
  "        int x = 2",
  "        return x + n" >>
Turns == <<
  "get endpoint ( '/a' , int n ) :",
  "    int x = 0",
  "    for int i in [ 1 , n , 3 ] :",
  "        if i == 2 :",
  "            continue",
  "        elif i == 3 :",
  "            break",
  "        int n = i",
  "        x = x + n",
  "    return x - n" >>
Tries == <<
  "get endpoint ( '/a' , int n ) :",
  "    int total = n",
  "    try :",
  "        try :",
  "            total = total + [ 1 ] [ n ]",
  "        catch :",
  "            total = total / ( n - 3 )",
  "    catch e :",
  "        return { 'k' : e . message , 'a' : total }",
  "    return total" >>
Classes == <<
  "class Point :",
  "    int x",
  "    int y",
  "    Point ( int x ) :",
  "        this . x = x",
  "        this . y = 0",
  "    Point ( int x , int y )",
  "    fn void moved ( int dx = 1 ) :",
  "        return Point ( this . x + dx , this . y )",
  "get endpoint ( '/p' , int n ) :",
  "    Point p = Point ( n )",
  "    p . x ++",
  "    Point q = p . moved ( 2 )",
  "    q . y = p . moved ( ) . x",
  "    List xs = [ p , q ]",
  "    xs [ 1 ] . x = 0",
  "    return [ xs , p == q , xs . add ( n ) ]" >>
Bodies == <<
  "app :",
  "    session :",
  "        secret 's'",
  "class User :",
  "    string name",
  "    int age",
  "    float ? height",
  "    validate :",
  "        age > 0 'age'",
  "        len ( name ) > 1 'name'",
  "post endpoint ( '/u' , User u ) :",
  "    session . last = u . name",
  "    return u",
  "class Box :",
  "    int ? size",
  "    validate :",
  "        size > 0 'size'",
  "        2 / size > 1 'share'",
  "post endpoint ( '/b' , Box b ) :",
  "    return b",
  "get endpoint ( '/s' ) :",
  "    session . hits = state . incr ( 'k' )",
  "    require session . last == null else status ( 404 )",
  "    return session . last",
  "on error 404 :",
  "    return { 'code' : error . code }",
  "on error :",
  "    return error . messages" >>
Groups == <<
  "group ( '/admin' ) :",
  "    require state . get ( 'k' ) != 1 else status ( 404 )",
  "    get endpoint ( '/a' , int n = 1 ) :",
  "        return n",
  "    group ( 'inner/' ) :",
  "        require state . get ( 'b' , 0 ) == 1 else status ( 500 )",
  "        get endpoint ( '/' ) :",
  "            return 'k'" >>
Constants == <<
  "get endpoint ( '/j' ) :",
  "    return { 'a' : [ 1 , null ] , '__b' : 2 }",
  "get endpoint ( '/t' ) :",
  "    return text ( 'k' )",
  "get endpoint ( '/r' ) :",
  "    return redirect ( '/t' )",
  "get endpoint ( '/n' ) :",
  "    return status ( 404 )",
  "get endpoint ( '/c' ) :",
  "    return [ 1 + 1 ]",
  "on error 404 :",
  "    return error . code" >>
Limits == <<
  "fn void deep ( int x ) :",
  "    return deep ( x + 1 )",
  "get endpoint ( '/d' ) :",
  "    return deep ( 0 )",
  "get endpoint ( '/w' ) :",
  "    while true :",
  "        len ( 'k' )" >>
Waiting == <<
  "get endpoint ( '/z' , int n ) :",
  "    int total = n",
  "    while total < 2 :",
  "        await sleep ( 1 )",
  "        total ++",
  "    return total",
  "sse endpoint ( '/v' ) :",
  "    sse . send ( 1 )",
  "    await sleep ( 1 )",
  "    sse . send ( 'a' , 2 )",
  "get endpoint ( '/q' , int n ) :",
  "    return [ len ( 'ab' ) , n ]",
  "ws endpoint ( '/w' ) origins ( 'k' ) :",
  "    string m = await ws . recv ( )",
  "    while m != null :",
  "        ws . send ( m )",
  "        m = await ws . recv ( )" >>
Layouts == <<
  "get endpoint ( '/x' ) :",
  "    return str ( 1 )",
  "          . contains (",
  "  '1'",
  "    )",
  "get endpoint ( '/y' , int n , ) :",
  "    if n > 1 : ",
  "        return 1",
  "    return [",
  " 1 , n ,",
  "    ]" >>
Uploads == <<
  "post endpoint ( '/f' , File f , List < File > g , string t ) :",
  "    return [ f . name , len ( g ) , t , f . keys ( ) ]" >>

Routes == <<
  "get endpoint ( '/a/b/:x' , string x ) :",
  "    return x",
  "get endpoint ( '/a/:id' , string id ) :",
  "    return [ id ]",
  "get endpoint ( '/{m}/b' , string m ) :",
  "    return { 'k' : m }",
  "get endpoint ( '/a/*' ) :",
  "    return text ( 'k' )",
  "post endpoint ( '/:m/:x/b' , string m , string x ) :",
  "    return [ m , x ]",
  "post endpoint ( '/a/b/:x' , int x ) :",
  "    return x" >>

\* The versions of a project under edition; the second one does not compile.
Versions == <<
  << "get endpoint ( '/v' , int n ) :",
     "    await sleep ( 1 )",
     "    return [ 1 ] [ n ]",
     "on error :",
     "    return 'a'" >>,
  << "get endpoint ( '/v' , int n ) :",
     "    return m" >>,
  << "get endpoint ( '/{n}' , int n ) :",
     "    return n + 1",
     "on error :",
     "    return 'b'" >> >>

Written == <<Flow, Classes, Bodies, Groups, Constants, Limits, Waiting, Layouts, Uploads, Routes, Tries, Turns>>
Canonical == {1, 2, 6, 7, 11, 12}       \* written as Printer would
NoMeaning == {6}                \* what never ends has none

\* Numbers of projects and of stories: first the written ones, then the
\* expressions, a story each; then the versions, which make one.
Base == Len(Written) + Len(Exprs)
Edited == Base + 1
Independent == {7, Edited}      \* stories whose requests have no state in common
MCProjects == [i \in 1..Base + Len(Versions) |->
  CASE i <= Len(Written) -> <<File(Written[i])>>
    [] i > Base -> <<File(Versions[i - Base])>>
    [] OTHER -> <<Txt!Unparse(TreeOf(Exprs[i - Len(Written)]))>>]
MCStories == Append([i \in 1..Base |-> <<i>>], [v \in DOMAIN Versions |-> Base + v])

\* What the compiler makes of them: tables that are worked out once, and
\* that the runs give to Compiled, Reread and Meaning.
Parsed  == [i \in DOMAIN MCProjects |-> ParseProject(MCProjects[i])]
Modules == [i \in DOMAIN MCProjects |-> CompileFiles(MCProjects[i])]
MCCompiled == LET table == Modules IN table

\* The places of a chunk: what is reached in at most 2^k steps from S.
RECURSIVE Reached(_, _, _)
Reached(chunk, S, k) ==
  LET next == S \cup UNION {After(chunk, p) : p \in S}
  IN IF next = S \/ k = 0 THEN next ELSE Reached(chunk, Reached(chunk, S, k - 1), k - 1)
PlacesOf(mod) ==
  UNION {{<<c, p[1], p[2]>> : p \in Reached(mod.chunks[c], {<<1, 0>>}, 10)} : c \in DOMAIN mod.chunks}
Placings == [i \in DOMAIN MCCompiled |-> IF MCCompiled[i].ok THEN PlacesOf(MCCompiled[i]) ELSE {}]
MCDepths == LET table == Placings IN table

-----------------------------------------------------------------------------
\* The requests of a story.
Plain(method, url) ==
  [method |-> method, url |-> url, query |-> <<>>, form |-> NoForm, body |-> NotJson,
   session |-> <<>>, frames |-> <<>>]
Gets(url) == Plain("GET", url)
Posts(fields) == [Plain("POST", "/u") EXCEPT !.body = <<"Dict", fields>>]
Asks(url, text) == [Gets(url) EXCEPT !.query = << <<"n", Str(text)>> >>]
Boxes(fields) == [Plain("POST", "/b") EXCEPT !.body = <<"Dict", fields>>]
User(name, age) == << <<"name", name>>, <<"age", age>> >>
Seen == [Gets("/s") EXCEPT !.session = << <<"last", Str("k")>> >>]
Parts(form) == [Plain("POST", "/f") EXCEPT !.form = form]

FirstOf(i) ==
  LET url == IF i = 2 THEN "/p" ELSE "/a"
  IN CASE
       i \in {1, 2, 11, 12} -> {Asks(url, "0"), Asks(url, "1"), Asks(url, "3x"), Asks(url, "k"), Gets(url)}
    [] i = 3 -> {Posts(User(Str("ab"), Integer(1))), Posts(User(Str("a"), Integer(0))), Posts(User(Integer(1), Null)),
                 Posts(User(Str("ab"), Integer(1)) \o << <<"height", Integer(2)>> >>), Plain("POST", "/u"),
                 Posts(User(Str("ab"), Real(<<3, 2>>))), Posts(User(Str("ab"), Integer(1)) \o << <<"height", Str("")>> >>),
                 Posts(Tail(User(Null, Integer(1)))), Posts(User(Str("ab"), Integer(-1))),
                 [Posts(<<>>) EXCEPT !.body = <<"List", <<>> >>], Gets("/s"), Seen, Gets("/u"), Boxes(<<>>)}
                \cup {Boxes(<< <<"size", v>> >>) : v \in {Integer(0), Integer(1), Integer(2), Str("k")}}
    [] i = 4 -> {Gets("/admin/a"), Gets("/admin/inner"), Gets("/inner/")}
    [] i = 5 -> {Gets(url5) : url5 \in {"/j", "/t", "/r", "/n", "/c", "/j/t"}}
    [] i = 6 -> {Gets("/d"), Gets("/w")}
    [] i = 7 -> {Asks("/z", "0"), Gets("/v"), [Gets("/w") EXCEPT !.frames = <<"a", "b">>]}
    [] i = 8 -> {Gets("/x"), Asks("/y", "1"), Asks("/y", "2")}
    [] i = 9 -> {Plain("POST", "/f"), Parts(<< <<"t", FALSE, "ab">>, <<"f", FALSE, "a">> >>),
                 Parts(<< <<"g", TRUE, "a">>, <<"f", TRUE, "a">>, <<"g", TRUE, "">>, <<"t", FALSE, "ab">> >>)}
    [] i = 10 -> {Plain(m, to) : m \in {"GET", "POST"}, to \in {"/a/b/k", "/a/b", "/b/b/", "/a/b/b/k", "/a", "/"}}
    [] i = Edited -> {Asks("/v", "0"), Asks("/v", "1")}
    [] OTHER -> {Asks("/e", "0"), Asks("/e", "3")}
SecondOf(i) == CASE i = 3 -> {Seen}
                 [] i = 7 -> {Asks("/z", "0"), Asks("/z", "1"), Asks("/q", "2")}
                 [] i = Edited -> {Gets("/2")}
                 [] OTHER -> {}

MCArrivals == [i \in DOMAIN MCStories |-> [r \in Requests |-> IF r = "r1" THEN FirstOf(i) ELSE SecondOf(i)]]

-----------------------------------------------------------------------------
(***************************************************************************)
(* Properties.                                                             *)
(***************************************************************************)
\* The parser reads what the grammar says, with every precedence, layout and
\* association: a printed tree comes back as it was, and a program written
\* in the canonical form is printed again word for word.
Rereadings == [i \in DOMAIN MCProjects |->
  LET p == Parsed[i]
  IN /\ p.ok
     /\ i \in Len(Written) + 1..Base => p.e = TreeOf(Exprs[i - Len(Written)])
     /\ i \in Canonical => Txt!Unparse(p.e) = MCProjects[i][1]]
MCReread == LET table == Rereadings IN table
RoundTrip == Reread[Stories[story][live]]

-----------------------------------------------------------------------------
(***************************************************************************)
(* What a request means: its route, by the kinds of the segments of the    *)
(* patterns and not by a tree; its handler, by the tree of the program and *)
(* not by code.                                                            *)
(***************************************************************************)
Rank(seg) == CASE TypeOfSegment(seg) = "static" -> 1 [] TypeOfSegment(seg) = "param" -> 2 [] OTHER -> 3
Segments(p, i) == SplitPath(NormalizePattern(p.routes[i].pattern))
Suits(segs, path) ==
  /\ IF Last(segs) = "*" THEN Len(path) >= Len(segs) ELSE Len(path) = Len(segs)
  /\ \A i \in DOMAIN segs : Rank(segs[i]) = 1 => segs[i] = path[i]

\* The first segments that differ in kind decide, then the order.
Before(a, b, later) ==
  LET differ == {i \in DOMAIN a \cap DOMAIN b : Rank(a[i]) # Rank(b[i])}
      i == CHOOSE k \in differ : \A j \in differ : k <= j
  IN IF differ = {} THEN later ELSE Rank(a[i]) < Rank(b[i])
BestRoute(p, in) ==
  LET path == SplitPath(in.url)
      verbs == IF in.method = "GET" THEN {"GET", "SSE", "WS"} ELSE {in.method}
      fit == {i \in DOMAIN p.routes : p.routes[i].method \in verbs /\ Suits(Segments(p, i), path)}
  IN IF fit = {} THEN 0
     ELSE CHOOSE i \in fit : \A j \in fit \ {i} : Before(Segments(p, i), Segments(p, j), i > j)
PathOf(segs, url) ==
  FoldLeft(LAMBDA d, i : IF Rank(segs[i]) = 2 THEN Append(d, <<NameOf(segs[i]), SplitPath(url)[i]>>) ELSE d,
           <<>>, [i \in DOMAIN segs |-> i])

Blank == [heap |-> <<>>, store |-> <<>>, open |-> TRUE, ctx |-> Context(FALSE)]
Outcome0(p, mod, in, k) ==
  LET route == p.routes[k]
      begin == BeginAuth(mod, Blank, in)
      bound == PrepareArgs(mod, begin, mod.routes[k].binds, in @@ [path |-> PathOf(Segments(p, k), in.url)])
      out   == Ref!Handle(p, route, IF route.method \in Streams THEN [bound.w EXCEPT !.ctx.written = TRUE]
                                    ELSE bound.w, bound.args)
      last  == IF out.sig = "return" THEN out.v ELSE Null
      answered == IF out.sig = "error" THEN Respond(out.w, 500, <<"error", out.v>>)
                  ELSE IF out.w.ctx.written THEN out.w
                  ELSE IF last = Null THEN Respond(out.w, 204, <<"text", "">>)
                  ELSE Respond(out.w, out.w.ctx.status, Json(out.w.heap, last))
      fine == out.sig # "error" /\ route.method \notin Streams
  IN IF ~bound.ok THEN [w |-> bound.w, cookie |-> Unchanged, told |-> bound.messages]
     ELSE [w |-> IF route.method \in Streams THEN out.w ELSE answered,
           cookie |-> IF fine THEN EndAuth(mod, out.w) ELSE Unchanged, told |-> <<>>]

\* No route at all.
Lost(in) == [w |-> Respond(Blank, 404, NotFound(in.url).answer.body),
             cookie |-> Unchanged, told |-> <<>>]

Corrected(p, o) ==
  LET code == o.w.ctx.status
      of(c) == {e \in Range(p.errors) : e.code = c}
      decl == CHOOSE e \in IF of(code) # {} THEN of(code) ELSE of(0) : TRUE
      clean == [o.w EXCEPT !.ctx.body = NoBody, !.ctx.written = FALSE, !.ctx.keyed = FALSE,
                           !.ctx.code = code, !.ctx.messages = o.told]
      out == Ref!Run(p, [w |-> clean, env |-> <<>>, sig |-> "ok", v |-> Null], decl.body)
      said == IF out.sig = "return" /\ out.v # Null /\ ~out.w.ctx.written
              THEN Commit(out.w.ctx, Json(out.w.heap, out.v)) ELSE out.w.ctx
  IN IF code < 400 \/ of(code) \cup of(0) = {} THEN o.w.ctx
     ELSE [said EXCEPT !.status = code, !.body = IF @ = NoBody THEN o.w.ctx.body ELSE @]

\* What a body deserves, read from the tree of its class: it is "right"; it is
\* "wrong", for a field that is not as declared or a rule that it does not
\* satisfy; or nobody can say, as a rule fails at run time: "broken".
Typed(v, type) == CASE type \in {"string", "bool"} -> IsA(v, type)
                    [] type \in {"int", "long"}    -> IsA(v, "int")
                    [] OTHER                        -> IsNum(v)
Verdict(p, class, body) ==
  LET sent(f) == Find(body[2], f.name)
      scope   == Ref!Scope([i \in DOMAIN class.fields |-> class.fields[i].name],
                           [i \in DOMAIN class.fields |-> sent(class.fields[i])],
                           [i \in DOMAIN class.fields |-> ""])
      start   == [w |-> Blank, env |-> <<scope>>,
                  sig |-> "ok", v |-> Null]
      said(rule) == Ref!Eval(p, start, rule.kids[1])
      declared == /\ IsA(body, "Dict")
                  /\ \A f \in Range(class.fields) : IF sent(f) = Null THEN f.type = Optional(f.type)
                                                   ELSE Typed(sent(f), f.type.text)
      fails == \E rule \in Range(class.rules) : said(rule).sig = "error"
  IN CASE ~declared         -> "wrong"
       [] declared /\ fails -> "broken"
       [] OTHER -> IF \A rule \in Range(class.rules) : Truthy(<<>>, said(rule).v) THEN "right" ELSE "wrong"

\* Of a route with at most one body.
BodyOf(p, k, in) ==
  LET takes(class) == \E param \in Range(p.routes[k].params) : param.kids[1].text = class.name
      of == {class \in Range(p.classes) : takes(class)}
  IN IF of = {} THEN "right" ELSE Verdict(p, CHOOSE class \in of : TRUE, in.body)

\* p is the version it was dispatched with, q the one whose error handlers
\* saw it; nothing is said of a WebSocket.
MeaningOf(p, mod, q, in) ==
  LET k == BestRoute(p, in)
      o == IF k = 0 THEN Lost(in) ELSE Outcome0(p, mod, in, k)
      c == Corrected(q, o)
  IN IF k # 0 /\ p.routes[k].method = "WS" THEN [verdict |-> "right"]
     ELSE [status |-> c.status, body |-> c.body, sent |-> c.sent, cookie |-> o.cookie,
           verdict |-> IF k = 0 THEN "right" ELSE BodyOf(p, k, in)]
Served(s) == {v \in DOMAIN MCStories[s] : MCCompiled[MCStories[s][v]].ok}
Meanings == [s \in DOMAIN MCStories \ NoMeaning |-> [in \in FirstOf(s) \cup SecondOf(s) |->
  [v \in Served(s) \X Served(s) |->
    MeaningOf(Parsed[MCStories[s][v[1]]].e, MCCompiled[MCStories[s][v[1]]], Parsed[MCStories[s][v[2]]].e, in)]]]
MCMeaning == LET table == Meanings IN table

Meant(r) == Meaning[story][input[r]][<<under[r].version, under[r].fixed>>]

\* The answer of a route is the one its source means: the compiler, the
\* constant answers that skip the machine, the machine, the session and the
\* error handlers together do what a reader of the program expects, however
\* the handlers interleave.
Alone(r) == \A q \in Requests \ {r} : at[q] = "new" \/ story \in Independent
AnswersAsWritten ==
  \A r \in Requests :
    at[r] = "done" /\ Alone(r) /\ story \notin NoMeaning /\ Route(r).method # "WS" =>
      /\ ctx[r].status = Meant(r).status /\ ctx[r].body = Meant(r).body /\ ctx[r].sent = Meant(r).sent
      /\ cookie[r] = Meant(r).cookie

-----------------------------------------------------------------------------
\* A handler with a body runs exactly for the bodies its class accepts, the
\* optional fields, the conversions and the rules counted in.  Any other is
\* refused before it runs: as the client's fault with 400 or 422, unless the
\* fields are right and a rule fails at run time, a null compared or a division
\* by zero, which is 500 whatever the other rules say.
OnlyValidBodies ==
  \A r \in Requests : at[r] # "new" =>
    \A i \in DOMAIN Route(r).binds : Route(r).binds[i].kind = "body" =>
      CASE Meant(r).verdict = "right"  -> ctx[r].status = 200
        [] Meant(r).verdict = "wrong"  -> at[r] = "done" /\ ctx[r].status \in {400, 422}
        [] Meant(r).verdict = "broken" -> at[r] = "done" /\ ctx[r].status = 500

\* What the error handler is told is about its own request, although the
\* messages belong to the thread: "no pueden cruzarse peticiones"
\* (natives.hpp:157-159).  A constant answer and a handler that has waited do
\* not clear them, and may see those of another.
Told(r, mod, binds) == PrepareArgs(mod, BeginAuth(mod, World(r), input[r]), binds,
                                   input[r] @@ [path |-> under[r].path]).messages
OwnMessages ==
  \A r \in Requests : at[r] = "done" /\ Route(r).chunk # 0 /\ waits[r].for = "nothing" =>
    ctx[r].messages \in {<<>>, Told(r, ModuleOf(under[r].version), Route(r).binds)}

-----------------------------------------------------------------------------
\* Every request ends, those that loop or recurse for ever included: the
\* steps between two waits or two caught errors and the depth of the calls
\* are limited, a sleep is over at some point, and a WebSocket ends with its
\* client.  A loop that catches an error in each turn has no limit, as each
\* catch starts the count again (vm.cpp:146), and is none of the programs.
EveryRequestEnds ==
  \A r \in Requests : at[r] \in {"run", "wait"} ~> at[r] \in {"done", "gone"} \/ r \in lent

-----------------------------------------------------------------------------
(***************************************************************************)
(* A project whose handlers wait inside a function.                        *)
(***************************************************************************)
Nap == <<
  "fn void nap ( int x ) :",
  "    await sleep ( 1 )",
  "    return x",
  "get endpoint ( '/n' , int n ) :",
  "    return nap ( n )" >>
NapStories  == << <<1>> >>
NapModules  == <<CompileFiles(<<File(Nap)>>)>>
NapCompiled == LET table == NapModules IN table
NapDepths   == <<PlacesOf(NapCompiled[1])>>
NapArrivals == << [r \in Requests |-> {Asks("/n", "0"), Asks("/n", "1")}] >>

\* While a handler waits nobody touches its machine: "dos VM suspendidos a la
\* vez no pueden pisarse el estado" (vm.hpp:21-22).
OwnMachine ==
  [][\A r \in Requests : at[r] = "wait" /\ at'[r] = "wait" => MachineOf(r)' = MachineOf(r)]_vars
=============================================================================
