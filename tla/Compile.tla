------------------------------- MODULE Compile ------------------------------
(***************************************************************************)
(* compile() of project.cpp: from the files of a project to a Module,      *)
(*   chunks   the code: functions, methods and constructors first, then    *)
(*            the rules of the classes, the routes and the error handlers, *)
(*   classes  what a body is checked against, by name,                     *)
(*   routes   [method, binds, chunk, answer]: the answer of a              *)
(*            route that needs no code (chunk 0), NoAnswer otherwise,      *)
(*   router   the tree that finds them,                                    *)
(*   errors   [code, chunk], keyed: it signs session cookies,              *)
(*   ok: nothing was reported.                                             *)
(***************************************************************************)
EXTENDS Declarations, Emitter, Router

\* A fold that also numbers what it adds: chunks are appended in order.
AddChunk(mod, chunk) == [mod EXCEPT !.chunks = Append(@, chunk), !.ok = @ /\ chunk.ok]
Reject(mod, unless)  == [mod EXCEPT !.ok = @ /\ unless]

Kept(name, value) == name :> value
ByName(decls, values) ==      \* the first declaration of each name
  FoldLeft(LAMBDA f, i : IF decls[i].name \in DOMAIN f THEN f ELSE f @@ Kept(decls[i].name, values[i]),
           [x \in {} |-> 0], [i \in DOMAIN decls |-> i])

-----------------------------------------------------------------------------
(***************************************************************************)
(* Signatures.                                                             *)
(***************************************************************************)
Default(p) == p.kids[2]
MakeSig(index, params) ==
  [index |-> index, required |-> Cardinality({i \in DOMAIN params : Default(params[i]) = Missing}),
   defaults |-> [i \in DOMAIN params |-> Default(params[i])]]
\* No parameter without a default after one that has it.
OrderedParams(params) ==
  \A i, j \in DOMAIN params : i < j /\ Default(params[i]) # Missing => Default(params[j]) # Missing

\* build_functions(): the signatures first, then the bodies, which see no
\* class.
FunctionSigs(program) ==
  LET fns == SelectSeq(program.functions, LAMBDA f : ~IsNative(f.name))
      index(i) == Cardinality({fns[j].name : j \in 1..i})
  IN ByName(fns, [i \in DOMAIN fns |-> MakeSig(index(i), fns[i].params)])

NoClasses == [x \in {} |-> 0]
Unit(fns, classes, program) == [fns |-> fns, classes |-> classes, imports |-> program.imports]

BuildFunctions(mod, program, fns) ==
  LET names == SelectSeq(program.functions, LAMBDA f : f.name \in DOMAIN fns)
      first(i) == \A j \in 1..i - 1 : names[j].name # names[i].name
      bodies == SelectSeq([i \in DOMAIN names |-> i], first)
      emitted == FoldLeft(LAMBDA m, i : AddChunk(m, EmitFunction(names[i], Unit(fns, NoClasses, program))),
                          mod, bodies)
  IN Reject(emitted, \A f \in Range(program.functions) : ~IsNative(f.name) /\ OrderedParams(f.params))

\* build_class_signatures(): methods, then constructors; without one, there
\* is one that takes every field in order.
Implicit(class) == Callable("mapped", [i \in DOMAIN class.fields |->
                              Node("Param", class.fields[i].name, <<class.fields[i].type, Missing>>)], Block(<<>>))
Ctors(class) == IF class.ctors = <<>> /\ class.fields # <<>> THEN <<Implicit(class)>> ELSE class.ctors

ClassSig(class, base) ==
  LET n == Len(class.methods)  ctors == Ctors(class)
  IN [fields  |-> [i \in DOMAIN class.fields |-> class.fields[i].name],
      methods |-> ByName(class.methods, [i \in DOMAIN class.methods |-> MakeSig(base + i, class.methods[i].params)]),
      ctors   |-> [k \in {Len(ctors[i].params) : i \in DOMAIN ctors} |->
                     base + n + CHOOSE i \in DOMAIN ctors : Len(ctors[i].params) = k]]

Size(class) == Len(class.methods) + Len(Ctors(class))
ClassSigs(program, base) ==
  LET before(i) == FoldLeft(LAMBDA n, c : n + Size(c), base, SubSeq(program.classes, 1, i - 1))
  IN ByName(program.classes, [i \in DOMAIN program.classes |-> ClassSig(program.classes[i], before(i))])

EmitClassBodies(mod, program, unit) ==
  LET fields(c) == unit.classes[c.name].fields
      members(m, c) ==
        FoldLeft(LAMBDA n, k : AddChunk(n, EmitCtor(c.name, fields(c), k, unit)),
                 FoldLeft(LAMBDA n, f : Reject(AddChunk(n, EmitMethod(c.name, f, unit)), OrderedParams(f.params)),
                          m, c.methods),
                 Ctors(c))
  IN FoldLeft(members, mod, program.classes)

-----------------------------------------------------------------------------
(***************************************************************************)
(* Classes as bodies: their fields and the rules, each a condition over    *)
(* the fields.                                                             *)
(***************************************************************************)
Scalars == {"int", "long", "float", "double", "bool", "string"}

BuildClass(mod, class, unit) ==
  LET field(f) == <<f.name, f.type.text, f.type = Optional(f.type)>>
      names == [i \in DOMAIN class.fields |-> field(class.fields[i])]
      base  == Len(mod.chunks)
      ruled == FoldLeft(LAMBDA m, r : AddChunk(m, EmitCondition(r.kids[1], names, unit)), mod, class.rules)
      info  == [fields |-> names, rules |-> [i \in DOMAIN class.rules |->
                    [chunk |-> base + i, message |-> class.rules[i].text]]]
      known == \A i \in DOMAIN class.fields : class.fields[i].type.text \in Scalars
  IN IF class.name \in DOMAIN mod.classes \/ ~known THEN Reject(mod, FALSE)
     ELSE [ruled EXCEPT !.classes = @ @@ Kept(class.name, info)]

-----------------------------------------------------------------------------
(***************************************************************************)
(* Parameters of a route.                                                  *)
(***************************************************************************)
\* pattern_params(): the names after ':' or inside braces.
RECURSIVE PatternParams(_, _)
PatternParams(s, i) ==
  LET c == SubSeq(s, i, i)
      j == Upto(s, i + 1, IF c = "{" THEN "}" ELSE "/")
  IN CASE i > Len(s)       -> <<>>
       [] c \in {":", "{"} -> <<SubSeq(s, i + 1, j - 1)>> \o PatternParams(s, j)
       [] OTHER            -> PatternParams(s, i + 1)

TextOf(v) == IF IsA(v, "bool") THEN (IF v[2] THEN "true" ELSE "false") ELSE ToText(v)

\* bind_params(): where each parameter comes from, NoBind if it cannot.
NoBind == [kind |-> "none", name |-> "", type |-> "", default |-> Missing]
BindParam(p, route, inPattern, classes) ==
  LET type == p.kids[1]  inPath == p.text \in inPattern
      bind(kind) == [kind |-> kind, name |-> p.text, type |-> type.text, default |-> Default(p)]
      file == type.text = "File"
      files == type.text = "List" /\ Len(type.kids) = 1 /\ type.kids[1].text = "File"
      bodiless == route.method \in {"GET", "DELETE"}
  IN CASE file \/ files -> IF inPath \/ bodiless THEN NoBind ELSE bind(IF file THEN "file" ELSE "files")
       [] ~(file \/ files) /\ type.text \in DOMAIN classes -> IF inPath \/ bodiless THEN NoBind ELSE bind("body")
       [] ~(file \/ files) /\ type.text \in Scalars \ DOMAIN classes ->
            IF type = Optional(type) THEN NoBind
            ELSE IF inPath THEN (IF Default(p) = Missing THEN bind("path") ELSE NoBind)
            ELSE IF Default(p) = Missing \/ (Default(p).kind = "Lit" /\ Default(p).val[1] \in {"int", "string", "bool"})
                 THEN bind("query") ELSE NoBind
       [] OTHER -> NoBind

BindParams(route, classes) ==
  [i \in DOMAIN route.params |-> BindParam(route.params[i], route, Range(PatternParams(route.pattern, 1)), classes)]

Bound(binds) == /\ NoBind \notin Range(binds)
                /\ \A i, j \in DOMAIN binds : binds[i].kind = "body" /\ binds[j].kind = "body" => i = j
Collected(route) == \A name \in Range(PatternParams(route.pattern, 1)) :
                       \E i \in DOMAIN route.params : route.params[i].text = name

-----------------------------------------------------------------------------
(***************************************************************************)
(* A route that only returns a constant is answered without code.          *)
(***************************************************************************)
NoAnswer == [status |-> 0, body |-> NoBody]
Answer(status, body) == [status |-> status, body |-> body]

\* const_eval_valor(): the tree of a constant expression.
RECURSIVE Constant(_)
Constant(e) ==
  CASE e.kind = "Lit"  -> TRUE
    [] e.kind = "List" -> \A i \in DOMAIN e.kids : Constant(e.kids[i])
    [] e.kind = "Dict" -> \A i \in DOMAIN e.kids : LET k == e.kids[i].kids[1]
                                                   IN /\ k.kind = "Lit" /\ IsA(k.val, "string")
                                                      /\ Constant(e.kids[i].kids[2])
    [] OTHER -> FALSE

RECURSIVE ConstTree(_)
ConstTree(e) ==
  CASE e.kind = "Lit"  -> e.val
    [] e.kind = "List" -> <<"List", [i \in DOMAIN e.kids |-> ConstTree(e.kids[i])]>>
    [] OTHER -> <<"Dict", FoldLeft(LAMBDA d, p : IF Internal(p.kids[1].val[2]) THEN d
                                                 ELSE Put(d, p.kids[1].val[2], ConstTree(p.kids[2])),
                                   <<>>, e.kids)>>

\* compile_return(): a constant, or a call of a builtin on constants.
CompileReturn(e) ==
  LET args == Tail(e.kids)
      value(i) == IF args[i].kind = "Named" THEN args[i].kids[1] ELSE args[i]
      literal(i, type) == Len(args) >= i /\ value(i).kind = "Lit" /\ IsA(value(i).val, type)
      name == IF e.kind = "Call" /\ e.kids[1].kind = "Ident" THEN e.kids[1].text ELSE ""
  IN CASE Constant(e) -> Answer(200, ConstTree(e))
       [] name \in {"text", "html"} /\ literal(1, "string") -> Answer(200, <<name, value(1).val[2]>>)
       [] name = "status" /\ literal(1, "int") -> Answer(value(1).val[2], <<"text", "">>)
       [] name = "redirect" /\ literal(1, "string") /\ (Len(args) > 1 => literal(2, "int")) ->
            Answer(IF Len(args) > 1 THEN value(2).val[2] ELSE 302, <<"to", value(1).val[2]>>)
       [] name = "json" /\ Len(args) = 1 /\ Constant(value(1)) -> Answer(200, ConstTree(value(1)))
       [] OTHER -> NoAnswer

\* try_declarative(): never with a guard, which only code runs.
TryDeclarative(route) ==
  LET stmts == route.body.kids
  IN IF /\ route.guards = <<>> /\ route.params = <<>> /\ Len(stmts) = 1
        /\ stmts[1].kind = "Return" /\ stmts[1].kids[1] # Missing
     THEN CompileReturn(stmts[1].kids[1]) ELSE NoAnswer

-----------------------------------------------------------------------------
BuildRoute(mod, route, unit) ==
  LET binds  == BindParams(route, mod.classes)
      answer == IF route.method \in {"WS", "SSE"} THEN NoAnswer ELSE TryDeclarative(route)
      coded  == AddChunk(mod, EmitRoute(route, unit))
      verb   == IF route.method \in {"WS", "SSE"} THEN "GET" ELSE route.method
      add(m, id) == [m EXCEPT !.routes = Append(@, [method |-> route.method, binds |-> binds, chunk |-> id,
                                                    answer |-> answer]),
                              !.router = AddRoute(@, verb, route.pattern, Len(m.routes) + 1)]
      bodiless == \A i \in DOMAIN binds : binds[i].kind # "body"
      allowed == /\ (route.method = "WS") = (route.origins # <<>>)
                 /\ route.method \in {"WS", "SSE"} => bodiless
  IN IF ~allowed \/ ~Collected(route) THEN Reject(mod, FALSE)
     ELSE IF answer # NoAnswer THEN add(mod, 0)
     ELSE IF ~Bound(binds) THEN Reject(mod, FALSE)
     ELSE add(coded, Len(coded.chunks))

BuildErrorHandler(mod, decl, unit) ==
  LET coded == AddChunk(mod, EmitErrorHandler(decl, unit))
  IN [coded EXCEPT !.errors = Append(@, [code |-> decl.code, chunk |-> Len(coded.chunks)])]

EmptyModule == [chunks |-> <<>>, classes |-> NoClasses, routes |-> <<>>, router |-> Root, errors |-> <<>>,
                keyed |-> FALSE, ok |-> TRUE]

\* The modules of a program are configured, or it does not start.
Configured(program) ==
  \A m \in program.imports : IsDbModule(m) /\ \E i \in DOMAIN program.settings : program.settings[i][1] = m

\* The passes, each only if nothing was reported before it.
CompileProgram(program) ==
  LET fns     == FunctionSigs(program)
      keyed   == \E i \in DOMAIN program.settings : program.settings[i][1] = "session"
      funcs   == BuildFunctions([EmptyModule EXCEPT !.keyed = keyed], program, fns)
      sigs    == ClassSigs(program, Cardinality(DOMAIN fns))
      unit    == Unit(fns, sigs, program)
      bodies  == EmitClassBodies(funcs, program, unit)
      classes == FoldLeft(LAMBDA m, c : BuildClass(m, c, unit), bodies, program.classes)
      routes  == FoldLeft(LAMBDA m, r : BuildRoute(m, r, unit), classes, program.routes)
      errors  == FoldLeft(LAMBDA m, e : BuildErrorHandler(m, e, unit), routes, program.errors)
  IN IF ~Configured(program) THEN Reject(EmptyModule, FALSE)
     ELSE IF ~classes.ok THEN classes ELSE IF ~routes.ok THEN routes ELSE errors

CompileFiles(files) ==
  LET parsed == ParseProject(files)
  IN IF parsed.ok THEN CompileProgram(parsed.e) ELSE Reject(EmptyModule, FALSE)
=============================================================================
