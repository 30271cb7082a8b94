------------------------------ MODULE Emitter -------------------------------
(***************************************************************************)
(* The bytecode emitter of emitter.cpp: a tree becomes the code of a       *)
(* Chunk.  An operator takes the emitter as it stands and gives it as it   *)
(* leaves it:                                                              *)
(*   code     the instructions, [op, arg]; a jump carries its target,      *)
(*   tries    the ranges of the try blocks, [begin, end, catch],           *)
(*   locals   the variables in scope, [name, depth, type], by slot,        *)
(*   num      how many slots the chunk needs,                              *)
(*   loops    per open loop, the jumps of its break and continue,          *)
(*   await    has_await, ok: nothing was reported,                         *)
(*   method   the kind of handler, unit: the signatures of the module.     *)
(* Instructions are numbered from 1, slots too.                            *)
(***************************************************************************)
EXTENDS Ast, Natives, FiniteSets, SequencesExt

Start(method, unit) ==
  [code |-> <<>>, tries |-> <<>>, locals |-> <<>>, depth |-> 0, num |-> 0, loops |-> <<>>,
   await |-> FALSE, ok |-> TRUE, method |-> method, unit |-> unit]

Emit(c, op, arg)  == [c EXCEPT !.code = Append(@, [op |-> op, arg |-> arg])]
Do(c, op)         == Emit(c, op, 0)
EmitConst(c, v)   == Emit(c, "Const", v)
Here(c)           == Len(c.code) + 1
Patch(c, at, to)  == [c EXCEPT !.code[at].arg = to]
PatchAll(c, ats, to) == FoldLeft(LAMBDA d, at : Patch(d, at, to), c, ats)
Fail(c)           == [c EXCEPT !.ok = FALSE]

-----------------------------------------------------------------------------
(***************************************************************************)
(* Variables.                                                              *)
(***************************************************************************)
\* Mutant: the outermost variable of a name wins.
ResolveOuter(c, name) ==
  LET at == {i \in DOMAIN c.locals : c.locals[i].name = name}
  IN IF at = {} THEN 0 ELSE CHOOSE i \in at : \A j \in at : i <= j

\* The slot of a name, 0 if it is not declared; the innermost one wins.
Resolve(c, name) ==
  LET at == {i \in DOMAIN c.locals : c.locals[i].name = name}
  IN IF at = {} THEN 0 ELSE CHOOSE i \in at : \A j \in at : j <= i

Declared(c, name) == \E i \in DOMAIN c.locals : c.locals[i].name = name /\ c.locals[i].depth = c.depth

\* declare_local(): the new slot is the last one.
Declare(c, name, type) ==
  IF Declared(c, name) THEN Fail(c)
  ELSE [c EXCEPT !.locals = Append(@, [name |-> name, depth |-> c.depth, type |-> type]),
                 !.num = IF Len(c.locals) + 1 > @ THEN Len(c.locals) + 1 ELSE @]

BeginScope(c) == [c EXCEPT !.depth = @ + 1]
EndScope(c)   == [c EXCEPT !.depth = @ - 1, !.locals = SelectSeq(@, LAMBDA l : l.depth < c.depth)]

LocalType(c, name) == IF Resolve(c, name) = 0 THEN "" ELSE c.locals[Resolve(c, name)].type

\* Declares a name and takes its value from the stack.
Keep(c, name, type) == LET d == Declare(c, name, type) IN Emit(d, "StoreLocal", Resolve(d, name))
Load(c, name)  == Emit(c, "LoadLocal", Resolve(c, name))
Store(c, name) == Emit(c, "StoreLocal", Resolve(c, name))

DeclareParams(c, params) ==
  FoldLeft(LAMBDA d, p : Declare(d, p.text, p.kids[1].text), c, params)

-----------------------------------------------------------------------------
(***************************************************************************)
(* What is known of a type while compiling: a literal, or a variable that  *)
(* declares it.                                                            *)
(***************************************************************************)
RECURSIVE EsInt(_, _)
EsInt(c, e) ==
  \/ e.kind = "Lit" /\ IsA(e.val, "int")
  \/ e.kind = "Ident" /\ LocalType(c, e.text) = "int"
  \/ e.kind = "Binary" /\ e.text \in {"+", "-", "*"} /\ EsInt(c, e.kids[1]) /\ EsInt(c, e.kids[2])

RECURSIVE TypeOf(_, _)
TypeOf(c, e) ==
  CASE e.kind = "Lit"   -> IF e.val = Null THEN "" ELSE e.val[1]
    [] e.kind = "Ident" -> LocalType(c, e.text)
    [] e.kind = "This"  -> LocalType(c, "this")
    [] e.kind = "Call" /\ e.kids[1].kind = "Member" ->
         LET receiver == TypeOf(c, e.kids[1].kids[1])
             found == {m \in MethodsOf(receiver) : m[1] = e.kids[1].text}
         IN IF found = {} THEN ""
            ELSE LET m == CHOOSE m \in found : TRUE IN IF m[4] = "" THEN receiver ELSE m[4]
    [] OTHER -> ""

\* comprobar_campo(): a field of a class is a declared one, and only a Dict
\* among the builtin types has fields at all.
ValidField(c, receiver, field) ==
  LET type == TypeOf(c, receiver)
  IN CASE type \in DOMAIN c.unit.classes -> field \in Range(c.unit.classes[type].fields)
       [] OTHER -> MethodsOf(type) = {} \/ type = "Dict"

\* comprobar_metodo_builtin(): `argc` counts the named arguments as one.
ValidMethod(c, call, argc) ==
  LET methods == MethodsOf(TypeOf(c, call.kids[1].kids[1]))
  IN methods = {} \/ \E m \in methods : m[1] = call.kids[1].text /\ TakesArgs(m, argc)

-----------------------------------------------------------------------------
Positional(args) == SelectSeq(args, LAMBDA a : a.kind # "Named")
NamedArgs(args)  == SelectSeq(args, LAMBDA a : a.kind = "Named")

Opcode == [op \in {"+", "-", "*", "/", "%", "==", "!=", "<", "<=", ">", ">="} |->
             CASE op = "+" -> "Add" [] op = "-" -> "Sub" [] op = "*" -> "Mul" [] op = "/" -> "Div"
               [] op = "%" -> "Mod" [] op = "==" -> "Eq" [] op = "!=" -> "Ne" [] op = "<" -> "Lt"
               [] op = "<=" -> "Le" [] op = ">" -> "Gt" [] OTHER -> "Ge"]
Specialised(op) == IF op \in {"Add", "Sub", "Mul", "Lt", "Le", "Gt", "Ge"} THEN op \o "Int" ELSE op

RECURSIVE EmitExpr(_, _), EmitStmt(_, _), EmitCall(_, _, _)
EmitAll(c, es) == FoldLeft(EmitExpr, c, es)

\* The named arguments as one Dict.
EmitNamed(c, named) ==
  LET pairs == FoldLeft(LAMBDA d, a : EmitExpr(EmitConst(d, Str(a.text)), a.kids[1]), c, named)
  IN IF named = <<>> THEN c ELSE Emit(pairs, "MakeDict", Len(named))

EmitArgs(c, args) == EmitNamed(EmitAll(c, Positional(args)), NamedArgs(args))
Argc(args) == Len(Positional(args)) + (IF NamedArgs(args) = <<>> THEN 0 ELSE 1)

EmitIdent(c, name) == IF Resolve(c, name) = 0 THEN Fail(c) ELSE Load(c, name)

\* and/or: the jump leaves the value it looked at, which is the result.
EmitShortCircuit(c, op, l, r) ==
  LET left == EmitExpr(c, l)
      jump == Do(left, IF op = "and" THEN "JumpIfFalsePeek" ELSE "JumpIfTruePeek")
      right == EmitExpr(jump, r)
  IN Patch(right, Here(left), Here(right))

EmitBinary(c, e) ==
  LET l == e.kids[1]  r == e.kids[2]
      both == EmitExpr(EmitExpr(c, l), r)
  IN IF e.text \in {"and", "or"} THEN EmitShortCircuit(c, e.text, l, r)
     ELSE Do(both, IF EsInt(c, l) /\ EsInt(c, r) THEN Specialised(Opcode[e.text]) ELSE Opcode[e.text])

EmitTernary(c, e) ==
  LET cond == EmitExpr(c, e.kids[1])
      yes  == EmitExpr(Do(cond, "JumpIfFalse"), e.kids[2])
      other == Patch(Do(yes, "Jump"), Here(cond), Here(yes) + 1)
      no   == EmitExpr(other, e.kids[3])
  IN Patch(no, Here(yes), Here(no))

\* A member of a reserved object is a builtin without arguments; the others
\* are operations.  sse, ws and error exist in their own handlers only.
Available(c, object) ==
  /\ object = "sse" => c.method = "SSE"
  /\ object = "ws" => c.method = "WS"
  /\ object = "error" => c.method = "ERROR"

IsFree(c, e) == e.kind = "Ident" /\ Resolve(c, e.text) = 0

EmitMember(c, e) ==
  LET obj == e.kids[1]
      found == MembersNamed(obj.text, e.text)
      native == (CHOOSE m \in found : TRUE)[3]
  IN CASE IsFree(c, obj) /\ obj.text = "session" /\ found = {} ->
            Emit(EmitConst(c, Str(e.text)), "CallNative", <<"__session_get", 1>>)
       [] IsFree(c, obj) /\ IsReserved(obj.text) /\ ~(obj.text = "session" /\ found = {}) ->
            IF found = {} \/ ~Available(c, obj.text) THEN Fail(c)
            ELSE IF NativeAt(native)[2] > 0 THEN Fail(c) ELSE Emit(c, "CallNative", <<native, 0>>)
       [] OTHER -> IF ValidField(c, obj, e.text) THEN Emit(EmitExpr(c, obj), "GetMember", e.text)
                   ELSE Fail(c)

\* ++ and -- : on a variable it is read twice; a receiver is kept aside in a
\* slot of its own, for evaluating it may have effects.
EmitStep(c, e) ==
  LET post == e.kind = "PostStep"
      op   == Opcode[e.text]
      t    == e.kids[1]
      one(d) == Do(EmitConst(d, Integer(1)), op)
      before(d) == IF post THEN Load(d, t.text) ELSE d
      after(d)  == IF post THEN d ELSE Load(d, t.text)
      old(d)    == IF post THEN Load(Do(d, "Pop"), " previo") ELSE d
      obj  == Keep(EmitExpr(BeginScope(c), t.kids[1]), " recep", "")
      prev == Keep(Emit(Load(obj, " recep"), "GetMember", t.text), " previo", "")
      set  == Emit(one(Load(Load(prev, " recep"), " previo")), "SetMember", t.text)
      box  == Keep(EmitExpr(BeginScope(c), t.kids[1]), " contened", "")
      idx  == Keep(EmitExpr(box, t.kids[2]), " indice", "")
      both(d) == Load(Load(d, " contened"), " indice")
      prvi == Keep(Do(both(idx), "GetIndex"), " previo", "")
      put  == Do(one(Load(both(prvi), " previo")), "SetIndex")
  IN CASE t.kind = "Ident"  -> IF Resolve(c, t.text) = 0 THEN Fail(c)
                               ELSE after(Store(one(Load(before(c), t.text)), t.text))
       [] t.kind = "Member" -> EndScope(old(set))
       [] t.kind = "Index"  -> EndScope(old(put))
       [] OTHER             -> Fail(c)

EmitExpr(c, e) ==
  CASE e.kind = "Lit"     -> EmitConst(c, e.val)
    [] e.kind = "Ident"   -> EmitIdent(c, e.text)
    [] e.kind = "This"    -> EmitIdent(c, "this")
    [] e.kind = "Unary"   -> Do(EmitExpr(c, e.kids[1]), IF e.text = "not" THEN "Not" ELSE "Neg")
    [] e.kind = "Binary"  -> EmitBinary(c, e)
    [] e.kind = "Ternary" -> EmitTernary(c, e)
    [] e.kind = "List"    -> Emit(EmitAll(c, e.kids), "MakeList", Len(e.kids))
    [] e.kind = "Dict"    -> Emit(FoldLeft(LAMBDA d, p : EmitAll(d, p.kids), c, e.kids),
                                  "MakeDict", Len(e.kids))
    [] e.kind = "Index"   -> Do(EmitAll(c, e.kids), "GetIndex")
    [] e.kind = "Member"  -> EmitMember(c, e)
    [] e.kind = "Call"    -> EmitCall(c, e, FALSE)
    [] e.kind = "Await"   -> IF e.kids[1].kind = "Call" THEN EmitCall(c, e.kids[1], TRUE) ELSE Fail(c)
    [] e.kind \in {"PreStep", "PostStep"} -> EmitStep(c, e)
    [] OTHER              -> Fail(c)
-----------------------------------------------------------------------------
(***************************************************************************)
(* Calls.                                                                  *)
(***************************************************************************)
\* A call of user code: the defaults that are missing are emitted here, where
\* the call is, and the callee always gets every argument.
EmitUserCall(c, args, sig, self) ==
  LET given == EmitAll(c, args)
      all   == EmitAll(given, SubSeq(sig.defaults, Len(args) + 1, Len(sig.defaults)))
  IN IF NamedArgs(args) # <<>> \/ Len(args) < sig.required \/ Len(args) > Len(sig.defaults)
     THEN Fail(given)
     ELSE Emit(all, "CallFunction", <<sig.index, Len(sig.defaults) + self>>)

EmitCtorCall(c, args, class) ==
  LET given == EmitAll(c, args)
  IN IF NamedArgs(args) # <<>> \/ Len(args) \notin DOMAIN class.ctors THEN Fail(given)
     ELSE Emit(given, "CallFunction", <<class.ctors[Len(args)], Len(args)>>)

\* A query carries the name of its module as first argument.
EmitModuleCall(c, module, native, args, awaited) ==
  LET all == EmitAll(EmitConst(c, Str(module)), args)
  IN IF module \notin c.unit.imports \/ ~awaited \/ NamedArgs(args) # <<>>
        \/ ~TakesArgs(NativeAt(native), Len(args) + 1)
     THEN Fail(c)
     ELSE [Emit(all, "CallAsync", <<native, Len(args) + 1>>) EXCEPT !.await = TRUE]

\* A builtin is awaited exactly when it suspends.
EmitNativeCall(c, native, args, awaited) ==
  LET all == EmitArgs(c, args)
  IN IF (native \in Async) # awaited \/ NamedArgs(args) # <<>> THEN Fail(c)
     ELSE IF ~TakesArgs(NativeAt(native), Argc(args)) THEN Fail(all)
     ELSE IF awaited THEN [Emit(all, "CallAsync", <<native, Argc(args)>>) EXCEPT !.await = TRUE]
     ELSE Emit(all, "CallNative", <<native, Argc(args)>>)

EmitMethodCall(c, call, args) ==
  IF ValidMethod(c, call, Argc(args))
  THEN Emit(EmitArgs(EmitExpr(c, call.kids[1].kids[1]), args), "CallMethod",
            <<call.kids[1].text, Argc(args)>>)
  ELSE Fail(c)

EmitCall(c, call, awaited) ==
  LET callee == call.kids[1]
      args   == Tail(call.kids)
      obj    == callee.kids[1]
      type   == IF obj.kind \in {"Ident", "This"} THEN TypeOf(c, obj) ELSE ""
      class  == c.unit.classes[type]
      found  == MembersNamed(obj.text, callee.text)
      native == (CHOOSE m \in found : TRUE)[3]
      member == callee.kind = "Member"
      name   == callee.text
  IN CASE member /\ IsFree(c, obj) /\ IsReserved(obj.text) ->
            CASE found = {} \/ ~Available(c, obj.text) -> Fail(c)
              [] found # {} /\ IsDbModule(obj.text) -> EmitModuleCall(c, obj.text, native, args, awaited)
              [] OTHER -> EmitNativeCall(c, native, args, awaited)
       [] member /\ ~(IsFree(c, obj) /\ IsReserved(obj.text)) /\ type \in DOMAIN c.unit.classes ->
            IF name \in DOMAIN class.methods
            THEN EmitUserCall(EmitExpr(c, obj), args, class.methods[name], 1)
            ELSE IF class.fields # <<>> /\ name \notin Range(class.fields) THEN Fail(c)
            ELSE EmitMethodCall(c, call, args)
       [] member /\ ~(IsFree(c, obj) /\ IsReserved(obj.text)) /\ type \notin DOMAIN c.unit.classes ->
            EmitMethodCall(c, call, args)
       [] callee.kind = "Ident" ->
            CASE IsNative(name) -> EmitNativeCall(c, name, args, awaited)
              [] ~IsNative(name) /\ name \in DOMAIN c.unit.fns ->
                   EmitUserCall(c, args, c.unit.fns[name], 0)
              [] ~IsNative(name) /\ name \in DOMAIN c.unit.classes \ DOMAIN c.unit.fns ->
                   EmitCtorCall(c, args, c.unit.classes[name])
              [] OTHER -> Fail(c)
       [] OTHER -> Fail(c)
-----------------------------------------------------------------------------
(***************************************************************************)
(* Statements.                                                             *)
(***************************************************************************)
EmitStmts(c, block) == FoldLeft(EmitStmt, c, block.kids)
EmitBlock(c, block) == EndScope(EmitStmts(BeginScope(c), block))

\* The condition, a jump over what follows if it holds, and a return.
EmitRequire(c, cond, other) ==
  LET test == EmitExpr(c, cond)
      out  == Do(Do(test, "JumpIfFalse"), "Jump")
      ret  == Do(EmitExpr(Patch(out, Here(test), Here(out)), other), "Return")
  IN Patch(ret, Here(test) + 1, Here(ret))

EmitAssign(c, target, value) ==
  LET obj == target.kids[1]
  IN CASE target.kind = "Member" /\ IsFree(c, obj) /\ obj.text = "session" ->
            Do(Emit(EmitExpr(EmitConst(c, Str(target.text)), value), "CallNative",
                    <<"__session_set", 2>>), "Pop")
       [] target.kind = "Member" /\ ~(IsFree(c, obj) /\ obj.text = "session") ->
            IF ValidField(c, obj, target.text)
            THEN Do(Emit(EmitExpr(EmitExpr(c, obj), value), "SetMember", target.text), "Pop")
            ELSE Fail(c)
       [] target.kind = "Index" ->
            Do(Do(EmitExpr(EmitAll(c, target.kids), value), "SetIndex"), "Pop")
       [] target.kind = "Ident" /\ Resolve(c, target.text) # 0 ->
            Store(EmitExpr(c, value), target.text)
       [] OTHER -> Fail(c)

EmitIf(c, cond, then, orelse) ==
  LET test == EmitExpr(c, cond)
      yes  == EmitBlock(Do(test, "JumpIfFalse"), then)
      skip == Patch(Do(yes, "Jump"), Here(test), Here(yes) + 1)
      no   == EmitBlock(skip, orelse)
  IN IF orelse.kids = <<>> THEN Patch(yes, Here(test), Here(yes)) ELSE Patch(no, Here(yes), Here(no))

\* A loop is opened and closed around its body; `next` is where continue goes.
OpenLoop(c) == [c EXCEPT !.loops = Append(@, [breaks |-> <<>>, continues |-> <<>>])]
Continues(c, next) == PatchAll(c, Last(c.loops).continues, next)
CloseLoop(c) == [PatchAll(c, Last(c.loops).breaks, Here(c)) EXCEPT !.loops = Front(@)]

EmitWhile(c, cond, body) ==
  LET test == EmitExpr(c, cond)
      loop == EmitBlock(OpenLoop(Do(test, "JumpIfFalse")), body)
      back == Emit(Continues(loop, Here(c)), "Jump", Here(c))
  IN CloseLoop(Patch(back, Here(test), Here(back)))

\* for: a list, its length and an index in slots of their own.
EmitFor(c, s) ==
  LET items == Keep(Do(EmitExpr(BeginScope(c), s.kids[1]), "IterList"), " items", "")
      count == Keep(Emit(Load(items, " items"), "CallNative", <<"len", 1>>), " count", "")
      index == Keep(EmitConst(count, Integer(0)), " index", "")
      start == Declare(index, s.text, s.kids[3].text)
      test  == Do(Load(Load(start, " index"), " count"), "Lt")
      item  == Do(Load(Load(Do(test, "JumpIfFalse"), " items"), " index"), "GetIndex")
      loop  == EmitBlock(OpenLoop(Store(item, s.text)), s.kids[2])
      step  == Store(Do(EmitConst(Load(Continues(loop, Here(loop)), " index"), Integer(1)), "Add"), " index")
      back  == Emit(step, "Jump", Here(start))
  IN EndScope(CloseLoop(Patch(back, Here(test), Here(back))))

\* The error is on top of the stack when the catch begins.
EmitTry(c, s) ==
  LET body  == EmitBlock(c, s.kids[1])
      range == [begin |-> Here(c), end |-> Here(body), catch |-> Here(body) + 1]
      enter == BeginScope([Do(body, "Jump") EXCEPT !.tries = Append(@, range)])
      error == IF s.text = "" THEN Do(enter, "Pop") ELSE Keep(enter, s.text, "")
      catch == EndScope(EmitStmts(error, s.kids[2]))
  IN Patch(catch, Here(body), Here(catch))

EmitLeave(c, which) ==
  IF c.loops = <<>> THEN Fail(c)
  ELSE [Do(c, "Jump") EXCEPT !.loops[Len(c.loops)][which] = Append(@, Here(c))]

EmitStmt(c, s) ==
  CASE s.kind = "Return"   -> IF s.kids[1] = Missing THEN Do(c, "ReturnNull")
                              ELSE Do(EmitExpr(c, s.kids[1]), "Return")
    [] s.kind = "ExprStmt" -> Do(EmitExpr(c, s.kids[1]), "Pop")
    [] s.kind = "VarDecl"  -> Keep(IF s.kids[1] = Missing THEN EmitConst(c, Null)
                                   ELSE EmitExpr(c, s.kids[1]), s.text, s.kids[2].text)
    [] s.kind = "Assign"   -> EmitAssign(c, s.kids[1], s.kids[2])
    [] s.kind = "If"       -> EmitIf(c, s.kids[1], s.kids[2], s.kids[3])
    [] s.kind = "While"    -> EmitWhile(c, s.kids[1], s.kids[2])
    [] s.kind = "For"      -> EmitFor(c, s)
    [] s.kind = "Require"  -> EmitRequire(c, s.kids[1], s.kids[2])
    [] s.kind = "Try"      -> EmitTry(c, s)
    [] s.kind = "Break"    -> EmitLeave(c, "breaks")
    [] s.kind = "Continue" -> EmitLeave(c, "continues")
    [] OTHER               -> Fail(c)
-----------------------------------------------------------------------------
(***************************************************************************)
(* The chunks of a module.                                                 *)
(***************************************************************************)
Chunk(c) == [code |-> c.code, tries |-> c.tries, num |-> c.num, await |-> c.await, ok |-> c.ok]

\* The guards of the groups of a route come first, the outermost before.
EmitRoute(route, unit) ==
  LET guarded == FoldLeft(LAMBDA c, g : IF g.kids[2] = Missing THEN c
                                        ELSE EmitRequire(c, g.kids[1], g.kids[2]),
                          DeclareParams(Start(route.method, unit), route.params), route.guards)
  IN Chunk(Do(EmitBlock(guarded, route.body), "ReturnNull"))

EmitFunction(fn, unit) ==
  Chunk(Do(EmitBlock(DeclareParams(Start("FN", unit), fn.params), fn.body), "ReturnNull"))

EmitMethod(class, fn, unit) ==
  Chunk(Do(EmitBlock(DeclareParams(Declare(Start("FN", unit), "this", class), fn.params), fn.body),
           "ReturnNull"))

\* A constructor makes the instance with every field null; without a body
\* each parameter goes to the field of its name.
EmitCtor(class, fields, ctor, unit) ==
  LET self == Declare(DeclareParams(Start("FN", unit), ctor.params), "this", class)
      blank == FoldLeft(LAMBDA c, f : EmitConst(EmitConst(c, Str(f)), Null), self, fields)
      made == Store(Emit(blank, "MakeDict", Len(fields)), "this")
      map(c, p) == IF p.text \notin Range(fields) THEN Fail(c)
                   ELSE Do(Emit(Load(Load(c, "this"), p.text), "SetMember", p.text), "Pop")
      body == IF ctor.name = "body" THEN EmitBlock(made, ctor.body) ELSE FoldLeft(map, made, ctor.params)
  IN Chunk(Do(Load(body, "this"), "Return"))

EmitErrorHandler(decl, unit) ==
  Chunk(Do(EmitBlock(Start("ERROR", unit), decl.body), "ReturnNull"))

\* A condition over typed names, for the validations and the templates.
EmitCondition(e, names, unit) ==
  LET declared == FoldLeft(LAMBDA c, n : Declare(c, n[1], n[2]), Start("", unit), names)
  IN Chunk(Do(EmitExpr(declared, e), "Return"))
=============================================================================
