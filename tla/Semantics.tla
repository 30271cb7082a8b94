----------------------------- MODULE Semantics ------------------------------
(***************************************************************************)
(* What a program of Odio means, read from its tree: a reference to hold   *)
(* the compiler and the machine against.  Nothing of it is in the code.    *)
(* A state of the evaluation is                                            *)
(*   w     the world of the builtins,                                      *)
(*   env   the scopes open, the innermost last, name |-> [v, type],        *)
(*   sig   "ok", "return", "break", "continue" or "error",                 *)
(*   v     the value of the last expression, or what sig carries.          *)
(***************************************************************************)
EXTENDS Compile

Machine == INSTANCE VM WITH StepLimit <- 1, MaxFrames <- 1

Scope(names, values, types) ==
  FoldLeft(LAMBDA f, i : (names[i] :> [v |-> values[i], type |-> types[i]]) @@ f,
           NoClasses, [i \in DOMAIN names |-> i])

Fine(s)     == s.sig = "ok"
With(s, v)  == [s EXCEPT !.v = v]
Signal(s, sig, v) == [s EXCEPT !.sig = sig, !.v = v]
From(s, out) == LET t == [s EXCEPT !.w = out.w, !.v = out.v]
                IN IF IsA(out.v, "error") THEN Signal(t, "error", out.v[2]) ELSE t
Then(s, more(_)) == IF Fine(s) THEN more(s) ELSE s

\* Variables: the innermost scope that has the name.
Scopes(s, name) == {i \in DOMAIN s.env : name \in DOMAIN s.env[i]}
Where(s, name)  == CHOOSE i \in Scopes(s, name) : \A j \in Scopes(s, name) : j <= i
Known(s, name)  == Scopes(s, name) # {}
Get(s, name)    == s.env[Where(s, name)][name]
Set(s, name, v) == [s EXCEPT !.env[Where(s, name)][name].v = v]
New(s, name, type, v) ==
  [s EXCEPT !.env[Len(s.env)] = (name :> [v |-> v, type |-> type]) @@ @]
Inside(s, scope) == [s EXCEPT !.env = Append(@, scope)]
Outside(s)       == [s EXCEPT !.env = Front(@)]

Free(s, e) == e.kind = "Ident" /\ ~Known(s, e.text)
Apply(w, op, a, b) ==
  CASE op = "+"  -> Machine!AddValues(w, a, b)
    [] op \in {"-", "*", "/", "%"} -> Gives(w, Arith(op, a, b))
    [] op = "==" -> Gives(w, Boolean(Equals(w.heap, a, b)))
    [] op = "!=" -> Gives(w, Boolean(~Equals(w.heap, a, b)))
    [] OTHER     -> Gives(w, Compare(op, a, b))
Field(w, v, name) == IF IsA(v, "Dict") THEN Find(w.heap[v[2]], name) ELSE Error("member")

Declared0(decls, name) == CHOOSE d \in Range(decls) : d.name = name

RECURSIVE Eval(_, _, _), EvalAll(_, _, _), Exec(_, _, _), Run(_, _, _), Call(_, _, _, _, _)

EvalAll(p, s, es) ==
  FoldLeft(LAMBDA t, e : Then(t, LAMBDA u : LET x == Eval(p, u, e)
                                           IN IF Fine(x) THEN With(x, Append(u.v, x.v)) ELSE x),
           With(s, <<>>), es)

\* The values of a call: the positional ones and, if some have a name, a
\* dictionary of those.
Arguments(p, s, args) ==
  LET named == NamedArgs(args)
      first == EvalAll(p, s, Positional(args))
      rest  == EvalAll(p, first, [i \in DOMAIN named |-> named[i].kids[1]])
      dict  == Alloc(rest.w, [i \in DOMAIN named |-> <<named[i].text, rest.v[i]>>], "Dict")
  IN IF ~Fine(first) \/ named = <<>> THEN first
     ELSE IF ~Fine(rest) THEN rest ELSE [rest EXCEPT !.w = dict.w, !.v = Append(first.v, dict.v)]

\* A body runs in scopes of its own, where only its parameters are.
Call(p, s, fn, values, this) ==
  LET n    == Len(values)
      rest == EvalAll(p, [s EXCEPT !.env = <<>>],
                      [i \in 1..Len(fn.params) - n |-> Default(fn.params[n + i])])
      scope == Scope([i \in DOMAIN fn.params |-> fn.params[i].text], values \o rest.v,
                     [i \in DOMAIN fn.params |-> fn.params[i].kids[1].text])
      out  == Run(p, [rest EXCEPT !.env = <<this @@ scope>>], fn.body)
  IN IF ~Fine(rest) THEN [rest EXCEPT !.env = s.env]
     ELSE CASE out.sig = "error"  -> [out EXCEPT !.env = s.env]
            [] out.sig = "return" -> [out EXCEPT !.env = s.env, !.sig = "ok"]
            [] OTHER              -> [out EXCEPT !.env = s.env, !.v = Null]

This(v, class) == "this" :> [v |-> v, type |-> class]

Construct(p, s, class, values) ==
  LET blank == Alloc(s.w, [i \in DOMAIN class.fields |-> <<class.fields[i].name, Null>>], "Dict")
      made  == [s EXCEPT !.w = blank.w]
      ctor  == CHOOSE c \in Range(Ctors(class)) : Len(c.params) = Len(values)
      body  == Call(p, made, ctor, values, This(blank.v, class.name))
      filled == FoldLeft(LAMBDA w, i : [w EXCEPT !.heap[blank.v[2]] = Put(@, ctor.params[i].text, values[i])],
                         blank.w, [i \in DOMAIN values |-> i])
  IN IF ctor.name = "body" THEN (IF Fine(body) THEN With(body, blank.v) ELSE body)
     ELSE [made EXCEPT !.w = filled, !.v = blank.v]

Reserved(s, e) == Free(s, e) /\ IsReserved(e.text)
Builtin(object, member) == (CHOOSE m \in MembersNamed(object, member) : TRUE)[3]
Invoke(s, native) == IF native \in Async THEN With(s, Null) ELSE From(s, CallNative(s.w, native, s.v))

EvalCall(p, s, call) ==
  LET f == call.kids[1]
      args == Arguments(p, s, Tail(call.kids))
      obj == f.kids[1]
      self == Eval(p, s, obj)
      with == Arguments(p, self, Tail(call.kids))
      type == IF obj.kind \in {"Ident", "This"} THEN Get(s, IF obj.kind = "This" THEN "this" ELSE obj.text).type
              ELSE ""
      class == Declared0(p.classes, type)
  IN CASE f.kind = "Ident" /\ IsNative(f.text) -> Then(args, LAMBDA t : Invoke(t, f.text))
       [] f.kind = "Ident" /\ ~IsNative(f.text) /\ f.text \in Names(p.functions) ->
            Then(args, LAMBDA t : Call(p, t, Declared0(p.functions, f.text), t.v, NoClasses))
       [] f.kind = "Ident" /\ ~IsNative(f.text) /\ f.text \notin Names(p.functions) ->
            Then(args, LAMBDA t : Construct(p, t, Declared0(p.classes, f.text), t.v))
       [] f.kind = "Member" /\ Reserved(s, obj) -> Then(args, LAMBDA t : Invoke(t, Builtin(obj.text, f.text)))
       [] OTHER ->
            Then(self, LAMBDA t : Then(with, LAMBDA u :
              IF type \in Names(p.classes) /\ f.text \in Names(class.methods)
              THEN Call(p, u, Declared0(class.methods, f.text), u.v, This(t.v, type))
              ELSE From(u, CallMethod(u.w, t.v, f.text, u.v))))

\* x++ and ++x read the place once and write it once.
EvalStep(p, s, e) ==
  LET t == e.kids[1]
      place == EvalAll(p, s, IF t.kind = "Ident" THEN <<>> ELSE t.kids)
      old(u) == CASE t.kind = "Ident"  -> Get(u, t.text).v
                  [] t.kind = "Member" -> Field(u.w, u.v[1], t.text)
                  [] OTHER             -> Machine!GetIndex(u.w, u.v[1], u.v[2])
      write(u, v) == CASE t.kind = "Ident"  -> Set(u, t.text, v)
                       [] t.kind = "Member" -> From(u, Machine!SetIndex(u.w, u.v[1], Str(t.text), v))
                       [] OTHER             -> From(u, Machine!SetIndex(u.w, u.v[1], u.v[2], v))
      next(u) == Apply(u.w, e.text, old(u), Integer(1)).v
  IN Then(place, LAMBDA u :
       IF IsA(old(u), "error") THEN Signal(u, "error", old(u)[2])
       ELSE IF IsA(next(u), "error") THEN Signal(u, "error", next(u)[2])
       ELSE Then(write(u, next(u)), LAMBDA x : With(x, IF e.kind = "PostStep" THEN old(u) ELSE next(u))))

Eval(p, s, e) ==
  LET l == Eval(p, s, e.kids[1])
      all == EvalAll(p, s, e.kids)
      truth(t) == Truthy(t.w.heap, t.v)
  IN CASE e.kind = "Lit"   -> With(s, e.val)
       [] e.kind = "Ident" -> With(s, Get(s, e.text).v)
       [] e.kind = "This"  -> With(s, Get(s, "this").v)
       [] e.kind = "Unary" -> Then(l, LAMBDA t : IF e.text = "not" THEN With(t, Boolean(~truth(t)))
                                                 ELSE From(t, Gives(t.w, Machine!Negate(t.v))))
       [] e.kind = "Binary" /\ e.text \in {"and", "or"} ->
            Then(l, LAMBDA t : IF truth(t) = (e.text = "or") THEN t ELSE Eval(p, t, e.kids[2]))
       [] e.kind = "Binary" /\ e.text \notin {"and", "or"} ->
            Then(all, LAMBDA t : From(t, Apply(t.w, e.text, t.v[1], t.v[2])))
       [] e.kind = "Ternary" -> Then(l, LAMBDA t : Eval(p, t, e.kids[IF truth(t) THEN 2 ELSE 3]))
       [] e.kind = "List"  -> Then(all, LAMBDA t : From(t, Alloc(t.w, t.v, "List")))
       [] e.kind = "Dict"  ->
            Then(EvalAll(p, s, FlattenSeq([i \in DOMAIN e.kids |-> e.kids[i].kids])),
                 LAMBDA t : From(t, Machine!MakeDict(t.w, t.v)))
       [] e.kind = "Index" -> Then(all, LAMBDA t : From(t, Gives(t.w, Machine!GetIndex(t.w, t.v[1], t.v[2]))))
       [] e.kind = "Member" ->
            IF Reserved(s, e.kids[1])
            THEN IF MembersNamed(e.kids[1].text, e.text) = {}
                 THEN From(s, CallNative(s.w, "__session_get", <<Str(e.text)>>))
                 ELSE Invoke(With(s, <<>>), Builtin(e.kids[1].text, e.text))
            ELSE Then(l, LAMBDA t : From(t, Gives(t.w, Field(t.w, t.v, e.text))))
       [] e.kind = "Call"  -> EvalCall(p, s, e)
       [] e.kind = "Await" -> EvalCall(p, s, e.kids[1])
       [] OTHER            -> EvalStep(p, s, e)

-----------------------------------------------------------------------------
\* Statements: the ones after a signal are not run.
Run(p, s, block) ==
  LET out == FoldLeft(LAMBDA t, x : Then(t, LAMBDA u : Exec(p, u, x)), Inside(s, NoClasses), block.kids)
  IN Outside(out)

Store0(p, s, target, value) ==
  LET obj == target.kids[1]
      session == target.kind = "Member" /\ Free(s, obj) /\ obj.text = "session"
      both == EvalAll(p, s, Append(target.kids, value))
      key(t) == IF target.kind = "Member" THEN Str(target.text) ELSE t.v[2]
  IN CASE target.kind = "Ident" -> Then(Eval(p, s, value), LAMBDA t : Set(t, target.text, t.v))
       [] session -> Then(Eval(p, s, value),
                          LAMBDA t : From(t, CallNative(t.w, "__session_set", <<Str(target.text), t.v>>)))
       [] OTHER -> Then(both, LAMBDA t : IF target.kind = "Member" /\ ~IsA(t.v[1], "Dict")
                                         THEN Signal(t, "error", "member")
                                         ELSE From(t, Machine!SetIndex(t.w, t.v[1], key(t), Last(t.v))))

\* A signal that a loop takes for itself.
Looped(s) == IF s.sig = "continue" THEN With([s EXCEPT !.sig = "ok"], Null) ELSE s
Ended(s)  == IF s.sig = "break" THEN With([s EXCEPT !.sig = "ok"], Null) ELSE s

RECURSIVE Turns(_, _, _, _, _, _), While(_, _, _)
While(p, s, x) ==
  Then(Eval(p, s, x.kids[1]), LAMBDA t :
    IF ~Truthy(t.w.heap, t.v) THEN t
    ELSE Then(Looped(Run(p, t, x.kids[2])), LAMBDA u : While(p, u, x)))

\* As many turns as the list had elements when the loop began.
Turns(p, s, x, list, i, n) ==
  LET item == Machine!GetIndex(s.w, list, Integer(i))
      turn == Looped(Outside(Run(p, Inside(s, x.text :> [v |-> item, type |-> x.kids[3].text]), x.kids[2])))
  IN IF i = n THEN s ELSE Then(turn, LAMBDA t : Turns(p, t, x, list, i + 1, n))

Exec(p, s, x) ==
  LET e == Eval(p, s, x.kids[1])
      body == Run(p, s, x.kids[1])
      error == Alloc(body.w, << <<"message", Str(body.v)>> >>, "Dict")
      named == IF x.text = "" THEN NoClasses ELSE x.text :> [v |-> error.v, type |-> ""]
      iter == Machine!IterList(e.w, e.v)
  IN CASE x.kind = "Return"   -> IF x.kids[1] = Missing THEN Signal(s, "return", Null)
                                 ELSE Then(e, LAMBDA t : Signal(t, "return", t.v))
       [] x.kind = "ExprStmt" -> e
       [] x.kind = "VarDecl"  -> IF x.kids[1] = Missing THEN New(s, x.text, x.kids[2].text, Null)
                                 ELSE Then(e, LAMBDA t : New(t, x.text, x.kids[2].text, t.v))
       [] x.kind = "Assign"   -> Store0(p, s, x.kids[1], x.kids[2])
       [] x.kind = "If"       -> Then(e, LAMBDA t : Run(p, t, x.kids[IF Truthy(t.w.heap, t.v) THEN 2 ELSE 3]))
       [] x.kind = "While"    -> Ended(While(p, s, x))
       [] x.kind = "For"      -> Then(e, LAMBDA t : Then(From(t, iter), LAMBDA u :
                                   Ended(Turns(p, u, x, u.v, 0, Len(u.w.heap[u.v[2]])))))
       [] x.kind = "Require"  -> Then(e, LAMBDA t : IF Truthy(t.w.heap, t.v) THEN t
                                   ELSE Then(Eval(p, t, x.kids[2]), LAMBDA u : Signal(u, "return", u.v)))
       [] x.kind = "Try"      -> IF body.sig # "error" THEN body
                                 ELSE LET inner == Inside([body EXCEPT !.w = error.w, !.sig = "ok"], named)
                                      IN Outside(Run(p, inner, x.kids[2]))
       [] OTHER -> Signal(s, IF x.kind = "Break" THEN "break" ELSE "continue", Null)

\* A handler: the guards of its groups, then its body.
Handle(p, route, w, values) ==
  LET scope == Scope([i \in DOMAIN route.params |-> route.params[i].text], values,
                     [i \in DOMAIN route.params |-> route.params[i].kids[1].text])
      guards == SelectSeq(route.guards, LAMBDA g : g.kids[2] # Missing)
      begin == [w |-> w, env |-> <<scope>>, sig |-> "ok", v |-> Null]
  IN Run(p, begin, Block(guards \o route.body.kids))
=============================================================================
