----------------------------- MODULE Arguments ------------------------------
(***************************************************************************)
(* What project.cpp and main.cpp make of a request around its handler: the *)
(* session of its cookie, the arguments that its route declares, and the   *)
(* answer that `on error` gives in its place.  They run on one thread      *)
(* without a break, and are functions of the module, the request and the   *)
(* world; Handlers says when they run.                                     *)
(***************************************************************************)
EXTENDS Compile, VM

\* A machine run until it stops, for what the code runs without suspending.
RECURSIVE RunVM(_, _)
RunVM(chunks, m) == IF m.status = "run" THEN RunVM(chunks, Step(chunks, m)) ELSE m

-----------------------------------------------------------------------------
(***************************************************************************)
(* Arguments.                                                              *)
(***************************************************************************)
\* A tree of JSON becomes a value, its containers new boxes.
RECURSIVE Build(_, _)
Build(w, tree) ==
  LET each(acc, v) == LET b == Build(acc.w, v) IN Gives(b.w, Append(acc.v, b.v))
      list == FoldLeft(each, Gives(w, <<>>), tree[2])
      dict == FoldLeft(each, Gives(w, <<>>), [i \in DOMAIN tree[2] |-> tree[2][i][2]])
  IN CASE tree[1] = "List" -> Alloc(list.w, list.v, "List")
       [] tree[1] = "Dict" -> Alloc(dict.w, [i \in DOMAIN dict.v |-> <<tree[2][i][1], dict.v[i]>>], "Dict")
       [] OTHER -> Gives(w, tree)

NotJson == <<"invalid", 0>>
NoForm  == << <<"none", FALSE, "">> >>

\* What has been bound so far: the world, the values, the messages of a
\* validation, and whether the handler may run.
Binding(w) == [w |-> w, args |-> <<>>, messages |-> <<>>, ok |-> TRUE]
Given(s, w, v) == [s EXCEPT !.w = w, !.args = Append(@, v)]
Refuse(s, code, why) == [s EXCEPT !.w = Respond(@, code, <<"refused", why>>), !.ok = FALSE]

\* coerce(): a number is read from the front of the text, as std::stoll does.
Numeral(text) == {k \in 1..Len(text) : SubSeq(text, 1, k) \in DOMAIN Number}
Coerce(text, type) ==
  LET k == Numeral(text)
      n == Number[SubSeq(text, 1, CHOOSE i \in k : \A j \in k : j <= i)]
  IN CASE type = "string" -> Str(text)
       [] type = "bool" -> IF text \in {"true", "1"} THEN Boolean(TRUE)
                           ELSE IF text \in {"false", "0"} THEN Boolean(FALSE) ELSE Error("bool")
       [] OTHER -> IF k = {} THEN Error("number")
                   ELSE IF type \in {"int", "long"} THEN Integer(n) ELSE Real(<<n, 1>>)
Zero(type) == CASE type = "string" -> Str("") [] type = "bool" -> Boolean(FALSE)
                [] type \in {"float", "double"} -> Real(<<0, 1>>) [] OTHER -> Integer(0)

\* valor_encaja(): no conversion but from int to float.
Fits(v, type) == CASE type \in {"string", "bool"} -> IsA(v, type)
                   [] type \in {"int", "long"} -> IsA(v, "int")
                   [] OTHER -> IsNum(v)
Fitted(v, type) == IF type \in {"float", "double"} THEN Real(Ratio(v)) ELSE v

\* Mutant: a rule that fails is one more that is not satisfied.
BugJudged(s, rule, m) ==
  [s EXCEPT !.w = m.w, !.messages = IF m.status = "done" /\ Truthy(m.w.heap, m.value) THEN @ ELSE Append(@, rule.message)]

\* A rule of a body that has run; one that fails is an error of the server.
Judged(s, rule, m) ==
  IF m.status # "done" THEN Refuse([s EXCEPT !.w = m.w], 500, "rule")
  ELSE [s EXCEPT !.w = m.w, !.messages = IF Truthy(m.w.heap, m.value) THEN @ ELSE Append(@, rule.message)]

Invalid(s, why) == [Refuse(s, 422, why) EXCEPT !.messages = why]

\* A body whose rules have run: all the messages are kept.
Validated(s, fields) ==
  LET box == Alloc(s.w, fields, "Dict")
  IN CASE ~s.ok -> [s EXCEPT !.messages = <<>>]
       [] s.ok /\ s.messages # <<>> -> Invalid(s, s.messages)
       [] OTHER -> Given(s, box.w, box.v)

\* bind_body(): every field first, and the rules only over fields that are
\* right.
BindBody(mod, s, in, class) ==
  LET tree   == in.body
      sent(i) == Find(tree[2], class.fields[i][1])
      type(i) == class.fields[i][2]
      absent == {i \in DOMAIN class.fields : sent(i) = Null}
      wrong  == {i \in DOMAIN class.fields \ absent : ~Fits(sent(i), type(i))}
      bad(i) == i \in wrong \/ (i \in absent /\ ~class.fields[i][3])
      values == [i \in DOMAIN class.fields |-> IF i \in absent \cup wrong THEN Null ELSE Fitted(sent(i), type(i))]
      faults == FlattenSeq([i \in DOMAIN class.fields |-> IF bad(i) THEN <<class.fields[i][1]>> ELSE <<>>])
      rule(t, r) == IF ~t.ok THEN t
                    ELSE Judged(t, r, RunVM(mod.chunks, StartVM(mod.chunks, r.chunk, values) @@ [w |-> t.w]))
  IN CASE tree = NotJson -> Refuse(s, 400, "json")
       [] tree # NotJson /\ ~IsA(tree, "Dict") -> Refuse(s, 422, "object")
       [] tree # NotJson /\ IsA(tree, "Dict") /\ faults # <<>> -> Invalid(s, faults)
       [] OTHER -> Validated(FoldLeft(rule, s, class.rules),
                             [i \in DOMAIN values |-> <<class.fields[i][1], values[i]>>])

\* The value of a scalar: the query, then a text part of the form, then its
\* default; nothing at all is the zero of its type.
Raw(b, in) ==
  LET parts == IF in.form = NoForm THEN <<>> ELSE SelectSeq(in.form, LAMBDA p : p[1] = b.name /\ ~p[2])
  IN CASE b.kind = "path"           -> IF HasKey(in.path, b.name) THEN Str(Find(in.path, b.name)) ELSE Null
       [] HasKey(in.query, b.name)  -> Find(in.query, b.name)
       [] parts # <<>>              -> Str(parts[1][3])
       [] b.default # Missing       -> Str(TextOf(b.default.val))
       [] OTHER                     -> Null

BindFile(s, b, in) ==
  LET found == {i \in DOMAIN in.form : in.form[i][1] = b.name /\ in.form[i][2]}
      order == SetToSortSeq(found, <)
      file(i) == <<"Dict", << <<"name", Str(b.name)>>, <<"__idx", Integer(i - 1)>> >> >>
      one  == Build(s.w, file(order[1]))
      all  == Build(s.w, <<"List", [k \in DOMAIN order |-> file(order[k])]>>)
  IN CASE in.form = NoForm -> Refuse(s, 400, "multipart")
       [] in.form # NoForm /\ b.kind = "files" -> Given(s, all.w, all.v)
       [] OTHER -> IF found = {} THEN Refuse(s, 422, "file") ELSE Given(s, one.w, one.v)

BindScalar(s, b, in) ==
  LET v == Coerce(Raw(b, in)[2], b.type)
  IN IF Raw(b, in) = Null THEN Given(s, s.w, Zero(b.type))
     ELSE IF IsA(v, "error") THEN Refuse(s, 400, b.name) ELSE Given(s, s.w, v)

\* prepare_args(): stops at the first parameter that does not fit.
PrepareArgs(mod, w, binds, in) ==
  LET bind(s, b) == CASE ~s.ok -> s
                      [] s.ok /\ b.kind \in {"file", "files"} -> BindFile(s, b, in)
                      [] s.ok /\ b.kind = "body" -> BindBody(mod, s, in, mod.classes[b.type])
                      [] OTHER -> BindScalar(s, b, in)
  IN FoldLeft(bind, Binding(w), binds)

-----------------------------------------------------------------------------
(***************************************************************************)
(* Sessions and errors.                                                    *)
(***************************************************************************)
\* begin_auth(): the session of the cookie, if the project has a secret.
BeginAuth(mod, w, in) ==
  LET s == Build(w, <<"Dict", in.session>>)
  IN IF mod.keyed THEN [s.w EXCEPT !.ctx = [Context(TRUE) EXCEPT !.session = s.w.heap[s.v[2]]]]
     ELSE [w EXCEPT !.ctx = Context(FALSE)]

HandlerFor(mod, code) ==
  LET of(c) == {i \in DOMAIN mod.errors : mod.errors[i].code = c}
      pick  == IF of(code) # {} THEN of(code) ELSE of(0)
  IN IF pick = {} THEN 0 ELSE mod.errors[CHOOSE i \in pick : TRUE].chunk

\* What is left of an answer once its error handler has run; the body comes
\* back if that writes nothing.
Replaced(w, m) ==
  LET said == IF m.w.ctx.written \/ m.value = Null THEN m.w
              ELSE [m.w EXCEPT !.ctx = Commit(@, Json(m.w.heap, m.value))]
      out  == IF m.status = "done" THEN [said EXCEPT !.ctx.status = w.ctx.status] ELSE m.w
  IN IF out.ctx.body = NoBody THEN [out EXCEPT !.ctx.body = w.ctx.body] ELSE out

\* The handler of `on error`, in main.cpp: with the default body out of the
\* way it runs on a machine of its own, and cannot suspend.
OnError(mod, w, told) ==
  LET chunk == HandlerFor(mod, w.ctx.status)
      clean == [w EXCEPT !.ctx.body = NoBody, !.ctx.written = FALSE, !.ctx.keyed = FALSE,
                         !.ctx.code = w.ctx.status, !.ctx.messages = told]
  IN IF w.ctx.status < 400 \/ chunk = 0 THEN w
     ELSE Replaced(w, RunVM(mod.chunks, StartVM(mod.chunks, chunk, <<>>) @@ [w |-> clean]))
=============================================================================
