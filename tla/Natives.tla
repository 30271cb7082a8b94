------------------------------ MODULE Natives -------------------------------
(***************************************************************************)
(* The builtins of natives.cpp: the table the emitter checks calls         *)
(* against, the methods of the values, and what the ones the models use do *)
(* when the VM calls them.  A builtin acts on the world of its handler:    *)
(*   heap   the boxes of lists and dicts (Values),                         *)
(*   store  SharedState: <<key, value>> pairs, common to every handler,    *)
(*   open   whether its connection is,                                     *)
(*   ctx    its NativeCtx and Response: status, body (once committed, it    *)
(*          stays), written, the session, whether it is keyed by a secret  *)
(*          and dirty; in an error handler its code and messages; what a   *)
(*          stream has sent.                                               *)
(***************************************************************************)
EXTENDS Values, TLC

\* kNatives: name, least and most arguments (99 for no limit).
NativeTable ==
  << <<"text", 1, 1>>, <<"html", 1, 1>>, <<"json", 1, 1>>, <<"render", 1, 2>>, <<"__render_tpl", 2, 2>>,
     <<"status", 1, 1>>, <<"redirect", 1, 2>>, <<"send_file", 1, 1>>, <<"len", 1, 1>>, <<"str", 1, 1>>,
     <<"int", 1, 1>>, <<"header", 1, 2>>, <<"query", 1, 2>>,
     <<"__sse_send", 1, 3>>, <<"__sse_ping", 0, 1>>, <<"__sse_open", 0, 0>>,
     <<"__ws_send", 1, 1>>, <<"__ws_open", 0, 0>>, <<"__ws_close", 0, 0>>,
     <<"__session_get", 1, 1>>, <<"__session_set", 2, 2>>, <<"__session_clear", 0, 0>>,
     <<"__jwt_valid", 0, 0>>, <<"__jwt_claims", 0, 0>>,
     <<"__error_code", 0, 0>>, <<"__error_message", 0, 0>>, <<"__error_messages", 0, 0>>,
     <<"__req_path", 0, 0>>, <<"__req_method", 0, 0>>, <<"__req_ip", 0, 0>>,
     <<"__state_incr", 1, 2>>, <<"__state_decr", 1, 2>>, <<"__state_get", 1, 2>>,
     <<"__state_set", 2, 2>>, <<"__state_remove", 1, 1>>,
     <<"__log_info", 1, 1>>, <<"__log_warn", 1, 1>>, <<"__log_error", 1, 1>>,
     <<"cookie", 1, 2>>, <<"form", 1, 2>>, <<"sleep", 1, 1>>, <<"__ws_recv", 0, 0>>,
     <<"__db_query", 2, 99>>, <<"__db_exec", 2, 99>>, <<"__db_begin", 1, 1>>, <<"__db_commit", 1, 1>>,
     <<"__db_rollback", 1, 1>>, <<"__db_last_id", 1, 1>> >>
Async == {"sleep", "__ws_recv", "__db_query", "__db_exec", "__db_begin", "__db_commit", "__db_rollback",
          "__db_last_id"}

IsNative(name) == \E i \in DOMAIN NativeTable : NativeTable[i][1] = name
NativeAt(name) == CHOOSE n \in {NativeTable[i] : i \in DOMAIN NativeTable} : n[1] = name
TakesArgs(n, argc) == n[2] <= argc /\ argc <= n[3]

\* kMembers: what a member of a reserved object stands for.
MemberNames ==
  [sse |-> {"send", "ping", "open"}, ws |-> {"send", "open", "close", "recv"}, session |-> {"clear"},
   jwt |-> {"valid", "claims"}, error |-> {"code", "message", "messages"},
   state |-> {"incr", "decr", "get", "set", "remove"}, log |-> {"info", "warn", "error"}]
Databases == {"sqlite", "postgres", "mysql"}
Members ==
  UNION {{<<o, m, "__" \o o \o "_" \o m>> : m \in MemberNames[o]} : o \in DOMAIN MemberNames}
  \cup {<<d, m, "__db_" \o m>> : d \in Databases, m \in {"query", "exec", "begin", "commit", "rollback", "last_id"}}
  \cup {<<"request", m, "__req_" \o m>> : m \in {"path", "method", "ip"}}
MembersNamed(object, member) == {m \in Members : m[1] = object /\ m[2] = member}
IsReserved(name)  == \E m \in Members : m[1] = name
IsDbModule(name)  == name \in Databases

\* metodos_de(): the closed list of methods of a type, with the type each one
\* gives ("" for the receiver's); a type of the user has none.
Common == { <<"status", 1, 1, "">>, <<"header", 2, 2, "">>, <<"cookie", 2, 3, "">> }
MethodsOf(type) ==
  CASE type = "string" -> Common \cup { <<"starts_with", 1, 1, "bool">>, <<"ends_with", 1, 1, "bool">>,
                                        <<"contains", 1, 1, "bool">>, <<"upper", 0, 0, "string">>,
                                        <<"lower", 0, 0, "string">>, <<"trim", 0, 0, "string">> }
    [] type = "List"   -> Common \cup { <<"add", 1, 1, "">> }
    [] type = "Dict"   -> Common \cup { <<"has", 1, 1, "bool">>, <<"keys", 0, 0, "List">>,
                                        <<"save", 1, 1, "string">> }
    [] type \in {"int", "long", "float", "double", "bool"} -> Common
    [] OTHER -> {}

\* Value::to_string() of a scalar.
ToText(v) == CASE v[1] = "string" -> v[2]
               [] v[1] = "null"   -> "null"
               [] OTHER           -> ToString(v[2])

-----------------------------------------------------------------------------
(***************************************************************************)
(* Execution: the world and the value a call leaves; a failure is a value  *)
(* of type "error".                                                        *)
(***************************************************************************)
Gives(w, v)  == [w |-> w, v |-> v]
Fails(w, message) == Gives(w, Error(message))
Alloc(w, box, type) == Gives([w EXCEPT !.heap = Append(@, box)], <<type, Len(w.heap) + 1>>)
NoBody == <<"none", 0>>

\* A context that nothing has used yet; responder() answers with a code.
Context(keyed) == [status |-> 200, body |-> NoBody, written |-> FALSE, session |-> <<>>, keyed |-> keyed,
                   dirty |-> FALSE, code |-> 0, messages |-> <<>>, sent |-> <<>>]
Commit(ctx, body) == [ctx EXCEPT !.body = IF @ = NoBody THEN body ELSE @]
Respond(w, code, body) == [w EXCEPT !.ctx = [Commit(@, body) EXCEPT !.status = code]]

Writes(w, code, body) ==
  [w EXCEPT !.ctx = [Commit(@, body) EXCEPT !.status = code, !.written = TRUE]]

\* SharedState::incr: a missing or non-integer value counts as 0.
Incr(w, key, by) ==
  LET old == Find(w.store, key)
      new == Integer((IF IsA(old, "int") THEN old[2] ELSE 0) + by)
  IN Gives([w EXCEPT !.store = Put(@, key, new)], new)

\* text(), html() and json() commit a body; status() and redirect() an empty one.
TextOut(w, name, v) ==
  Gives(Writes(w, w.ctx.status, IF name = "json" THEN Json(w.heap, v) ELSE <<name, ToText(v)>>), Null)
StatusOut(w, name, args) ==
  LET code == IF Len(args) > 1 THEN args[2] ELSE Integer(302)
  IN CASE name = "status" -> IF IsA(args[1], "int") THEN Gives(Writes(w, args[1][2], <<"text", "">>), Null)
                             ELSE Fails(w, "status")
       [] OTHER -> IF IsA(args[1], "string") /\ IsA(code, "int")
                   THEN Gives(Writes(w, code[2], <<"to", args[1][2]>>), Null) ELSE Fails(w, "redirect")

\* len(), str() and int(); of the texts, int() is modelled on none.
Convert(w, name, v) ==
  CASE name = "str" -> Gives(w, Str(ToText(v)))
    [] name = "len" -> CASE IsA(v, "string") -> Gives(w, Integer(Len(v[2])))
                         [] v[1] \in {"List", "Dict"} -> Gives(w, Integer(Len(w.heap[v[2]])))
                         [] OTHER -> Fails(w, "len")
    [] OTHER -> CASE IsA(v, "int")   -> Gives(w, v)
                  [] IsA(v, "float") -> Gives(w, Integer(Quot(v[2][1], v[2][2])))
                  [] IsA(v, "bool")  -> Gives(w, Integer(IF v[2] THEN 1 ELSE 0))
                  [] OTHER -> Fails(w, "int")

\* sse.* and ws.*: what is sent to a stream that is closed is lost.
StreamOut(w, name, args) ==
  CASE name \in {"__sse_ping", "__sse_open", "__ws_open"} -> Gives(w, Boolean(w.open))
    [] name = "__sse_send" /\ Len(args) > 1 /\ ~IsA(args[1], "string") -> Fails(w, "event")
    [] OTHER -> Gives([w EXCEPT !.ctx.sent = IF w.open THEN Append(@, args) ELSE @],
                      IF name = "__sse_send" THEN Boolean(w.open) ELSE Null)

SessionCall(w, name, args) ==
  CASE ~w.ctx.keyed -> Fails(w, "session")
    [] name = "__session_get" -> Gives(w, Find(w.ctx.session, args[1][2]))
    [] name = "__session_set" ->
         Gives([w EXCEPT !.ctx.session = Put(@, args[1][2], args[2]), !.ctx.dirty = TRUE], args[2])
    [] OTHER -> Gives([w EXCEPT !.ctx.session = <<>>, !.ctx.dirty = TRUE], Null)

\* state.*: a step that is no integer is refused by incr and counts as 1 in decr.
StateCall(w, name, args) ==
  LET key == args[1][2]  old == Find(w.store, key)
      by  == IF Len(args) > 1 THEN args[2] ELSE Integer(1)
  IN CASE ~IsA(args[1], "string") -> Fails(w, "state")
       [] name = "__state_incr" -> IF IsA(by, "int") THEN Incr(w, key, by[2]) ELSE Fails(w, "state")
       [] name = "__state_decr" -> Incr(w, key, IF IsA(by, "int") THEN -by[2] ELSE -1)
       [] name = "__state_get"  -> Gives(w, IF old = Null /\ Len(args) > 1 THEN args[2] ELSE old)
       [] name = "__state_set"  -> Gives([w EXCEPT !.store = Put(@, key, args[2])], args[2])
       [] OTHER -> Gives([w EXCEPT !.store = SelectSeq(@, LAMBDA p : p[1] # key)],
                         Boolean(HasKey(w.store, key)))

ErrorCall(w, name) ==
  CASE name = "__error_code" -> Gives(w, Integer(w.ctx.code))
    [] OTHER -> Alloc(w, [i \in DOMAIN w.ctx.messages |-> Str(w.ctx.messages[i])], "List")

CallNative(w, name, args) ==
  CASE name \in {"text", "html", "json"}    -> TextOut(w, name, args[1])
    [] name \in {"status", "redirect"}      -> StatusOut(w, name, args)
    [] name \in {"len", "str", "int"}       -> Convert(w, name, args[1])
    [] name \in {"__sse_send", "__sse_ping", "__sse_open", "__ws_send", "__ws_open"} -> StreamOut(w, name, args)
    [] name \in {"__session_get", "__session_set", "__session_clear"}   -> SessionCall(w, name, args)
    [] name \in {"__state_incr", "__state_decr", "__state_get", "__state_set", "__state_remove"} ->
         StateCall(w, name, args)
    [] name \in {"__error_code", "__error_messages"} -> ErrorCall(w, name)
    [] OTHER -> Fails(w, name)

-----------------------------------------------------------------------------
(***************************************************************************)
(* call_method(): the modifiers of the response pass the value through;    *)
(* the rest is decided by the type the receiver has when it runs.          *)
(***************************************************************************)
Modify(w, v, name, args) ==
  CASE name = "status" -> IF Len(args) = 1 /\ IsA(args[1], "int")
                          THEN Gives([w EXCEPT !.ctx.status = args[1][2]], v) ELSE Fails(w, "status")
    [] OTHER -> IF /\ Len(args) \in (IF name = "header" THEN {2} ELSE {2, 3})
                   /\ IsA(args[1], "string")
                THEN Gives(w, v) ELSE Fails(w, name)

StringMethod(w, s, name, args) ==
  LET text == args[1][2]
      prefix(a, t) == Len(t) <= Len(a) /\ SubSeq(a, 1, Len(t)) = t
  IN CASE Len(args) # 1 \/ ~IsA(args[1], "string") -> Fails(w, name)
       [] name = "starts_with" -> Gives(w, Boolean(prefix(s, text)))
       [] name = "ends_with"   -> Gives(w, Boolean(Len(text) <= Len(s)
                                                   /\ SubSeq(s, Len(s) - Len(text) + 1, Len(s)) = text))
       [] name = "contains"    -> Gives(w, Boolean(\E i \in 1..Len(s) + 1 : prefix(SubSeq(s, i, Len(s)), text)))
       [] OTHER -> Fails(w, name)

\* add() changes the box the receiver shares with every copy of it.
ListMethod(w, v, name, args) ==
  IF name # "add" \/ Len(args) # 1 THEN Fails(w, name)
  ELSE Gives([w EXCEPT !.heap[v[2]] = Append(@, args[1])], v)

DictMethod(w, v, name, args) ==
  LET shown == Shown(w.heap[v[2]])
  IN CASE name = "keys" -> Alloc(w, [i \in DOMAIN shown |-> Str(shown[i][1])], "List")
       [] name = "has" /\ Len(args) = 1 -> Gives(w, Boolean(HasKey(w.heap[v[2]], ToText(args[1]))))
       [] OTHER -> Fails(w, name)

CallMethod(w, v, name, args) ==
  CASE name \in {"status", "header", "cookie"} -> Modify(w, v, name, args)
    [] v[1] = "string" /\ name \notin {"status", "header", "cookie"} -> StringMethod(w, v[2], name, args)
    [] v[1] = "List"   /\ name \notin {"status", "header", "cookie"} -> ListMethod(w, v, name, args)
    [] v[1] = "Dict"   /\ name \notin {"status", "header", "cookie"} -> DictMethod(w, v, name, args)
    [] OTHER -> Fails(w, "method")
=============================================================================
