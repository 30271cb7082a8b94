------------------------------ MODULE Handlers ------------------------------
(***************************************************************************)
(* What build_routes() of project.cpp puts around the VM: the handlers of  *)
(* the routes of a project, several of them in flight on the loops of the  *)
(* server.  A loop runs a handler without a break until it answers or      *)
(* suspends; the loops themselves interleave, one instruction at a time.   *)
(* The machine of a handler whose chunk never awaits is the one of its     *)
(* thread; the others have their own.  Every loop has the messages of the  *)
(* last validation that failed on it, all of them share the store of       *)
(* SharedState.  The watcher may replace the module at any time; a request *)
(* keeps the one it was dispatched with.                                   *)
(***************************************************************************)
EXTENDS Verifier, HotReload

CONSTANTS Requests,     \* requests that may be in flight
          Loops,        \* event loops, one thread each
          Arrivals,     \* story |-> request |-> the forms it may take:
                        \* [method, url, query, form, body, session, frames]
          Depths        \* project |-> the places of its code (Verifier)

\* What the rest of the program computes, without suspending, from a module,
\* a request and the world of its handler (Router and Arguments).
CONSTANTS Lookup(_, _, _),      \* Router::match(): router, method, url -> [route, path]
          Authenticate(_, _, _), \* begin_auth(): module, world, request -> world
          Prepare(_, _, _, _),  \* prepare_args(): module, world, binds, request ->
                                \* [w, args, messages, ok]
          Correct(_, _, _)      \* the handler of `on error`: module, world, messages -> world

VARIABLES at,           \* "new", "run", "wait", "due" (its wait is over), "done" or "gone"
          on,           \* the loop of a request
          input,        \* the request itself
          under,        \* the version it runs under, and the route and path that
                        \* it found there; fixed: whose error handlers saw it
          own,          \* the machine of its coroutine frame
          shared,       \* loop |-> shared_vm of its thread
          open,         \* whether its connection is open
          ctx,          \* its NativeCtx and Response
          cookie,       \* what its answer does to the session cookie
          heap, store,  \* boxes and SharedState
          messages,     \* loop |-> last_validation_messages()
          token,        \* loop |-> current_token: the request whose token it is
          waits,        \* what a request awaits, or awaited last: [for, token]
          wake,         \* token |-> whom its wake_fn_ resumes
          lent          \* the tokens that some other handler has slept under

tokens == <<token, waits, wake, lent>>
vars   == <<hotVars, at, on, input, under, own, shared, open, ctx, cookie, heap, store, messages, tokens>>

NoLoop  == "none"
Nobody  == "none"

ASSUME NamesAssumption == Nobody \notin Requests /\ NoLoop \notin Loops

\* What the emitter promises: the code of a module that compiles is verified
\* and goes back by counted jumps only, and its routes name chunks of it.
ASSUME CodeAssumption ==
  \A p \in DOMAIN Compiled : Compiled[p].ok =>
    /\ Verified(Compiled[p].chunks, Depths[p]) /\ OnlyJumpsGoBack(Compiled[p].chunks)
    /\ \A i \in DOMAIN Compiled[p].routes : Compiled[p].routes[i].chunk \in {0} \cup DOMAIN Compiled[p].chunks

\* What the router promises: it finds a route of its module, or none.
ASSUME RouteAssumption ==
  \A s \in DOMAIN Stories, r \in Requests : \A v \in DOMAIN Stories[s], in \in Arrivals[s][r] :
    LET mod == Compiled[Stories[s][v]]
    IN mod.ok => Lookup(mod.router, in.method, in.url).route \in {0} \cup DOMAIN mod.routes

\* What no pattern fits is answered by the dispatcher itself.
NotFound(url) ==
  [method |-> "GET", binds |-> <<>>, chunk |-> 0,
   answer |-> [status |-> 404,
               body |-> <<"Dict", << <<"error", Str("Not Found")>>, <<"path", Str(url)>> >> >>]]
RouteOf(mod, in, found) == IF found.route = 0 THEN NotFound(in.url) ELSE mod.routes[found.route]

Chunks(r) == ModuleOf(under[r].version).chunks
Route(r)  == RouteOf(ModuleOf(under[r].version), input[r], under[r])

Streams == {"SSE", "WS"}
NoInput == [url |-> ""]
Nowhere == [version |-> 0, route |-> 0, path |-> <<>>, fixed |-> 0]

\* A machine and the version whose code its frames point into.
Loaded(version, vm) == [version |-> version, vm |-> vm]

-----------------------------------------------------------------------------
(***************************************************************************)
(* Answers.                                                                *)
(***************************************************************************)
\* end_auth(): the cookie is written again only if the session was.
Unchanged == <<"kept", 0>>
EndAuth(mod, w) == IF ~w.ctx.dirty \/ ~mod.keyed THEN Unchanged
                   ELSE IF w.ctx.session = <<>> THEN <<"cleared", 0>>
                   ELSE <<"set", JsonDict(w.heap, w.ctx.session)>>

Publish(w) == heap' = w.heap /\ store' = w.store

\* The request has its answer; the error handlers are those of the module
\* that is live now.
Closed(r, w) ==
  /\ at' = [at EXCEPT ![r] = "done"]
  /\ ctx' = [ctx EXCEPT ![r] = w.ctx]
  /\ Publish(w)
Settle(r, w, told) == Closed(r, Correct(ModuleOf(live), w, told))

\* What the handler does once its machine has stopped for good: its answer
\* and its cookie.
Answered(r, m) ==
  LET failed == Respond(m.w, 500, <<"error", m.value>>)
      empty  == Respond(m.w, 204, <<"text", "">>)
      full   == [m.w EXCEPT !.ctx = Commit(@, Json(m.w.heap, m.value))]
      whole  == IF m.w.ctx.written THEN m.w ELSE IF m.value = Null THEN empty ELSE full
  IN CASE Route(r).method \in Streams -> [w |-> m.w, cookie |-> Unchanged]
       [] Route(r).method \notin Streams /\ m.status = "error" -> [w |-> failed, cookie |-> Unchanged]
       [] OTHER -> [w |-> whole, cookie |-> EndAuth(ModuleOf(under[r].version), m.w)]

Finish(r, m) ==
  /\ Settle(r, Answered(r, m).w, messages[on[r]])
  /\ cookie' = [cookie EXCEPT ![r] = Answered(r, m).cookie]
  /\ under' = [under EXCEPT ![r].fixed = live]

-----------------------------------------------------------------------------
(***************************************************************************)
(* The life of a request.                                                  *)
(***************************************************************************)
Idling(l) == \A r \in Requests : on[r] = l => at[r] \notin {"run", "due"}

\* A handler that cannot suspend by itself borrows the machine of its thread.
Borrows(r)   == Route(r).method \notin Streams /\ ~Chunks(r)[Route(r).chunk].await
MachineOf(r) == IF Borrows(r) THEN shared[on[r]] ELSE own[r]
CodeOf(r)    == ModuleOf(MachineOf(r).version).chunks

World(r)     == [heap |-> heap, store |-> store, open |-> open[r], ctx |-> ctx[r]]

\* A machine that runs acts on the world of its handler; between two of its
\* instructions it has none.
InWorld(r, vm) == [k \in DOMAIN vm \cup {"w"} |-> IF k = "w" THEN World(r) ELSE vm[k]]
Bare(m) == [k \in DOMAIN m \ {"w"} |-> m[k]]
SetMachine(r, m) ==
  IF Borrows(r) THEN shared' = [shared EXCEPT ![on[r]].vm = Bare(m)] /\ UNCHANGED own
  ELSE own' = [own EXCEPT ![r].vm = Bare(m)] /\ UNCHANGED shared

\* Mutant: a validation that succeeds leaves the messages of the last one.
KeepReport(l, bound) ==
  messages' = IF bound.messages = <<>> THEN messages ELSE [messages EXCEPT ![l] = bound.messages]

\* prepare_args() clears the messages of its thread before it binds.
Report(l, bound) == messages' = [messages EXCEPT ![l] = bound.messages]

\* A constant answer, or a refusal.
AtOnce(r, w, told) ==
  /\ Settle(r, w, told)
  /\ UNCHANGED <<own, shared>>

\* The machine is loaded; a stream has its answer already.
Launch(r, l, mod, route, bound) ==
  LET start  == Loaded(live, StartVM(mod.chunks, route.chunk, bound.args))
      stream == route.method \in Streams
  IN /\ at' = [at EXCEPT ![r] = "run"]
     /\ ctx' = [ctx EXCEPT ![r] = [bound.w.ctx EXCEPT !.written = stream]]
     /\ Publish(bound.w)
     /\ IF ~stream /\ ~mod.chunks[route.chunk].await
        THEN shared' = [shared EXCEPT ![l] = start] /\ UNCHANGED own
        ELSE own' = [own EXCEPT ![r] = start] /\ UNCHANGED shared

Enter(r, l, mod, route, bound) ==
  \/ /\ route.chunk = 0
     /\ AtOnce(r, Respond(World(r), route.answer.status, route.answer.body), messages[l])
     /\ UNCHANGED messages
  \/ /\ route.chunk # 0
     /\ Report(l, bound)
     /\ IF bound.ok THEN Launch(r, l, mod, route, bound) ELSE AtOnce(r, bound.w, bound.messages)

\* A request reaches the dispatcher, which asks the live module for its route.
DispatchTo(r, l, in, found) ==
  LET mod   == ModuleOf(live)
      route == RouteOf(mod, in, found)
  IN /\ input' = [input EXCEPT ![r] = in]
     /\ on' = [on EXCEPT ![r] = l]
     /\ under' = [under EXCEPT ![r] = [version |-> live, route |-> found.route, path |-> found.path,
                                      fixed |-> live]]
     /\ Enter(r, l, mod, route, Prepare(mod, Authenticate(mod, World(r), in), route.binds, in @@ [path |-> found.path]))
     /\ token' = [token EXCEPT ![l] = r]
     /\ UNCHANGED <<hotVars, open, cookie, waits, wake, lent>>
Dispatch(r, l, in) ==
  /\ at[r] = "new" /\ Idling(l)
  /\ DispatchTo(r, l, in, Lookup(ModuleOf(live).router, in.method, in.url))

\* A token lives as long as its connection or its handler, and is cancelled
\* when the connection closes.
Expired(t)   == ~open[t] /\ at[t] \in {"done", "gone"}
Cancelled(t) == ~open[t] /\ ~Expired(t)

\* set_wake()
SetWake(r, t) == wake' = IF open[t] THEN [wake EXCEPT ![t] = r] ELSE wake

\* Mutant: the timer of a sleep leaves the wake function behind.
LeaveWake(t) == wake' = wake

\* clear_wake(), whoever has set it.
ClearWake(t) == wake' = [wake EXCEPT ![t] = Nobody]

\* co_await sleep(): under the token of the thread, at once if cancelled.
Sleep(r, t) ==
  /\ at' = [at EXCEPT ![r] = IF Cancelled(t) THEN "due" ELSE "wait"]
  /\ SetWake(r, t)

\* Mutant: recv() trusts notify_closed(), which nothing calls.
TrustingReceive(r) ==
  /\ open[r]
  /\ at' = [at EXCEPT ![r] = "wait"]
  /\ UNCHANGED wake

\* co_await recv(): under its own token, unless there is a frame already or
\* the socket is closed.
Receive(r) ==
  \/ /\ open[r]
     /\ at' = [at EXCEPT ![r] = "wait"]
     /\ SetWake(r, r)
  \/ /\ ~open[r] \/ input[r].frames # <<>>
     /\ at' = [at EXCEPT ![r] = "due"]
     /\ UNCHANGED wake

Suspend(r, m) ==
  LET recv == m.value[1] = "__ws_recv"
      t    == IF recv THEN r ELSE token[on[r]]
  IN /\ waits' = [waits EXCEPT ![r] = [for |-> m.value[1], token |-> t]]
     /\ IF recv THEN Receive(r) ELSE Sleep(r, t)
     /\ ctx' = [ctx EXCEPT ![r] = m.w.ctx]
     /\ Publish(m.w)
     /\ lent' = IF t = r THEN lent ELSE lent \cup {t}
     /\ UNCHANGED <<cookie, token>>

\* One instruction; the last one answers.
Executed(r, m) ==
  /\ SetMachine(r, m)
  /\ CASE m.status \in {"done", "error"} -> Finish(r, m) /\ UNCHANGED tokens
       [] m.status = "await" -> Suspend(r, m) /\ UNCHANGED under
       [] OTHER -> /\ ctx' = [ctx EXCEPT ![r] = m.w.ctx]
                   /\ Publish(m.w)
                   /\ UNCHANGED <<at, under, cookie, tokens>>
Execute(r) ==
  /\ at[r] = "run"
  /\ Executed(r, Step(CodeOf(r), InWorld(r, MachineOf(r).vm)))
  /\ UNCHANGED <<hotVars, on, input, open, messages>>

\* The timer of a sleep fires, or a frame comes; the last one closes.
Wake(r) ==
  /\ at[r] = "wait" /\ Idling(on[r])
  /\ waits[r].for = "__ws_recv" => open[r]
  /\ at' = [at EXCEPT ![r] = "due"]
  /\ ClearWake(waits[r].token)
  /\ UNCHANGED <<hotVars, on, input, under, own, shared, open, ctx, cookie, heap, store, messages, token, waits, lent>>

\* close() of the connection, while its handler waits or after it: cancel()
\* resumes whoever has set the wake function last.
Disconnect(r) ==
  /\ at[r] \in {"wait", "done"} /\ open[r] /\ Idling(on[r])
  /\ open' = [open EXCEPT ![r] = FALSE]
  /\ at' = [q \in Requests |-> IF q = wake[r] THEN "due" ELSE at[q]]
  /\ ClearWake(r)
  /\ UNCHANGED <<hotVars, on, input, under, own, shared, ctx, cookie, heap, store, messages, token, waits, lent>>

\* What recv() returns: the next frame, null once the socket is closed.
Produced(r) ==
  LET more == input[r].frames # <<>> /\ open[r]
  IN IF waits[r].for = "__ws_recv" /\ more THEN Str(Head(input[r].frames)) ELSE Null

\* The handler goes on, unless it slept and its client has left.
Resume(r) ==
  LET m == InWorld(r, ResumeVM(MachineOf(r).vm, Produced(r)))
      taken == Produced(r) # Null
  IN /\ at[r] = "due"
     /\ IF waits[r].for = "sleep" /\ ~open[r]
        THEN at' = [at EXCEPT ![r] = "gone"] /\ UNCHANGED <<input, under, own, shared, ctx, cookie, heap, store>>
        ELSE /\ SetMachine(r, m)
             /\ input' = IF taken THEN [input EXCEPT ![r].frames = Tail(@)] ELSE input
             /\ IF m.status = "done" THEN Finish(r, m)
                ELSE at' = [at EXCEPT ![r] = "run"] /\ UNCHANGED <<under, ctx, cookie, heap, store>>
     /\ UNCHANGED <<hotVars, on, open, messages, tokens>>

-----------------------------------------------------------------------------
Init ==
  /\ HotInit
  /\ at = [r \in Requests |-> "new"]
  /\ on = [r \in Requests |-> NoLoop]
  /\ input = [r \in Requests |-> NoInput]
  /\ under = [r \in Requests |-> Nowhere]
  /\ own = [r \in Requests |-> Loaded(0, Idle)]
  /\ shared = [l \in Loops |-> Loaded(0, Idle)]
  /\ open = [r \in Requests |-> TRUE]
  /\ ctx = [r \in Requests |-> Context(FALSE)]
  /\ cookie = [r \in Requests |-> Unchanged]
  /\ heap = <<>> /\ store = <<>>
  /\ messages = [l \in Loops |-> <<>>]
  /\ token = [l \in Loops |-> Nobody]
  /\ waits = [r \in Requests |-> [for |-> "nothing", token |-> Nobody]]
  /\ wake = [r \in Requests |-> Nobody]
  /\ lent = {}

Reload ==
  /\ Save \/ Watch
  /\ UNCHANGED <<at, on, input, under, own, shared, open, ctx, cookie, heap, store, messages, tokens>>

Next == \/ \E r \in Requests :
             \/ \E l \in Loops, in \in Arrivals[story][r] : Dispatch(r, l, in)
             \/ Execute(r)
             \/ Wake(r)
             \/ Resume(r)
             \/ Disconnect(r)
        \/ Reload

\* The watcher runs.  A loop runs what it has to run, a timer fires and a
\* client writes or closes: the weak fairness of Execute, Resume and Wake,
\* with what enables them written out.
Due(r) == at[r] = "wait" /\ Idling(on[r]) /\ (waits[r].for = "__ws_recv" => open[r])
Fair(r) == /\ []<>(at[r] # "run") \/ []<><<Execute(r)>>_vars
           /\ []<>(at[r] # "due") \/ []<><<Resume(r)>>_vars
           /\ []<>~Due(r) \/ []<><<Wake(r)>>_vars
Watching == WF_hotVars(Watch)
Spec == Init /\ [][Next]_vars /\ Watching /\ \A r \in Requests : Fair(r)

-----------------------------------------------------------------------------
(***************************************************************************)
(* Properties.                                                             *)
(***************************************************************************)
\* No path through the code underflows the operands or leaves them at two
\* depths (CodeAssumption), and the machine that runs is always where its
\* code says, the one of its thread too: whatever was caught, returned or
\* resumed, and whichever version has been published since, the top frame
\* holds exactly the operands its place asks for and as many variables as
\* its chunk declares.
LayoutIsStatic ==
  \A r \in Requests : at[r] = "run" =>
    Placed(CodeOf(r), Depths[Stories[story][MachineOf(r).version]], MachineOf(r).vm)

\* A wake function names a handler that waits, with that very token: cancel()
\* never resumes a coroutine that runs or has ended (task.hpp:203-214).
NoStaleWake ==
  \A t \in Requests : wake[t] # Nobody =>
    /\ at[wake[t]] = "wait" /\ waits[wake[t]].token = t
    /\ open[t]

\* Closing a connection wakes the handler that waits on it, and no handler
\* waits for a client that has left (GUIDE.md:465): that is so for every
\* handler that waits under its own token, as long as no other one has slept
\* under it, which sleep() does when a request was dispatched on the thread
\* while the other was suspended.
WokenByItsClient ==
  \A r \in Requests : at[r] = "wait" /\ waits[r].token = r /\ r \notin lent => open[r] /\ wake[r] = r
=============================================================================
