# TLA+ models of LoHin

LoHin is an HTTP server with its own handler language, Odio: a C++ engine
(`src/http`, `src/core`, `src/app.cpp`, `include/lohin`) that runs one epoll loop per core,
and a compiler and virtual machine (`src/odio`) whose handlers are coroutines on those loops.
This directory models the parts of it whose behaviour depends on the order of events, checks
them with TLC and proves the most important facts with TLAPS.

Paths below are relative to the repository; `PROJECT.json` maps every definition to the lines
it was translated from.

## Inventory

| Component | State | Operations | Interacts with | Hard because |
|---|---|---|---|---|
| **HttpConnection** `src/http/http_connection.cpp` | `in_flight_`, `pending_buf_`, parser, `cycle_pending_`, two timers, `write_buf_`, `file_fd_`, the event it waits for | `do_read`, `dispatch`, `finish_dispatch`, `send_response`, `do_write`, `do_sendfile`, `on_write_complete`, `finish_cycle`, `close` | the loop (events, timers), the parser (nested calls), handler coroutines | a handler may answer inside `feed()`, which may end the cycle and feed again; writes stop half way; anything may close it |
| **HttpParser** `src/http/http_parser.cpp` | llhttp state, `last_data_` | `feed`, `resume`, `unconsumed` | calls `dispatch` from inside `feed` | the pause exists only after the callback that asks for it |
| **EventLoop** `src/core/event_loop.cpp` | `callbacks_`, `task_queue_`, `running_` | `add`, `modify`, `remove`, `post`, `run`, `stop`, timers | every connection; the pool and the drain post to it from other threads | a batch of events outlives the descriptors in it; `stop` against `run` |
| **IoUringLoop** `src/core/io_uring_loop.cpp` | the same, with submissions in the ring | the same | the same | the same, plus completions that arrive late |
| **TcpServer** `src/core/tcp_server.cpp` | `listen_fd_`, the shared connection counter | `on_accept`, `pedir_parada`, `stop_accepting` | loop, connections | the counter is shared by all loops and is what the drain waits for |
| **Task, sleep, CancellationToken** `include/lohin/task.hpp`, `cancel.hpp` | continuation, wake function, thread-local current token | `sleep`, `cancel`, `set_wake` | connection, loop timers | the thread-local belongs to the last request dispatched, not to the one running |
| **App and shutdown** `src/app.cpp` | lists of loops and servers, drain timer, signal counter | `run`, drain, `handle_request` | all loops, the database pools | threads register while the drain walks the lists |
| **DbPool** `src/odio/db.cpp` | `jobs_`, `pinned_[w]`, `stopping_` | `submit`, `submit_to`, workers, `stop` | handlers (resumed by `post`) | a transaction lives on one worker between the jobs of its handler |
| **Transactions** `src/odio/project.cpp` 417-522 | `pinned_workers`, `last_exec_workers` per request; the connection's own transaction | `run_db`, `rollback_pendientes` | DbPool, drivers, the ways a handler ends | every way out of a handler must roll back |
| **Lexer, parser** `src/odio/lexer.cpp`, `parser.cpp` | position, indentation stack | one function per construct | compiler | layout by indentation, desugaring of `x += 1`, precedence |
| **Emitter, compile()** `src/odio/emitter.cpp`, `project.cpp` | scopes, chunk, try ranges | one function per node; binding of routes, bodies, groups, guards, constant answers | parser, VM, router | a route is translated in several ways (constant, own machine, shared machine) that must mean the same |
| **VM, natives** `src/odio/vm.cpp`, `natives.cpp` | operands, variables, frames; boxes; `SharedState` | `start`, `resume`, one case per opcode; methods and functions | handlers | exceptions and suspension in the middle of expressions and calls |
| **Handlers** `src/odio/project.cpp` 880-1677 | `NativeCtx`, `Response`, VM of the request or of the thread, thread-local validation messages | `prepare_args`, `bind_body`, `start`/`resume`, the answer, the session cookie | VM, tokens, DbPool | a handler suspended beside others of its thread |
| **WebSocket** `include/lohin/websocket.hpp` | receive queue, waiting coroutine, frame state | `on_data`, `recv`, `send`, `close` | connection, token | the handler waits, the client leaves |
| **SSE** `include/lohin/sse.hpp` | open flag | `send` | connection | writes past the connection's buffers |
| **Hot reload** `src/odio/main.cpp` | published module, file stamps | `watch_loop`, `publish_module` | handlers hold the module | files change while they are compiled; requests run under an older version |
| **Router** `src/router.cpp` | radix tree | `add`, `match` | dispatcher | backtracking, and the parameters it must forget |
| Templates, crypto, drivers, metrics, logger, OpenAPI, multipart | per call | pure or I/O | - | sequential; tested in `tests/` |

What makes each one correct:

- *HttpConnection*: one dispatch at a time; responses whole and in order; nothing of the
  client's stream lost or reordered while it waits; the right event armed; one deadline per
  connection; every request answered or the connection closed; every connection reaped.
- *EventLoop*: an event reaches the callback its descriptor had when it happened; posted tasks
  run once, in order; `stop` ends the loop.
- *Tokens*: closing a connection wakes its own handler and no other.
- *DbPool, transactions*: a statement runs on the connection of its own transaction and on no
  other's; no handler ends with a transaction open; every awaited job resumes its handler.
- *Language*: the answer of a request is what a reader of its source expects, whichever way the
  route was translated and whatever handlers run beside it; every place of the code finds the
  operands it needs; a program, printed and parsed, is the same program.
- *Handlers*: a body is accepted if its class accepts it, and only then; a suspended handler
  finds its machine as it left it; what an error handler is told is about its own request.
- *Server, shutdown*: the limit holds over all loops; nothing posts to a destroyed loop;
  connections get their 30 s; `run()` returns.
- *Hot reload*: the last version that compiles is served in the end.
- *Router*: `match` finds the route that the kinds of the segments prefer, with the right
  parameters.

## Modules

| Module | What it is |
|---|---|
| `HttpConnection` | the connection, its client, its timers and its handlers; properties and the faults used as mutants |
| `Exchange` | what a connection promises its client: the abstract specification `HttpConnection` implements |
| `HttpConnectionMC` | finite workloads for TLC |
| `HttpConnectionProofs`, `HttpConnectionCycleProofs` | TLAPS: type correctness, the order invariant and the refinement of `Exchange`; the timers and the parser between cycles |
| `DbPool` | the pool's threads, queues and condition variable, and the callers that await it |
| `JobService` | what the pool promises a caller: the abstract specification `DbPool` implements and `Transactions` is built on |
| `DbPoolMC`, `DbPoolProofs`, `DbPoolCountProofs` | the pool for TLC; TLAPS: no lost wakeup, `stop()`, the refinement of `JobService`; jobs and notifications, counted |
| `Transactions` | handlers with database operations, `run_db()`, `rollback_pendientes()` and the connections' transactions |
| `TransactionsMC`, `TransactionsProofs` | workloads for TLC; TLAPS: connection ownership and closure |
| `EventLoop`, `TcpServer`, `Shutdown` | the threads of the server: their loops and tasks, `accept` and the shared counter, `App::run()` with the drain |
| `Service` | what the server promises its clients: the abstract specification `Shutdown` implements |
| `ShutdownProofs` | TLAPS: the counter, the lists, the refinement of `Service`, the wakeups of a loop, and that the shutdown is never stuck |
| `Values`, `Ast` | the values of the language with what they share; the shape of its trees |
| `Lexer`, `Parser`, `Declarations` | source to tokens, expressions and statements, and the declarations of a file |
| `Natives`, `Emitter`, `VM` | the methods and functions of the language, the translation to bytecode, the machine |
| `Router`, `Compile` | the tree of routes; `compile()`, from the files of a project to its module |
| `Arguments` | the session of a cookie, the parameters and bodies of a route, the handlers of `on error` |
| `Verifier` | a verifier of the bytecode, and the layout of the machines that run what it accepts |
| `HotReload`, `Handlers` | the watcher; the requests in flight, from dispatch to answer |
| `VerifierProofs`, `HandlersProofs` | TLAPS: an instruction keeps the layout of its machine and makes headway; the loops, the threads, the wake functions and the machines of the handlers |
| `Printer`, `Semantics` | references, which nothing in the code corresponds to: a tree back to source, and what a program means by evaluation of its tree |
| `LanguageMC` | projects, requests and editions for TLC, and the properties of all the modules of the language |

### HttpConnection

Everything a connection does runs on its loop's thread, inside the callback of one event.
`pc` is where that callback stands and `"loop"` is the thread in `epoll_wait`; environment
actions (client, timers, the end of an awaited operation) may be taken by TLC only where the
code lets them happen: client bytes at any time, loop events only at `pc = "loop"`. The calls
of the code nest, and two variables keep the call stack: `reading` says that `do_read()` is on
it, `feeding` says who called `parser_.feed()`, `"read"` for `do_read()` (this is
`in_parser_`) and `"replay"` for `finish_cycle()`. So the synchronous path
`do_read -> feed -> dispatch -> finish_dispatch -> send_response -> on_write_complete` is
followed step by step, and what it returns through (`Unwind`, `FeedPaused`, `ReadFed`,
`ReplayFed`, `AfterCycle`) is part of the model.

Abstractions:

- Bytes are *units*: request `i` is the units `2i-1` and `2i`, the second completes it. A read
  may take any number of them, so a request may arrive cut in two, with its neighbours, or
  behind them; the limit `kMaxPendingBuf` is counted in units (`MaxPending`).
- A request is a *shape*: whether the parser accepts it, what its handler awaits (`none`,
  `sleep`, which the token interrupts, or `db`, which nothing does), how it answers (`body`,
  `file`, `sse`, `ws`) and whether it asks for keep-alive.
- `write()` and `sendfile()` take everything, part of it, or fail; the sizes are left out.
- `send_error(); close()` is one step, `Abort`: both run in one callback and nothing reads the
  connection between them.
- A timer that the member no longer names is counted in `stray`. It is still alive in the loop.

`load`, the *workload* of a behaviour, says whether the client pipelines and whether the socket
may fill up. It exists because the code has two defects that only some workloads reach (see
Findings); the other properties are checked, and the theorems proved, for the workloads that do
not reach them, and each defect has a run of its own that does.

`Exchange` is the promise to the client in four actions: take the next request when the last
one is answered, begin its response, end it, close. `Implements` is the refinement, with
`open <- ~closed` and `asked <- current`.

### DbPool and JobService

A caller of the pool is a coroutine, and a coroutine awaits one job at a time, so a job is named
after its caller. What the code does with `mutex_` held is one step (`Submit`, `SubmitTo`, a
worker's look at its queues); the notification that follows the unlock (`Notify`), the job
(`Finish`, `Throw`) and the three parts of `stop()` are steps of their own, because other
threads run between them. `thread[w]` is where the worker's thread is: `"looking"` (about to
evaluate the predicate of `cv_.wait`), `"asleep"`, `"busy"`, `"gone"`. `cv_.wait` may wake by
itself. The callers pin their jobs as they please, so the results do not depend on what the
handlers do. A caller that awaits a pool that is stopping, or whose job throws before its
`post()`, is `"lost"`: the code never resumes it.

`JobService` is the same service without queues: a worker takes any job that asks for it, or
else any that asks for nobody. Order among equals is left open, so it is the weakest thing the
handlers can rely on. `Serves` is the refinement, with `want` read off the pinned queues. Worker
threads are created by `start()` before any job is submitted and are all there in `PoolInit`.

### Transactions

A handler makes a sequence of operations of one module (a module is a driver with a pool of its
own, and `ctx.pinned_workers` is keyed by module), sleeps, and ends. `run_db()` is two steps,
`Call` up to its `co_await` and `Answer` from there; `rollback_pendientes()` is `Return` and
`RolledBack`. The worker of a `begin()` is known only in `Answer`, so the pin and the connection
disagree while the handler is suspended, and for good after a `commit()` that failed. Every way
of ending is there: returning (with the rollback), a VM error, a disconnection during `sleep()`,
an SSE or WS handler (without it), a job that throws, a pool that is stopping.

`tx[w]` is whose transaction is open on the connection of worker `w`. What the engine does with
an operation is external and nondeterministic: any operation may fail and may take the
transaction with it; a second `BEGIN` is an error in sqlite, a warning in postgres and an
implicit commit in mysql; `COMMIT` without a transaction is an error in sqlite only. Statements
are assumed not to contain transaction control or DDL of their own. `Drop` is the server closing
a link on which no job runs, inside a transaction or not. It matters in mysql only, where `open()`
pings before every job and reconnects without an error; the other drivers report it as a failure.
`inserted[w]` is whose insert the connection would report to `last_id()`; every `exec()` stands for
an INSERT. A connection that mysql has opened again reports none, and so may one whose last
statement was another (`Reported`); postgres has no `last_id()` and always fails.

`Loads` are the workloads: engine, whether requests overlap, whether they end abruptly, whether
links drop, how many operations a handler makes. As with the connection, the properties that
the documentation states without conditions (`Isolated`, `ClosedAtTheEnd`, `InItsTransaction`) are
false for some workloads and each has a violation run; the weaker ones
that do hold (`NothingInherited`, `NothingLeftOpen`, `WholeTransactions`, `LastIdIsMine`) name
the condition in their first line and are checked over all workloads. `OnOwnConnection` needs
none.

### EventLoop, TcpServer, Shutdown and Service

`Shutdown` extends `TcpServer`, which extends `EventLoop`: the threads of `App::run()`, with one
loop and one server each, on one shared counter. `phase[l]` is where the thread of a loop is,
and every point where another thread may come between is a phase of its own: a worker that has
built its server but is not in the lists yet, a loop about to test `running_`, one inside a
batch, one between `accept()` and `fetch_add()`. `process_tasks()` takes the whole queue at once
and runs what it took even if `stop()` comes meanwhile. `accept`, the count and the refusal are
three steps, since the counter belongs to all loops.

The drain is the task that the signal posts to the main loop: it asks the servers to stop
accepting, polls the counter every 100 ms up to the deadline (`Grace` polls), runs
`before_stop_()`, which waits for the database's pool, and stops the loops of the list. While it
waits for the pool the main loop does nothing else (`Free`). `Callers` are the clients whose
handlers use the database: their jobs are posted back to their loops, unless they throw first
(`ThrowJob`): then nothing posts and the handler stays suspended. `Post` and `StopAll` put the task
or the flag and the write to the eventfd into one step, although the code writes after it has
unlocked: in between only the loop itself could tell, and it sleeps or is about to look. The
second signal, which
ends the process, is not an action.

`Service` is the promise: never more than the limit inside, and after the signal nobody who was
inside is put out before the grace period is over. A connection that is accepted while the drain
begins (`"late"`) has no such promise, because the code does not keep it for them (see
Observations).

### The language

The front end is sequential, so it is operators and not actions. `Lexer` turns the lines of a
file, already cut into tokens, into the stream with its `Newline`, `Indent` and `Dedent`;
`Parser` and `Declarations` are the recursive descent of `parser.cpp`, one operator per function,
which thread the position; `Emitter` is the translation to bytecode, with scopes, loops, tries
and the desugaring of increments; `Compile` does what `compile()` does in its order: classes,
functions, groups with prefixes and guards, bindings of parameters, the constant answers that
never start a machine, error handlers, and the router. `Values` has integers and exact
fractions, and containers as boxes of a heap, because two variables may share one. The text of
a literal is opaque.

`Router` is the tree of `router.cpp`: `MatchRecursive` threads the parameters, which a failed
branch erases. `VM` is one instruction per step, with frames, operands, try ranges and the two
limits (`kStepLimit`, counted at backward jumps, and `kMaxFrames`): `Step` takes the instruction
of the top frame, or leaves a frame that has none left, and `Perform` is the switch of
`run_until_error()`. `Natives` are the methods and functions that the VM calls.

`Verifier` has nothing in the code that corresponds to it: the VM trusts what the emitter wrote.
It says what that trust amounts to. The *places* of some code are its instructions, each with
the number of operands its frame holds when it is reached; code is `Verified` by a set of
places if every chunk can be entered, every place leads to places again, along jumps, calls
and catches, no instruction is reached with two depths, and each finds the operands it takes
and the variables it names. `Placed` says of a machine that it is at a place of its code.
`OnlyJumpsGoBack` is the other thing the VM counts on: it looks at its step counter at `Jump` only
(`vm.cpp:304-309`), so the conditional jumps have to go forward.

`Handlers` is the state machine around them: several requests on several loops. A loop runs a
handler until it answers or suspends, and the instructions of different loops interleave. What a
thread keeps is indexed by loop: the shared VM (`shared`), the messages of the last validation
(`messages`), and `current_token` (`token`). `Dispatch` is the whole handler up to its first
instruction: the session, `prepare_args()`, `bind_body()` with the rules of a class, and a
refusal or a constant answer at once. `Execute` is one instruction, the last of which answers.
`sleep()` registers with the token of the thread, `recv()` with its own; `Wake`, `Disconnect`
and `Resume` are the timer, `close()` and the coroutine that goes on. `lent` is the set of the
tokens that somebody else has slept under, which the code allows when a handler that waited
sleeps again after another dispatch of its thread; `WokenByItsClient` and `EveryRequestEnds` name
it in their condition, and what is lost then is in the observations.

What the rest of the language computes for a handler, without suspending, comes to `Handlers` as
constants: `Lookup` (the router), `Authenticate` and `Prepare` (`begin_auth()`,
`prepare_args()`) and `Correct` (`on error`). `LanguageMC` gives them the operators of `Router`
and `Arguments`, which are recursive; the proofs hold whatever they compute. What the handlers
count on is stated as assumptions, which TLC evaluates for the projects of every run:

- `CodeAssumption`: the code of a module that compiles is `Verified` by `Depths`, the places that
  `LanguageMC` finds by following the code, only its counted jumps go back (`OnlyJumpsGoBack`), and
  its routes name chunks of it;
- `RouteAssumption`: the router finds a route of its module, or none;
- `StoriesAssumption` (in `HotReload`): a story is a sequence of projects, and its first compiles,
  as the program ends otherwise;
- `LimitsAssumption` (in `VM`): the two limits are not zero;
- `NamesAssumption`: nobody is called "none".

`HotReload` is the watcher: it reads the file and then its mtime, compiles, and publishes or
refreshes the stamps. A *story* is a list of versions which the author saves one after another;
the mtime of a file is the number of its version. A request keeps the version it was dispatched
with, while its error handlers are those of the module that is live at its end (`under`).

`Compiled`, `Reread` and `Meaning` are constants, tables that `LanguageMC` works out once from
the sources with `CompileFiles`, `Printer` and `Semantics`: the compiler runs in the checks, but
not in every state. `Semantics` evaluates the tree directly, with environments in place of
slots, signals in place of jumps, and recursion in place of frames. It shares with the model of
the code the operations on values, the natives and the binding of arguments, so a mistake in
those is not what `AnswersAsWritten` can find; it shares nothing of the emitter, the machine or
the router.


## Runs

| Run | Bounds | Properties | Shows |
|---|---|---|---|
| `connection` | 3 requests, 3 units of read-ahead, every mix of 8 shapes, pipelined or congested | `TypeOK`, `ResponsesInOrder`, `OneDispatchAtATime`, `NoByteLost`, `WaitsForTheRightEvent`, `OutputIsCurrent`, `Implements` | the connection keeps its promise; 252,674 states |
| `connection_live` | the same, synchronous handlers only when not pipelined | `OneDeadline`, `NotStuckPaused`, `EveryRequestAnswered`, `Reaped` | no cycle loses its deadline, its event or its buffered bytes; 91,327 states |
| `sync_pipeline` | 2 synchronous pipelined requests | `NotStuckPaused` violated | finding 1 |
| `congested_pipeline` | 3 pipelined requests, full socket | `OneDispatchAtATime` violated | finding 2 |
| `pool` | 3 callers, 2 workers, a `stop()` at any time, no bound on the jobs | `PoolTypeOK`, `OneJobPerCaller`, `NoJobWaitsForASleeper`, `SomeoneIsComing`, `NothingLeftBehind`, `Serves`, `StopReturns`, `EveryJobRuns` | the pool serves every job and stops; 43,584 states |
| `transactions` | 2 handlers, 2 connections; 3 operations each one by one (in mysql also with dropped links), 2 at once with dropped links, 2 (1 at once) with abrupt ends | `TypeOK`, `OnOwnConnection`, `NothingLeftOpen`, `NothingInherited`, `WholeTransactions`, `LastIdIsMine` | transactions stay on their connection and are closed; 3,954,754 states up to symmetry |
| `shared_connection` | 2 handlers at once, 2 operations | `Isolated` violated | finding 3 |
| `abrupt_end` | one after another, 2 operations, abrupt ends | `ClosedAtTheEnd` violated | finding 4 |
| `dropped_connection` | mysql, one after another, 3 operations, dropped links | `InItsTransaction` violated | finding 5 |
| `server` | 2 loops, 2 clients, a limit of 1, a deadline of 1 poll, one client's handlers use the database, whose jobs may throw | `ServerTypeOK`, `CountIsExact`, `NoPostToTheDead`, `KeepsItsPromise`, `RunReturns`, `AnswersArrive` | the server keeps its limit and its grace period, and ends; 235,038 states |
| `language` | 12 projects, 185 expressions and one project edited twice; 2 requests on 2 loops; 4 backward jumps, 3 frames | `RoundTrip`, `AnswersAsWritten`, `LayoutIsStatic`, `OnlyValidBodies`, `OwnMessages`, `NoStaleWake`, `WokenByItsClient`, `EveryRequestEnds`, `EditsAreServed` | compiler, machine, handlers and hot reload do what the sources mean; 56,261 states |
| `shared_vm` | one project whose route calls a function that sleeps, 2 requests | `OwnMachine` violated | finding 6 |

Three requests are enough for each phase of one to meet the phases of the two others: one in
flight, one kept in `pending_buf_` and one in the socket. Three units of read-ahead let the
limit be met both by an append and by what a paused parser leaves, with a request cut in two on
either side of it. In the pool a third caller lets a free job and a pinned one wait while
another is notified about; the pool has no other counter, so its state space is finite without
a bound. Three operations are the shortest transaction with a statement in it (`begin`, a
statement, `commit`) and the shortest way to have a statement behind a dropped link or a
`last_id` behind a `begin`; a second handler inherits what the first one leaves. The two
connections of `transactions` are interchangeable, and so are its handlers, whence the symmetry
(it checks invariants only).

In `server` two loops let a worker be anywhere in its life while the main loop drains, two
clients and a limit of one let both be between `accept()` and the count at once, on the same or
on two loops, and one poll of grace makes every request either end before the deadline or not.
In `language` each project is a story of its own, told by every request of `FirstOf` and, where
the interleaving matters (waits, sessions, editions), of `SecondOf`. The 185 expressions are every
pair of the nine operators in both shapes, and 23 of the other forms. Four backward jumps and
three frames are met by the projects that loop and recurse for ever and by none of the others.
The edited project has a first version, one that does not compile, and one whose route and error
handler are different. `AnswersAsWritten` speaks of a request that is alone, or of a story whose
programs share nothing: what a program that shares state means depends on the order.
`OnlyValidBodies` has two classes: the rules of one can only be satisfied or not, those of the other
compare an optional field and divide by it, so that bodies reach every verdict: served, refused
with 400 or 422, and the 500 of a rule that fails, first or behind another.

Connections, handlers, the pool and the server end, so deadlock is not checked: a closed
connection with no handler left has no step.

### Fairness

`FairSpec` assumes that a callback that runs is run to its end (`WF` of every step with
`pc # "loop"`) and that a readable descriptor is reported again until it is read (`WF` of
`Readable`): epoll is level-triggered, there is no `EPOLLET`. What the code cannot promise is a
hypothesis of the property that needs it. `EveryRequestAnswered` holds if handlers end and the
client reads (`EveryoneKeepsUp`). It does not assume that any timer fires: a request is answered
because the pipeline never stops, and not because a timeout cleans up. `Reaped` is the opposite:
handlers may hang and the client may stop reading, but an expired timer stays readable, so it
fires in the end if it is armed over and over (`SF`).

`PoolFairSpec` assumes that threads run and that jobs end, by returning or by throwing; nobody
has to call `stop()`. The condition variable gives no order: a notification wakes any sleeper.
`EveryJobRuns` promises a free job only if the transactions pause (`TransactionsPause`),
because a worker prefers what is pinned to it and nothing else in the code bounds how long.

The server's `FairSpec` has the weak fairness of `ThreadStep` as a whole, that is, of the
threads together: some thread runs if one can. It is enough because, once the clients stop, every
behaviour of the threads is finite. Nothing is assumed of the clients, who may stay for ever.

`Handlers` assumes that a loop runs what it has to run (`Execute`, `Resume`), that a timer fires
and a client writes or leaves (`Wake`), and that the watcher runs (`Watching`). The first three
are the weak fairness of each action with its guard written out, which says the same and spares
TLC the evaluation of `ENABLED` through an instruction. A WebSocket client that stays writes or
leaves in the end; this is the one assumption about a client, and without it `recv()` waits for
ever, as it should.

## Proofs

`HttpConnectionProofs` proves, for every number of requests, every limit and every set of
workloads:

- `TypeCorrect`: `Spec => []TypeOK`, with no hypothesis;
- under `Orderly` (no workload both pipelines and has a socket that fills up): `InOrder`,
  `OneAtATime`, `ReadAheadIsLossless`, `OutputHasOneOwner`, `RightEvent` and `KeepsThePromise`
  (`Spec => Implements`).

`Orderly` is a hypothesis because the properties are false without it: run `congested_pipeline`
is the counterexample. It is the only one: synchronous handlers, malformed requests, streams,
files and any number of requests are covered. The only assumption on the constants is
`ConnectionAssumption`.

`TypeOK` is not inductive (the owner of the response being written must be a request), so
`DataInv` adds where `cur` and `file_fd` name one. The properties are not inductive either. The
invariant is `OrderInv`, in named parts:

- `Frames`: which calls can be on the stack at each `pc`, and that the parser's buffer and
  `pending_buf_` are never both in use;
- `Output`: what waits to be written is the current request's, and `EPOLLOUT` is armed exactly
  then; with it armed nothing is in `pending_buf_`, which is what finding 2 lacks;
- `Handlers`: a suspended handler is the one in flight, and a stream keeps the connection in
  flight until it closes it;
- `Counts`: how far `begun` and `ended` are at each point of a cycle;
- `Bytes`: the stream from the parser to the socket is contiguous, and starts where the
  request in flight ends;
- `Lockstep`: a client that does not pipeline is at most one request ahead.

The interesting step is a write that stops half way (`NothingAhead`): the socket filled up, so
the client does not pipeline (`Orderly`), so it has sent nothing behind the request in flight
(`Lockstep`, `Bytes`), so `pending_buf_` is empty and `finish_cycle()` will not return before
it re-arms the descriptor. Segments of the stream are handled by lemmas of their own
(`SegmentConcat`, `SegmentSplit`, ...), and `RefinementStep` maps each action to a step of
`Exchange` or a stutter. Every part of `OrderInv` was also model-checked in the `connection`
configuration.

`HttpConnectionCycleProofs` proves `OneTimer` (`OneDeadline`) and `NeverStuck` (`NotStuckPaused`)
under `Orderly` and `Patience`: a request that is pipelined meets a handler that waits. Run
`sync_pipeline` shows why `Patience` is needed. `CycleInv` adds to `OrderInv`:

- `InStep`: without pipelining nothing is read ahead, and a request is all that `feed()` is given
  (`NothingBehind`, `NothingToKeep`), so such a connection never replays;
- `Tended`: a stream in flight has a suspended handler, so the bytes that arrive are its frames;
- `Cycle`: where the parser is at each point of a cycle. In a pipeline a response is produced with
  no `feed()` on the stack, so the end of a cycle finds a pause that exists;
- `Clock`: a timer is armed only when the member that names it is free.

Its parts were model-checked in the `connection_live` configuration.

`DbPoolProofs` proves, for any number of callers and of workers, under `PoolAssumption` only
(finite sets, at least one worker):

- `PoolTypeCorrect`, `NoWakeupLost` (`SomeoneIsComing`), `StopLeavesNothing`
  (`NothingLeftBehind`) and `ServesItsCallers` (`PoolSpec => Serves`);
- `StopNeverStuck` and `StopMakesHeadway`: the join of `stop()` waits only for threads that can go
  on, and every step of theirs leaves it less to wait for.

The invariant `Inv` has five parts. `Places` says where the job of a suspended caller is: in
one queue, once, or with one worker; the two lemmas `Push` and `Pop` say what a queue without
repetitions keeps, so no step argues about positions. `Exits` ties `stopping` to where `stop()`
is and says a thread is gone only when its queues are empty, from which `StopLeavesNothing`
follows. `Paid` (a caller that runs owes no notification) is what makes `SomeoneIsComing`
inductive: without it a second submission could overwrite the first one's `notify_all`. The
refinement reads `want` from the queues and needs `Places` to know that it is unique. The end of
`stop()` rests on `Roused`: once it has notified, nobody sleeps, and nobody falls asleep again
because `stopping_` is in the condition of the wait. Three sets then only shrink (`Untaken`, `Left`
and `Remaining`: jobs to take, jobs to end, workers to return), and each step of a worker takes a
member from one of them. With weak fairness of the workers this is `StopReturns`.

`DbPoolCountProofs` counts: `OneJobEach` (`OneJobPerCaller`) reads the three cardinalities off
`Places`, and `NobodyOversleeps` (`NoJobWaitsForASleeper`) is inductive with `Inv`, because each
step adds or takes as many notifications and helpers as free jobs.

`TransactionsProofs` proves, for every set of workloads and any number of handlers and
connections, under `LoadsAssumption` only:

- `OwnConnection` (`OnOwnConnection`), `TypeCorrect`, `NothingStaysOpen`
  (`NothingLeftOpen`), `NoneInherits` (`NothingInherited`), `OwnLastId` (`LastIdIsMine`) and
  `WholeHolds` (`WholeTransactions`).

The argument for `NothingStaysOpen`: a transaction of `h` is open only on the worker `h` has
pinned, or on the one where its `begin()` has just run and been reported without an error, which
`Answer` will pin; a `begin()` that fails leaves none; and the rollback of `Return` goes to the
pin, where it ends whatever is open. The other three are about requests that come one after
another, and rest on `Sequel`: at most one handler is busy (`OneByOne`), one that has not begun
remembers nothing (`Fresh`), and a job waits and runs where `run_db()` sent it (`Aimed`). Then
whose transaction is open is the busy handler's or nobody's, which is `NoneInherits`. `Mine` follows
the last insert from the job to the reply and from the reply to `last[h]`, where the connection
reports it or, in mysql, nothing, wherever links drop; `Covered` follows the
transaction of a handler that has seen no error, from the `begin()` to its pin and through each
operation (`OutcomeOwner`), where it needs that links stay up. It composes with the pool through
`JobService`, which `DbPool` is proved to implement.

`ShutdownProofs` proves, for any loops, clients, limit, deadline and callers, under
`LoopAssumption`, `LimitAssumption` and `GraceAssumption` (a finite set of clients, a main loop,
and a limit and a deadline that are not zero):

- `CounterIsExact` (`CountIsExact`), `ServerTypeCorrect` (`ServerTypeOK`),
  `NobodyPostsToTheDead` (`NoPostToTheDead`) and `PromiseKept` (`Spec => KeepsItsPromise`);
- `LoopsAreWoken`, no wakeup of a loop is lost; `AnswersComeOnce`, a handler that awaits the
  database is resumed at most once per job and on its own loop, and the task that resumes it is
  there, once, from `post()` until it runs;
- `DrainNeverStuck` and `AnswersNeverStuck`: until `run()` returns, and as long as an answer waits
  on a loop that runs, some thread concerned can go on.

The invariant of the first four, `Inv`, has nine parts. `CountIsExact` is inductive only with
`Flags` and `Places`, which say where a connection that is being accepted can be. `DrainOnce`
(there is one drain task, or one armed timer, or a later stage) makes the stages of the drain go
forward; `Ends` and `Idle` tie the phases of a loop to them; `Lists` says who is in the lists;
`Quiet` that a pool which has been stopped has no job left, from which `NoPostToTheDead` follows.
The steps are proved in three groups of lemmas: those of a loop (`Conduct`), of the drain
(`Drainage`) and of the threads (`Threads`).

The others need `LiveInv`, which adds to `Inv`:

- `Awake`: a loop in `epoll_wait()`, or on its way there, whose queue is not empty or which was told
  to stop has a readable eventfd. It holds through `post()`, `stop()`, the read of the eventfd and
  the swap of the queue, which may come in any order between threads; `post()` and `stop()` are one
  step each, with their write to the eventfd;
- `Between`, `Halted`, `Underway`: the batch of tasks is empty outside `process_tasks()`, a loop
  that has left its cycle was told to, and a phase in the middle of `accept` has a connection in
  hand;
- `Posted`: the resumption of a client whose job has ended is in one place, a queue or the batch of
  its loop, and only there and once; nobody else's is anywhere;
- `DrainGoes`: after the signal and before the drain ends there is a task, a timer or a running
  turn that carries it on.

`DrainMoves` and `AnswersMove` say "can go on" by `Ready`, `DrainReady` and `JobReady`, the guards of
the steps of a thread, of the drain and of the pool. That such a guard means that a step is
enabled was model-checked, like the parts of `LiveInv`, in the configuration of `server`. What is
left of `RunReturns` and `AnswersArrive` is fairness and the bounds that make the steps run out.
Like `RunReturns`, `DrainMoves` sets aside a worker that `stop()` did not reach because its `run()` had
not begun (`Missed`).

`VerifierProofs` and `HandlersProofs` prove, for any number of requests, loops and versions, any
projects, and whatever `Lookup`, `Authenticate`, `Prepare` and `Correct` compute, under the five
assumptions above:

- of the wake functions: `NoStaleWakeHolds` (`NoStaleWake`), `WokenByItsClientHolds`
  (`WokenByItsClient`);
- of the loops: `OneThreadHolds`, no two handlers of a loop are at work together, and a wake
  function resumes a handler of the loop whose connection closes; `ThreadsAreKept`, while a
  handler runs no step of another one changes the thread-locals of its loop;
- of the machines: `StepKeepsLayout`, `LayoutIsStaticHolds` (`LayoutIsStatic`), and
  `OperandsAreFound`, what it means for the C++: no instruction pops below its frame, reads a
  variable outside the vector or starts past the end of its chunk;
- of the limits: `StepAdvances`, `LimitInvariant` and `HandlersMakeHeadway`, no handler runs for
  ever without an error to catch;
- of `on error`: `TellsItsOwn`, it is told what the preparation of its own request has reported;
- of the watcher: `NoEditSleepsHolds`, it never sleeps over the last edit.

*Wake functions.* The two properties are inductive together, with `Tokened` (who is under way has a
loop, and the token of that loop names somebody) and `Lends` (who waits under a token that is not
its own has put it in `lent`). Lemmas say first what a step does to the phases and the tokens
(`Begins`, `Proceeds`, `Awaits`, whatever the machine computes), and the invariant is proved over
those. `LoopInv` adds `Homes` and `Nearby`: a token is only ever held by handlers of one loop. So
the handler that `cancel()` makes due is on a loop where nobody was at work, which keeps `OneBusy`.

*Layout.* `Placed` is not inductive: `Return` and a caught error uncover a frame whose operands
nobody has looked at since it called. `Laid` adds what lies below the top frame (`Framed`): the
bases of the frames grow, and each frame that has called is right behind its call, at a place that
expects one more operand, the result. For an error `Unwind` may then cut any number of frames:
the frame that catches is at a place of a `try` whose catch is a place with one operand, because
`Verified` follows `Covering`. The lemmas of `VerifierProofs` go by what an instruction does to
the three vectors (`Peeked`, `Branched`, `Entered`, `Left`, `CameOut`, `Suspended`), one for each
kind, and `PerformKeepsLayout` is the switch. `LayoutInv` carries this to the handlers:

- `Published`: the version that is live, and any that a request was dispatched with, compiled;
- `Placements`: a request under way has a route of its own version;
- `Layouts`: every machine, of a request or of a thread, is laid out for the version it is loaded
  with, which after a reload need not be the one of the request that resumes on it;
- `Turns`: a machine runs exactly when a handler runs on it.

The last one is where the shared machine of a thread matters. Finding 6 says that a suspended
handler may find another's frames there; the theorem says that even then the machine is one that
stopped or suspended in order, never in the middle of an instruction or in the code of another
version, because of `OneBusy`. It is the wrong computation, but no vector is read out of bounds.
The model keeps the code of every version for ever; how long a module outlives the frames of a
shared machine that point into it is not part of it.
The parts of `LayoutInv` were model-checked in the configurations of `language` and `shared_vm`.

*Steps and calls.* The code counts steps at backward jumps and calls at `Call`, and says that an
endless loop needs one of them (`vm.cpp:305-308`). `StepAdvances` is that claim: after an
instruction the machine has counted a step; or it has counted none and its calls are further on
(`Further`: the first frame that differs has a later instruction, or has returned); or it is at the
catch of an error (`Caught`). The order of `Further` is that of words over the places of the code,
of at most `kMaxFrames` letters, so with the two limits (`Limited`) only the third can go on for
ever: an error that is caught inside a loop starts the counter again (see the observations). The
lemmas go by what an instruction does to the frames (`Goes`). `OnlyJumpsGoBack` is needed and used:
a conditional jump back would count nothing. `LimitInvariant` carries the limits to every machine,
of a request or of a thread, through answers, waits, reloads and the sharing of machines, and
`Headway` is the action property. `EveryRequestEnds` is the liveness property of which they are the
part without fairness.

*What `on error` is told.* `prepare_args()` clears and fills a list of the thread
(`natives.hpp:157-159`), and `on error` reads it when the handler ends. `ReportInv` follows it:
what the list held when the request was dispatched (`Prepared`) is what the list of the loop holds
as long as the handler runs and has not waited (`Heard`), because nobody else runs on that loop
(`ThreadsAreKept`), and what the answer was made of (`Told`). A handler that has waited may find
the list of another, which the condition of `OwnMessages` says as well.

*Reloading.* `Serves`: when the watcher sleeps, what it has read last is live, if it compiles. With
the stamps this gives `NoEditSleeps`, which leaves of `EditsAreServed` only that the watcher takes
its steps.

Only model-checked:

- the liveness properties (TLAPS does not reason about `ENABLED`). For `StopReturns`, `RunReturns`,
  `AnswersArrive`, `EveryRequestEnds` and `EditsAreServed` a part that needs no fairness is proved:
  that the code is never stuck, or that its steps get somewhere;
- `RoundTrip`, `AnswersAsWritten`, `OnlyValidBodies` and `OwnMessages`, which are about what
  recursive operators compute from trees, code and bodies (induction over data). `ThreadsAreKept`
  and `TellsItsOwn` are the part of `OwnMessages` that does not depend on them;
- that the emitter produces `Verified` code whose conditional jumps go forward (`CodeAssumption`),
  for the projects of the runs.

## Findings

1. **A replayed request answered at once pauses the connection for good** (`sync_pipeline`).
   `finish_cycle()` feeds `pending_buf_` to the parser without setting `in_parser_`
   (`src/http/http_connection.cpp:463`). The comment at `http_connection.hpp:58` describes the
   hang that follows and says it cannot happen.
2. **A second dispatch on one connection** (`congested_pipeline`). `finish_cycle()` returns at
   `src/http/http_connection.cpp:483` with `EPOLLOUT` still armed; the next event completes a
   response that has not begun. `http_connection.hpp:47` says no second dispatch may run.
3. **A statement inside another request's transaction** (`shared_connection`). Between two
   statements of a transaction its worker serves the free queue (`src/odio/db.cpp:30`): what it
   takes runs inside the open transaction. `GUIDE.md:587-590` explains the rollback by the need
   that no request inherits that state.
4. **Transactions left open** (`abrupt_end`). A VM error (`src/odio/project.cpp:1665`), a
   disconnection during `sleep()` (1648) and every SSE or WS handler end without
   `rollback_pendientes()`; `GUIDE.md:588` promises the rollback when the handler ends "o
   revienta".
5. **A transaction lost without an error** (`dropped_connection`). `MysqlDriver::open()`
   reconnects between two statements of a transaction (`src/odio/db_mysql.cpp:79`); the comment
   at line 87 turns the client's own reconnection off because it would do just that.
6. **A suspended handler on the machine of its thread** (`shared_vm`). A route borrows the VM of
   its thread unless its own chunk has an `await` (`src/odio/project.cpp:1628`), but a function it
   calls may have one. While it waits the next such request starts on the same machine, and the
   first one resumes in its place. `vm.hpp:21-22` says that two suspended VMs cannot overwrite
   each other's state.

## Observations

Read in the code while it was modelled, and part of the models; no run is about them.

Server and loops:

- A stop that comes before `run()` is lost: `run()` sets `running_` again
  (`src/core/event_loop.cpp:80`), and `App::run()` then waits in `join` (`Missed` excepts it).
- A connection accepted after the drain began may be cut before the deadline, although
  `src/app.cpp:413-415` promises the 30 s to those inside: they are counted too late.
- A connection that is refused counts for a moment, so another one may be refused without need.
- Tasks posted to a loop that has stopped, and jobs submitted to a pool that stops, never run;
  their handlers are not resumed. Nor is the handler of a job that throws
  (`include/odio/db.hpp:157`), which `AnswersArrive` excepts.

Waits:

- A handler that sleeps again after another dispatch of its thread registers with that one's
  token: its client's leaving does not wake it, against `GUIDE.md:465`, and the other's does.
- A `recv()` whose wake function was overwritten or cleared so waits for ever, since nothing
  calls `notify_closed()` (`include/lohin/websocket.hpp:317`).
- A constant answer and a handler that has waited leave the thread's validation messages as they
  are; the error handler of such a request may see another's (`natives.hpp:157-159` says not).

Hot reload:

- A save between the reading of a file and its stamp (`src/odio/project.cpp:1701`), or while a
  version is refused (`src/odio/main.cpp:98-102`), is never noticed (`Overtaken` excepts it).
- A request may be answered by one version and corrected by the error handlers of another.

Transactions:

- `last_id()` after `begin()` goes to the transaction's connection and not to that of the last
  `exec()` (`src/odio/project.cpp:448`, against the comment two lines above).
- In mysql `last_id()` is that of the last statement of a connection that may have been opened again
  since: after a `commit()`, or a link that dropped, it answers 0 without an error.

Router:

- A parameter's node is found without its name: with `/a/:id` first, the parameter of
  `/a/:name/x` is called `id` and the route finds no `name`.
- A pattern that is added twice replaces the first silently; a name that occurs twice in a
  pattern is erased for both when the search backtracks.

Language:

- `xs[i + 1] += 1` loses the children of the index when it copies the target
  (`src/odio/parser.cpp:770`).
- A loop that catches an error in each turn never ends: every catch starts the count of steps
  again (`steps` is local to `run_until_error()`, `src/odio/vm.cpp:146`), although the comment
  above it promises no more than `kStepLimit` between two suspensions.
- `coerce()` accepts `"12abc"` as 12. A declarative `return null` answers 200 with `null`, the
  same route with a machine answers 204.
- A function of the top level cannot construct a class; a default is evaluated in the caller's
  scope; a rule of a class that awaits answers 500, as one that fails does.
- Changing a container of the session in place does not mark it dirty; `state.get` returns the
  container itself.

## Not modelled

- `IoUringLoop`: the contract of `EventLoop` over submissions and completions.
- In the loop, the table of callbacks and a descriptor number that is reused inside a batch; the
  connection's model has the events of one descriptor.
- In the connection, the lengths of responses (a file that shrinks while it is sent, an error
  written into a half-written response), and the limits of headers and bodies in llhttp.
- WebSocket frames, fragmentation and the closing handshake; SSE writes that the socket takes in
  part.
- The middleware and the static files of `App`, a sequential chain before the dispatcher.
- In the language, imports of several files, databases and static mounts as declarations,
  positions and most diagnostics, 64-bit overflow of integers, the rounding of doubles, and
  natives that call libraries (dates, hashing, HTTP, files).
- Templates, crypto and token formats, multipart text, OpenAPI, metrics and logs: functions of
  their input, or output, which decide nothing of the rest.
- Database drivers, except for what they do to a transaction.

What would come next: `Transactions` over `DbPool` itself in one run (they are composed by
`JobService`, which `DbPool` is proved to implement), and the frames of a WebSocket
against its connection.
