---------------------------- MODULE Transactions ----------------------------
(***************************************************************************)
(* The requests of Odio handlers that use a database module: run_db() and  *)
(* rollback_pendientes() (src/odio/project.cpp), the three coroutines that *)
(* drive the VM, and every way in which they end.                          *)
(*                                                                         *)
(* A handler is a caller of the pool (JobService). It may do any        *)
(* sequence of operations of one module, sleep, and end. What a            *)
(* statement does to the transaction of its connection is external; the    *)
(* three engines differ where the code can tell.                           *)
(***************************************************************************)
EXTENDS Naturals, JobService

CONSTANT Loads   \* the workloads to consider

\* engine: the driver; together: several requests at once; abrupt: handlers may
\* end other than by returning; drops: the server may close a connection; calls:
\* a bound on the database calls of one handler.
Workload == [engine : {"sqlite", "postgres", "mysql"}, together : BOOLEAN,
             abrupt : BOOLEAN, drops : BOOLEAN, calls : Nat]

ASSUME LoadsAssumption == Loads \subseteq Workload /\ None \notin Workers \cup Callers

VARIABLES
    load,      \* the workload of this behaviour
    phase,     \* "idle", "running", "db" (in run_db), "sleeping", "rolling"
               \* (in rollback_pendientes), "done"
    calls,     \* database calls made
    op,        \* the operation h awaits
    pin,       \* ctx.pinned_workers[mod]
    last,      \* ctx.last_exec_workers[mod]
    reply,     \* what the job left for h: errmsg is empty, used
    warned,    \* h has received an error since its transaction began
    tx,        \* whose transaction is open on the connection of w
    inserted   \* whose insert the connection of w would report; None: no one's

handlerVars == <<load, phase, calls, op, pin, last, warned>>
dbVars == <<reply, tx, inserted>>
vars == <<serviceVars, handlerVars, dbVars>>

Statements == {"exec", "query"}
Ops == Statements \cup {"begin", "commit", "rollback", "last_id"}

\* A handler is suspended in the pool exactly while it is in a co_await of
\* run_db() or of rollback_pendientes().
InCoAwait == \A h \in Callers :
    phase[h] \notin {"db", "rolling"} => caller[h] = "running"

TypeOK ==
    /\ InCoAwait
    /\ ServiceTypeOK
    /\ load \in Loads
    /\ phase \in [Callers -> {"idle", "running", "db", "sleeping", "rolling", "done"}]
    /\ calls \in [Callers -> Nat]
    /\ op \in [Callers -> Ops]
    /\ pin \in [Callers -> Workers \cup {None}]
    /\ last \in [Callers -> Workers \cup {None}]
    /\ reply \in [Callers -> [ok : BOOLEAN, used : Workers \cup {None}]]
    /\ warned \in [Callers -> BOOLEAN]
    /\ tx \in [Workers -> Callers \cup {None}]
    /\ inserted \in [Workers -> Callers \cup {None}]

Init ==
    /\ ServiceInit
    /\ load \in Loads
    /\ phase = [h \in Callers |-> "idle"]
    /\ calls = [h \in Callers |-> 0]
    /\ op = [h \in Callers |-> "query"]
    /\ pin = [h \in Callers |-> None]
    /\ last = [h \in Callers |-> None]
    /\ reply = [h \in Callers |-> [ok |-> TRUE, used |-> None]]
    /\ warned = [h \in Callers |-> FALSE]
    /\ tx = [w \in Workers |-> None]
    /\ inserted = [w \in Workers |-> None]

-----------------------------------------------------------------------------
(* The database (external). Each operation has a set of outcomes: whether  *)
(* the driver reports success, and the transaction that is then open.      *)

Outcome(ok, owner) == [ok |-> ok, tx |-> owner]

\* Any operation may fail; the engine may undo the transaction when it does.
Failures(w) == {Outcome(FALSE, tx[w]), Outcome(FALSE, None)}

\* BEGIN inside a transaction: an error, a warning, or an implicit COMMIT.
Begin(w, h) ==
    IF tx[w] = None
    THEN {Outcome(TRUE, h)}
    ELSE {[sqlite   |-> Outcome(FALSE, tx[w]),
           postgres |-> Outcome(TRUE, tx[w]),
           mysql    |-> Outcome(TRUE, h)][load.engine]}

\* COMMIT or ROLLBACK: an error in sqlite if nothing is open.
End(w) == {Outcome(tx[w] # None \/ load.engine # "sqlite", None)}

Outcomes(w, h) ==
    CASE op[h] = "begin"    -> Begin(w, h) \cup Failures(w)
      [] op[h] = "commit"   -> End(w) \cup Failures(w)
      [] op[h] = "rollback" -> End(w) \cup {Outcome(FALSE, None)}
      [] op[h] = "last_id" /\ load.engine = "postgres" -> Failures(w)
      [] OTHER              -> {Outcome(TRUE, tx[w])} \cup Failures(w)

\* Whose insert w would report afterwards; an exec() stands for an INSERT. mysql
\* reports that of the last statement: after any other it may have none.
Reported(w, h, ok) ==
    IF op[h] = "exec" /\ ok THEN {h}
    ELSE IF load.engine = "mysql" /\ op[h] # "last_id" THEN {inserted[w], None}
    ELSE {inserted[w]}

\* The lambda of run_db(), or of rollback_pendientes(), on worker w.
Perform(w, h) ==
    \E o \in Outcomes(w, h) :
        /\ tx' = [tx EXCEPT ![w] = o.tx]
        /\ reply' = [reply EXCEPT ![h] = [ok |-> o.ok, used |-> w]]
        /\ \E g \in Reported(w, h, o.ok) : inserted' = [inserted EXCEPT ![w] = g]

\* The server closes a connection, in a transaction or not. mysql pings it
\* before every job and opens another without a word, which knows of no
\* transaction and no insert; the other two report an error, as any failure.
Drop(w) ==
    /\ load.drops /\ load.engine = "mysql"
    /\ job[w] = None
    /\ tx' = [tx EXCEPT ![w] = None]
    /\ inserted' = [inserted EXCEPT ![w] = None]
    /\ UNCHANGED <<serviceVars, handlerVars, reply>>

-----------------------------------------------------------------------------
(* Handlers                                                                *)

Move(h, from, to) == phase[h] = from /\ phase' = [phase EXCEPT ![h] = to]

Start(h) ==
    /\ load.together \/ \A g \in Callers : phase[g] \in {"idle", "done"}
    /\ Move(h, "idle", "running")
    /\ UNCHANGED <<serviceVars, dbVars, load, calls, op, pin, last, warned>>

\* Bug: last_id() takes any worker.
BugRoute(h, o) == pin[h]

\* Bug: the statements of a transaction take any worker.
BugAnyWorker(h, o) == IF o = "last_id" THEN last[h] ELSE None

\* Where run_db() sends the job: to the transaction's worker, or last_id() to
\* the worker of the last exec; otherwise anywhere.
Route(h, o) == IF pin[h] = None /\ o = "last_id" THEN last[h] ELSE pin[h]

\* run_db() up to its co_await.
Call(h, o) ==
    /\ calls[h] < load.calls
    /\ Move(h, "running", "db")
    /\ calls' = [calls EXCEPT ![h] = @ + 1]
    /\ op' = [op EXCEPT ![h] = o]
    /\ Await(h, Route(h, o))
    /\ UNCHANGED <<dbVars, load, pin, last, warned>>

\* Bug: begin() does not pin its connection.
BugNewPin(h) == IF op[h] \in {"commit", "rollback"} THEN None ELSE pin[h]

\* What run_db() does to the pin after a success.
NewPin(h) ==
    CASE op[h] = "begin"                 -> reply[h].used
      [] op[h] \in {"commit", "rollback"} -> None
      [] OTHER                            -> pin[h]

\* Bug: the pin is updated before the error is looked at.
BugAnswer(h) ==
    /\ Move(h, "db", "running")
    /\ Resume(h)
    /\ pin' = [pin EXCEPT ![h] = NewPin(h)]
    /\ warned' = [warned EXCEPT ![h] = ~reply[h].ok]
    /\ UNCHANGED <<dbVars, load, calls, op, last>>

\* run_db() from its co_await to its co_return: an error changes nothing.
Answer(h) ==
    /\ Move(h, "db", "running")
    /\ Resume(h)
    /\ IF reply[h].ok
       THEN /\ pin' = [pin EXCEPT ![h] = NewPin(h)]
            /\ last' = IF op[h] = "exec" THEN [last EXCEPT ![h] = reply[h].used] ELSE last
            /\ warned' = IF op[h] = "begin" THEN [warned EXCEPT ![h] = FALSE] ELSE warned
       ELSE /\ warned' = [warned EXCEPT ![h] = TRUE]
            /\ UNCHANGED <<pin, last>>
    /\ UNCHANGED <<dbVars, load, calls, op>>

\* co_await sleep(ms) in the loop of the handler; it returns when the timer
\* fires, or when the client has gone and then the coroutine returns at once.
Sleep(h) ==
    /\ caller[h] = "running"
    /\ Move(h, "running", "sleeping")
    /\ UNCHANGED <<serviceVars, dbVars, load, calls, op, pin, last, warned>>

Wake(h) ==
    /\ Move(h, "sleeping", "running")
    /\ UNCHANGED <<serviceVars, dbVars, load, calls, op, pin, last, warned>>

Disconnected(h) ==
    /\ load.abrupt
    /\ Move(h, "sleeping", "done")
    /\ UNCHANGED <<serviceVars, dbVars, load, calls, op, pin, last, warned>>

\* The VM stops with an error, or it is the VM of a WS or SSE handler: none of
\* these calls rollback_pendientes().
FinishWithoutRollback(h) ==
    /\ load.abrupt
    /\ Move(h, "running", "done")
    /\ UNCHANGED <<serviceVars, dbVars, load, calls, op, pin, last, warned>>

\* Bug: rollback_pendientes() is called and not awaited.
BugReturn(h) ==
    /\ Move(h, "running", "done")
    /\ IF pin[h] = None
       THEN UNCHANGED <<serviceVars, op>>
       ELSE op' = [op EXCEPT ![h] = "rollback"] /\ Await(h, pin[h])
    /\ UNCHANGED <<dbVars, load, calls, pin, last, warned>>

\* A route handler returns: rollback_pendientes() up to its co_await.
Return(h) ==
    /\ phase[h] = "running"
    /\ IF pin[h] = None
       THEN /\ Move(h, "running", "done")
            /\ UNCHANGED <<serviceVars, op>>
       ELSE /\ Move(h, "running", "rolling")
            /\ op' = [op EXCEPT ![h] = "rollback"]
            /\ Await(h, pin[h])
    /\ UNCHANGED <<dbVars, load, calls, pin, last, warned>>

\* And from there to the end.
RolledBack(h) ==
    /\ Move(h, "rolling", "done")
    /\ Resume(h)
    /\ pin' = [pin EXCEPT ![h] = None]
    /\ UNCHANGED <<dbVars, load, calls, op, last, warned>>

-----------------------------------------------------------------------------
(* The pool, with the jobs of these handlers.                              *)

RunJob(w) == Finish(w) /\ Perform(w, job[w]) /\ UNCHANGED handlerVars

\* The job threw (std::bad_alloc) before its statement, or after it.
ThrowJob(w) ==
    /\ load.abrupt
    /\ Throw(w)
    /\ Perform(w, job[w]) \/ UNCHANGED dbVars
    /\ UNCHANGED handlerVars

PoolStep ==
    /\ (\E w \in Workers : Take(w)) \/ Stop
    /\ UNCHANGED <<handlerVars, dbVars>>

HandlerStep(h) ==
    \/ Start(h) \/ (\E o \in Ops : Call(h, o)) \/ Answer(h)
    \/ Sleep(h) \/ Wake(h) \/ Disconnected(h)
    \/ FinishWithoutRollback(h) \/ Return(h) \/ RolledBack(h)

Next ==
    \/ \E h \in Callers : HandlerStep(h)
    \/ \E w \in Workers : RunJob(w) \/ ThrowJob(w) \/ Drop(w)
    \/ PoolStep

Spec == Init /\ [][Next]_vars

-----------------------------------------------------------------------------
(* Properties                                                              *)

\* A transaction stays on one connection: while h has one open, whatever it
\* asks for, and the ROLLBACK that ends it, runs on the worker that opened it.
OnOwnConnection ==
    \A w \in Workers : job[w] # None /\ pin[job[w]] # None => w = pin[job[w]]

\* A handler that has ended left no transaction open, on any connection.
ClosedAtTheEnd ==
    \A h \in Callers, w \in Workers : phase[h] = "done" => tx[w] # h

\* What a handler that returns did not close, rollback_pendientes() does,
\* whatever the other handlers, the pool and the engine do meanwhile.
NothingLeftOpen == ~load.abrupt => ClosedAtTheEnd

\* No statement runs inside the transaction of another handler.
Isolated ==
    \A w \in Workers : job[w] # None => tx[w] \in {None, job[w]}

\* So it is for requests that come one after another: none inherits the state of
\* the connections it takes.
NothingInherited == ~load.together /\ ~load.abrupt => Isolated

Asking(h, w) == job[w] = h /\ phase[h] = "db"

\* From a successful begin() until an error is reported, the connection has the
\* handler's transaction open for all that it asks: no statement of a
\* transaction is committed by itself.
InItsTransaction ==
    \A w \in Workers, h \in Callers :
        Asking(h, w) /\ pin[h] # None /\ ~warned[h] => tx[w] = h

\* So it is for one request after another on connections that stay up.
WholeTransactions ==
    ~load.together /\ ~load.abrupt /\ ~load.drops => InItsTransaction

\* Outside of a transaction last_id() never gives the identifier of another
\* request's insert, though others have used the same connections: it finds the
\* handler's own, or in mysql none, when the connection was opened again or has
\* run another statement since.
LastIdIsMine ==
    \A w \in Workers, h \in Callers :
        /\ ~load.together
        /\ Asking(h, w) /\ op[h] = "last_id" /\ pin[h] = None /\ last[h] # None
        => inserted[w] = h \/ (load.engine = "mysql" /\ inserted[w] = None)
=============================================================================
