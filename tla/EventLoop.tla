----------------------------- MODULE EventLoop -----------------------------
(***************************************************************************)
(* The loops of the server, one thread each, as EpollLoop has them: a      *)
(* queue of tasks that any thread may post, and the events of epoll, which *)
(* only the thread of the loop takes.  The callbacks are in the modules    *)
(* that extend this one; here is when they may run.                        *)
(***************************************************************************)
EXTENDS Integers, Sequences, FiniteSets

CONSTANTS Loops,        \* the loops, one of which is Main
          Main,
          Clients       \* the connections that may ever be tried

ASSUME LoopAssumption == IsFiniteSet(Clients) /\ Main \in Loops

VARIABLES phase,        \* where the thread of a loop is; see Phases
          running,      \* running_
          queue,        \* task_queue_
          current,      \* current_tasks of process_tasks()
          woken         \* the eventfd is readable

loopVars == <<phase, running, queue, current, woken>>

\* "unborn": the thread has not built its server; "built": it has, and then
\* "listed"; "head": at while (running_); "tasks": in process_tasks();
\* "poll": in epoll_wait(); "batch": between two events of a batch;
\* "accepting", "counting", "refusing": in on_accept(); "ended": run() has
\* returned; "left": out of the lists; "gone": destroyed.
Phases == {"unborn", "built", "listed", "head", "tasks", "poll", "batch",
           "accepting", "counting", "refusing", "ended", "left", "gone"}

StopTask  == <<"stop_accepting">>
DrainTask == <<"drain">>
ResumeTask(c) == <<"resume", c>>
Tasks == {StopTask, DrainTask} \cup {ResumeTask(c) : c \in Clients}

LoopInit ==
  /\ phase = [l \in Loops |-> "unborn"]
  /\ running = [l \in Loops |-> FALSE]
  /\ queue = [l \in Loops |-> <<>>]
  /\ current = [l \in Loops |-> <<>>]
  /\ woken = [l \in Loops |-> FALSE]

At(l, p) == phase' = [phase EXCEPT ![l] = p]

\* Mutant: the task without the eventfd.
BugPost(ls, task) ==
  /\ queue' = [l \in Loops |-> IF l \in ls THEN Append(queue[l], task) ELSE queue[l]]
  /\ UNCHANGED woken

\* post() to every loop of a set: the task, then the eventfd.
Post(ls, task) ==
  /\ queue' = [l \in Loops |-> IF l \in ls THEN Append(queue[l], task) ELSE queue[l]]
  /\ woken' = [l \in Loops |-> woken[l] \/ l \in ls]

\* Mutant: stop() without the eventfd.
BugStopAll(ls) ==
  /\ running' = [l \in Loops |-> running[l] /\ l \notin ls]
  /\ UNCHANGED woken

\* stop() of every loop of a set.
StopAll(ls) ==
  /\ running' = [l \in Loops |-> running[l] /\ l \notin ls]
  /\ woken' = [l \in Loops |-> woken[l] \/ l \in ls]

\* run() begins, whatever stop() may have said before.
RunLoop(l) ==
  /\ phase[l] = "listed"
  /\ At(l, "head")
  /\ running' = [running EXCEPT ![l] = TRUE]
  /\ UNCHANGED <<queue, current, woken>>

\* One more turn, which begins with the tasks posted so far.
Turn(l) ==
  /\ phase[l] = "head"
  /\ IF running[l]
     THEN /\ At(l, "tasks")
          /\ current' = [current EXCEPT ![l] = queue[l]]
          /\ queue' = [queue EXCEPT ![l] = <<>>]
     ELSE At(l, "ended") /\ UNCHANGED <<queue, current>>
  /\ UNCHANGED <<running, woken>>

EpollWait(l) ==
  /\ phase[l] = "tasks" /\ current[l] = <<>>
  /\ At(l, "poll")
  /\ UNCHANGED <<running, queue, current, woken>>

\* epoll_wait() gives at least one event; what a batch holds is left open,
\* so that any other event may follow.
InBatch(l) == phase[l] \in {"poll", "batch"}

Wakeup(l) ==
  /\ InBatch(l) /\ woken[l]
  /\ At(l, "batch")
  /\ woken' = [woken EXCEPT ![l] = FALSE]
  /\ UNCHANGED <<running, queue, current>>

EndBatch(l) ==
  /\ phase[l] = "batch"
  /\ At(l, "head")
  /\ UNCHANGED <<running, queue, current, woken>>
=============================================================================
