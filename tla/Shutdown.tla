----------------------------- MODULE Shutdown -----------------------------
(***************************************************************************)
(* App::run(): a loop and a server per thread, the drain that a signal     *)
(* begins, the pool of the database that it stops on its way, and the      *)
(* return of run() once every thread has ended.  A second signal leaves    *)
(* the process at once, which is not an action of it.                      *)
(***************************************************************************)
EXTENDS TcpServer

CONSTANTS Grace,        \* polls of 100 ms until the deadline
          Callers       \* the clients whose handlers use the database

ASSUME GraceAssumption == Grace \in Nat \ {0}

VARIABLES loops, servers,   \* all_loops, all_servers
          signal,           \* "none", "sent" (a byte in the pipe) or "seen"
          stage,            \* of the drain; see Stages
          timer,            \* its timer is armed
          polls,            \* how often it was
          job               \* client |-> what its handler asked the pool for

drainVars == <<loops, servers, signal, stage, timer, polls>>
vars == <<loopVars, tcpVars, drainVars, job>>

\* "closing": before_stop_() runs, the pool accepts nothing more; "closed":
\* it has returned.
Stages == {"serving", "draining", "closing", "closed", "stopped"}
\* "lost": dropped by submit(); "thrown": it ended in an exception. Neither
\* handler is resumed.
Jobs   == {"none", "asked", "posted", "answered", "lost", "thrown"}

Init ==
  /\ LoopInit /\ TcpInit
  /\ loops = {Main} /\ servers = {}
  /\ signal = "none" /\ stage = "serving"
  /\ timer = FALSE /\ polls = 0
  /\ job = [c \in Clients |-> "none"]

\* While the thread of the main loop is in before_stop_() it does nothing else.
Free(l) == l # Main \/ stage \notin {"closing", "closed"}

-----------------------------------------------------------------------------
(***************************************************************************)
(* Threads.                                                                *)
(***************************************************************************)
\* A thread puts its loop and its server on the lists; the main loop has
\* been on its own from the beginning.
Register(l) ==
  /\ phase[l] = "built"
  /\ At(l, "listed")
  /\ loops' = loops \cup {l}
  /\ servers' = servers \cup {l}
  /\ UNCHANGED <<running, queue, current, woken, tcpVars, signal, stage, timer, polls, job>>

\* After run() a worker takes itself off the lists; the main thread joins
\* all the others first, and keeps the lists.
Leave(l) ==
  /\ phase[l] = "ended"
  /\ At(l, "left")
  /\ IF l = Main THEN (\A w \in Loops \ {Main} : phase[w] = "gone") /\ UNCHANGED <<loops, servers>>
     ELSE loops' = loops \ {l} /\ servers' = servers \ {l}
  /\ UNCHANGED <<running, queue, current, woken, tcpVars, signal, stage, timer, polls, job>>

-----------------------------------------------------------------------------
(***************************************************************************)
(* The drain.                                                              *)
(***************************************************************************)
Signal ==
  /\ signal = "none"
  /\ signal' = "sent"
  /\ UNCHANGED <<loopVars, tcpVars, loops, servers, stage, timer, polls, job>>

\* g_initiate_drain(): each server is asked, in its own loop, to stop; the
\* main loop to begin to poll.
InitiateDrain ==
  /\ InBatch(Main) /\ signal = "sent"
  /\ signal' = "seen"
  /\ stage' = "draining"
  /\ LET told(l) == IF l \in servers THEN Append(queue[l], StopTask) ELSE queue[l]
     IN queue' = [l \in Loops |-> IF l = Main THEN Append(told(l), DrainTask) ELSE told(l)]
  /\ woken' = [l \in Loops |-> woken[l] \/ l \in servers \cup {Main}]
  /\ At(Main, "batch")
  /\ UNCHANGED <<running, current, tcpVars, loops, servers, timer, polls, job>>

\* Mutant: a drain without a deadline.
BugPoll ==
  /\ IF count = 0
     THEN stage' = "closing" /\ timer' = FALSE /\ UNCHANGED polls
     ELSE timer' = TRUE /\ polls' = polls + 1 /\ UNCHANGED stage
  /\ UNCHANGED <<loops, servers, signal>>

\* The body of the poll: nobody left, or the deadline, or 100 ms more.
Poll ==
  /\ IF count = 0 \/ polls = Grace
     THEN stage' = "closing" /\ timer' = FALSE /\ UNCHANGED polls
     ELSE timer' = TRUE /\ polls' = polls + 1 /\ UNCHANGED stage
  /\ UNCHANGED <<loops, servers, signal>>

DrainTimer ==
  /\ InBatch(Main) /\ timer /\ Free(Main)
  /\ At(Main, "batch")
  /\ Poll
  /\ UNCHANGED <<running, queue, current, woken, tcpVars, job>>

\* Mutant: before_stop_() does not wait for the pool.
BugPoolsJoined ==
  /\ stage = "closing"
  /\ stage' = "closed"
  /\ UNCHANGED <<loopVars, tcpVars, loops, servers, signal, timer, polls, job>>

\* before_stop_() returns: the threads of the pool have run what they had
\* accepted, and are joined.
PoolsJoined ==
  /\ stage = "closing"
  /\ \A c \in Clients : job[c] # "asked"
  /\ stage' = "closed"
  /\ UNCHANGED <<loopVars, tcpVars, loops, servers, signal, timer, polls, job>>

StopLoops ==
  /\ stage = "closed"
  /\ stage' = "stopped"
  /\ StopAll(loops)
  /\ UNCHANGED <<phase, queue, current, tcpVars, loops, servers, signal, timer, polls, job>>

-----------------------------------------------------------------------------
(***************************************************************************)
(* Handlers that await the database.                                       *)
(***************************************************************************)
\* submit(): a pool that is stopping drops it.
Ask(l, c) ==
  /\ InBatch(l) /\ at[c] = l /\ c \in Open /\ c \in Callers /\ job[c] = "none"
  /\ At(l, "batch")
  /\ job' = [job EXCEPT ![c] = IF stage \in {"serving", "draining"} THEN "asked" ELSE "lost"]
  /\ UNCHANGED <<running, queue, current, woken, tcpVars, drainVars>>

\* A thread of the pool runs a job and posts the handler to its loop.
RunJob(c) ==
  /\ job[c] = "asked"
  /\ job' = [job EXCEPT ![c] = "posted"]
  /\ Post({at[c]}, ResumeTask(c))
  /\ UNCHANGED <<phase, running, current, tcpVars, drainVars>>

\* Or the job throws before it posts: the thread goes on to the next one.
ThrowJob(c) ==
  /\ job[c] = "asked"
  /\ job' = [job EXCEPT ![c] = "thrown"]
  /\ UNCHANGED <<loopVars, tcpVars, drainVars>>

\* The handler goes on; it may end its connection at once.
Resume(c) ==
  /\ job' = [job EXCEPT ![c] = "answered"]
  /\ \/ UNCHANGED <<conn, count>>
     \/ c \in Open /\ Becomes(c, "closed") /\ count' = count - 1
  /\ UNCHANGED <<listening, at, drainVars>>

TakeTask(l, task) ==
  /\ phase[l] = "tasks" /\ current[l] # <<>> /\ Head(current[l]) = task /\ Free(l)
  /\ current' = [current EXCEPT ![l] = Tail(@)]
  /\ UNCHANGED <<phase, running, queue, woken>>

Task(l) ==
  \/ TakeTask(l, StopTask) /\ StopAccepting(l) /\ UNCHANGED <<drainVars, job>>
  \/ TakeTask(l, DrainTask) /\ Poll /\ UNCHANGED <<tcpVars, job>>
  \/ \E c \in Clients : TakeTask(l, ResumeTask(c)) /\ Resume(c)

-----------------------------------------------------------------------------
LoopStep(l) ==
  \/ RunLoop(l) /\ UNCHANGED <<tcpVars, drainVars, job>>
  \/ Turn(l) /\ UNCHANGED <<tcpVars, drainVars, job>>
  \/ EpollWait(l) /\ Free(l) /\ UNCHANGED <<tcpVars, drainVars, job>>
  \/ Wakeup(l) /\ Free(l) /\ UNCHANGED <<tcpVars, drainVars, job>>
  \/ EndBatch(l) /\ Free(l) /\ UNCHANGED <<tcpVars, drainVars, job>>
  \/ AcceptDone(l) /\ UNCHANGED <<drainVars, job>>
  \/ Listen(l) /\ UNCHANGED <<drainVars, job>>
  \/ Destroy(l) /\ UNCHANGED <<drainVars, job>>
  \/ Register(l)
  \/ Leave(l)
  \/ Task(l)

ServerStep(l, c) ==
  \/ Accept(l, c) /\ Free(l) /\ UNCHANGED <<drainVars, job>>
  \/ Count(l, c, IF stage = "serving" THEN "open" ELSE "late") /\ UNCHANGED <<drainVars, job>>
  \/ Refuse(l, c) /\ UNCHANGED <<drainVars, job>>

ClientStep(l, c) ==
  \/ Connect(c, l) /\ UNCHANGED <<drainVars, job>>
  \/ Close(l, c) /\ Free(l) /\ UNCHANGED <<drainVars, job>>
  \/ Ask(l, c) /\ Free(l)

DrainStep == InitiateDrain \/ DrainTimer \/ PoolsJoined \/ StopLoops

ThreadStep == \/ \E l \in Loops : LoopStep(l) \/ \E c \in Clients : ServerStep(l, c)
              \/ DrainStep
              \/ \E c \in Clients : RunJob(c) \/ ThrowJob(c)

Next == ThreadStep \/ Signal \/ \E l \in Loops, c \in Clients : ClientStep(l, c)

Spec == Init /\ [][Next]_vars

\* Every thread runs, jobs end and the timer of the drain fires; clients do
\* as they please.
FairSpec == Spec /\ WF_vars(ThreadStep)
-----------------------------------------------------------------------------
(***************************************************************************)
(* Properties.                                                             *)
(***************************************************************************)
\* Every variable keeps its range; the polls of the drain end at the deadline.
ServerTypeOK ==
  /\ phase \in [Loops -> Phases]
  /\ running \in [Loops -> BOOLEAN] /\ woken \in [Loops -> BOOLEAN] /\ listening \in [Loops -> BOOLEAN]
  /\ queue \in [Loops -> Seq(Tasks)] /\ current \in [Loops -> Seq(Tasks)]
  /\ conn \in [Clients -> Conns] /\ at \in [Clients -> Loops] /\ count \in Nat
  /\ loops \subseteq Loops /\ servers \subseteq Loops
  /\ signal \in {"none", "sent", "seen"} /\ stage \in Stages
  /\ timer \in BOOLEAN /\ polls \in 0..Grace
  /\ job \in [Clients -> Jobs]

\* Nobody posts to a loop that is destroyed: neither the pool, which
\* before_stop_() has waited for, nor whoever walks the lists.
NoPostToTheDead ==
  /\ \A c \in Clients : job[c] = "asked" => phase[at[c]] # "gone"
  /\ \A l \in (loops \cup servers) \ {Main} : phase[l] # "gone"

\* The limit holds whatever loops accept at once, and a connection that was
\* there before the signal has all of the grace period.
Promise == INSTANCE Service WITH
  Limit <- MaxConnections,
  life  <- IF stage = "serving" THEN "up" ELSE IF polls = Grace THEN "expired" ELSE "draining",
  early <- {c \in Clients : conn[c] = "open"},
  late  <- {c \in Clients : conn[c] = "late"}
KeepsItsPromise == Promise!ServiceSpec

\* Workers that stop() did not reach: their run() had not begun.
Missed == {l \in Loops : stage = "stopped" /\ (phase[l] \in {"unborn", "built", "listed"} \/ running[l])}

\* After the signal run() returns, whoever stays connected and whatever the
\* pool still has to do, unless a worker began after the loops were stopped.
RunReturns == signal = "sent" ~> phase[Main] = "gone" \/ Missed # {}

\* Once the pool has accepted a job it runs it, during the drain too, and the
\* job resumes its handler: unless it threw, when nothing posts (DbAwaitable),
\* or the loop of the handler was stopped.
AnswersArrive ==
  \A c \in Clients : job[c] = "asked" ~> job[c] \in {"answered", "thrown"} \/ ~running[at[c]]
=============================================================================
