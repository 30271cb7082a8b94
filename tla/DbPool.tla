------------------------------- MODULE DbPool -------------------------------
(***************************************************************************)
(* The pool of database threads (src/odio/db.cpp) and the bridge from the  *)
(* handlers' coroutines to it (DbAwaitable, include/odio/db.hpp).          *)
(*                                                                         *)
(* A caller is a coroutine: it awaits one job at a time, so a job is named *)
(* after its caller. A worker is a thread that owns one connection. The    *)
(* critical sections of mutex_ are one step each; what the code does       *)
(* outside of them (notify, the job itself) is a step of its own.          *)
(***************************************************************************)
EXTENDS Naturals, Sequences, FiniteSets

CONSTANTS Callers,   \* the coroutines that use the database
          Workers,   \* the threads of the pool
          None       \* no job, no worker

ASSUME PoolAssumption ==
    /\ Workers # {} /\ IsFiniteSet(Workers)
    /\ IsFiniteSet(Callers)
    /\ None \notin Workers \cup Callers

VARIABLES
    jobs,       \* jobs_
    pinned,     \* pinned_[w]
    thread,     \* where worker w is: "looking" for work with the mutex free,
                \* "asleep" in cv_.wait, "busy" with job[w], "gone" (returned)
    job,        \* the job worker w took from a queue
    stopping,   \* stopping_
    stopCall,   \* where stop() is
    caller,     \* "running"; "queued": suspended in its co_await; "lost": suspended
                \* and nobody will resume it; "posted": h.resume() is in its loop
    owed        \* the notify a caller has not made yet after its unlock

poolVars == <<jobs, pinned, thread, job, stopping, stopCall, caller, owed>>

PoolTypeOK ==
    /\ jobs \in Seq(Callers)
    /\ pinned \in [Workers -> Seq(Callers)]
    /\ thread \in [Workers -> {"looking", "asleep", "busy", "gone"}]
    /\ job \in [Workers -> Callers \cup {None}]
    /\ stopping \in BOOLEAN
    /\ stopCall \in {"no", "notify", "join", "returned"}
    /\ caller \in [Callers -> {"running", "queued", "lost", "posted"}]
    /\ owed \in [Callers -> {"nothing", "one", "all"}]

-----------------------------------------------------------------------------
PoolInit ==
    /\ jobs = <<>>
    /\ pinned = [w \in Workers |-> <<>>]
    /\ thread = [w \in Workers |-> "looking"]
    /\ job = [w \in Workers |-> None]
    /\ stopping = FALSE
    /\ stopCall = "no"
    /\ caller = [c \in Callers |-> "running"]
    /\ owed = [c \in Callers |-> "nothing"]

-----------------------------------------------------------------------------
(* co_await DbAwaitable{...}: the coroutine is suspended, then the job is  *)
(* queued and the mutex released. A pool that is stopping drops it.        *)

\* Bug: submit() notifies nobody.
BugSubmit(c) == jobs' = Append(jobs, c) /\ UNCHANGED <<pinned, owed>>

Submit(c) ==
    /\ jobs' = Append(jobs, c)
    /\ owed' = [owed EXCEPT ![c] = "one"]
    /\ UNCHANGED pinned

\* Bug: submit_to() notifies one worker, which may be another.
BugSubmitTo(w, c) ==
    /\ pinned' = [pinned EXCEPT ![w] = Append(@, c)]
    /\ owed' = [owed EXCEPT ![c] = "one"]
    /\ UNCHANGED jobs

SubmitTo(w, c) ==
    /\ pinned' = [pinned EXCEPT ![w] = Append(@, c)]
    /\ owed' = [owed EXCEPT ![c] = "all"]
    /\ UNCHANGED jobs

Await(c, pin) ==
    /\ caller[c] = "running"
    /\ IF stopping
       THEN caller' = [caller EXCEPT ![c] = "lost"] /\ UNCHANGED <<jobs, pinned, owed>>
       ELSE /\ caller' = [caller EXCEPT ![c] = "queued"]
            /\ IF pin = None THEN Submit(c) ELSE SubmitTo(pin, c)
    /\ UNCHANGED <<thread, job, stopping, stopCall>>

Asleep == {w \in Workers : thread[w] = "asleep"}

WakeOne ==
    IF Asleep = {}
    THEN UNCHANGED thread
    ELSE \E w \in Asleep : thread' = [thread EXCEPT ![w] = "looking"]

WakeAll ==
    thread' = [w \in Workers |-> IF w \in Asleep THEN "looking" ELSE thread[w]]

\* cv_.notify_one() of submit(), cv_.notify_all() of submit_to().
Notify(c) ==
    /\ \/ owed[c] = "one" /\ WakeOne
       \/ owed[c] = "all" /\ WakeAll
    /\ owed' = [owed EXCEPT ![c] = "nothing"]
    /\ UNCHANGED <<jobs, pinned, job, stopping, stopCall, caller>>

\* The loop of the caller runs the task posted to it. The caller's thread is
\* that loop's, so it is out of submit() by then.
Resume(c) ==
    /\ caller[c] = "posted"
    /\ owed[c] = "nothing"
    /\ caller' = [caller EXCEPT ![c] = "running"]
    /\ UNCHANGED <<jobs, pinned, thread, job, stopping, stopCall, owed>>

-----------------------------------------------------------------------------
(* A worker, from cv_.wait: what is pinned to it goes first.               *)

TakePinned(w) ==
    /\ thread[w] = "looking"
    /\ pinned[w] # <<>>
    /\ job' = [job EXCEPT ![w] = Head(pinned[w])]
    /\ pinned' = [pinned EXCEPT ![w] = Tail(@)]
    /\ thread' = [thread EXCEPT ![w] = "busy"]
    /\ UNCHANGED <<jobs, stopping, stopCall, caller, owed>>

\* Bug: the job is copied out of the queue and stays in it.
BugTakeFree(w) ==
    /\ thread[w] = "looking" /\ pinned[w] = <<>> /\ jobs # <<>>
    /\ job' = [job EXCEPT ![w] = Head(jobs)]
    /\ thread' = [thread EXCEPT ![w] = "busy"]
    /\ UNCHANGED <<jobs, pinned, stopping, stopCall, caller, owed>>

\* Bug: free jobs go before the pinned ones.
BugFreeFirst(w) ==
    /\ thread[w] = "looking" /\ jobs # <<>>
    /\ job' = [job EXCEPT ![w] = Head(jobs)]
    /\ jobs' = Tail(jobs)
    /\ thread' = [thread EXCEPT ![w] = "busy"]
    /\ UNCHANGED <<pinned, stopping, stopCall, caller, owed>>

TakeFree(w) ==
    /\ thread[w] = "looking"
    /\ pinned[w] = <<>>
    /\ jobs # <<>>
    /\ job' = [job EXCEPT ![w] = Head(jobs)]
    /\ jobs' = Tail(jobs)
    /\ thread' = [thread EXCEPT ![w] = "busy"]
    /\ UNCHANGED <<pinned, stopping, stopCall, caller, owed>>

\* Bug: the predicate of cv_.wait forgets pinned_[i].
BugIdle(w) == jobs = <<>>

Idle(w) == jobs = <<>> /\ pinned[w] = <<>>

FallAsleep(w) ==
    /\ thread[w] = "looking"
    /\ Idle(w) /\ ~stopping
    /\ thread' = [thread EXCEPT ![w] = "asleep"]
    /\ UNCHANGED <<jobs, pinned, job, stopping, stopCall, caller, owed>>

\* Bug: a worker returns as soon as it sees stopping_.
BugExit(w) ==
    /\ thread[w] = "looking" /\ stopping
    /\ thread' = [thread EXCEPT ![w] = "gone"]
    /\ UNCHANGED <<jobs, pinned, job, stopping, stopCall, caller, owed>>

Exit(w) ==
    /\ thread[w] = "looking"
    /\ stopping /\ Idle(w)
    /\ thread' = [thread EXCEPT ![w] = "gone"]
    /\ UNCHANGED <<jobs, pinned, job, stopping, stopCall, caller, owed>>

\* cv_.wait may return by itself; its predicate is evaluated again.
SpuriousWakeup(w) ==
    /\ thread[w] = "asleep"
    /\ thread' = [thread EXCEPT ![w] = "looking"]
    /\ UNCHANGED <<jobs, pinned, job, stopping, stopCall, caller, owed>>

\* The job ends and its last act is l->post(): the caller will be resumed on
\* its own loop.
Finish(w) ==
    /\ thread[w] = "busy"
    /\ caller' = [caller EXCEPT ![job[w]] = "posted"]
    /\ job' = [job EXCEPT ![w] = None]
    /\ thread' = [thread EXCEPT ![w] = "looking"]
    /\ UNCHANGED <<jobs, pinned, stopping, stopCall, owed>>

\* Bug: no try around the job; the exception ends the thread.
BugThrow(w) ==
    /\ thread[w] = "busy"
    /\ thread' = [thread EXCEPT ![w] = "terminated"]
    /\ UNCHANGED <<jobs, pinned, job, stopping, stopCall, caller, owed>>

\* The job throws before its post(); the worker survives, its caller waits on.
Throw(w) ==
    /\ thread[w] = "busy"
    /\ caller' = [caller EXCEPT ![job[w]] = "lost"]
    /\ job' = [job EXCEPT ![w] = None]
    /\ thread' = [thread EXCEPT ![w] = "looking"]
    /\ UNCHANGED <<jobs, pinned, stopping, stopCall, owed>>

-----------------------------------------------------------------------------
(* stop(): the flag, the notification, the join of every thread.           *)

Stop ==
    /\ stopCall = "no"
    /\ stopping' = TRUE
    /\ stopCall' = "notify"
    /\ UNCHANGED <<jobs, pinned, thread, job, caller, owed>>

\* Bug: stop() wakes one worker only.
BugStopNotify ==
    /\ stopCall = "notify" /\ WakeOne
    /\ stopCall' = "join"
    /\ UNCHANGED <<jobs, pinned, job, stopping, caller, owed>>

StopNotify ==
    /\ stopCall = "notify"
    /\ WakeAll
    /\ stopCall' = "join"
    /\ UNCHANGED <<jobs, pinned, job, stopping, caller, owed>>

StopJoin ==
    /\ stopCall = "join"
    /\ \A w \in Workers : thread[w] = "gone"
    /\ stopCall' = "returned"
    /\ UNCHANGED <<jobs, pinned, thread, job, stopping, caller, owed>>

-----------------------------------------------------------------------------
\* What a worker does without being asked: everything but the job itself.
Work(w) == TakePinned(w) \/ TakeFree(w) \/ FallAsleep(w) \/ Exit(w) \/ SpuriousWakeup(w)

StopStep == Stop \/ StopNotify \/ StopJoin

PoolNext ==
    \/ \E c \in Callers : (\E pin \in Workers \cup {None} : Await(c, pin)) \/ Notify(c) \/ Resume(c)
    \/ \E w \in Workers : Work(w) \/ Finish(w) \/ Throw(w)
    \/ StopStep

PoolSpec == PoolInit /\ [][PoolNext]_poolVars

\* Threads that can run do run, and jobs end. Nobody has to call stop().
PoolFairness ==
    /\ \A w \in Workers : /\ WF_poolVars(TakePinned(w) \/ TakeFree(w) \/ FallAsleep(w) \/ Exit(w))
                          /\ WF_poolVars(Finish(w) \/ Throw(w))
    /\ \A c \in Callers : WF_poolVars(Notify(c)) /\ WF_poolVars(Resume(c))
    /\ WF_poolVars(StopNotify) /\ WF_poolVars(StopJoin)

PoolFairSpec == PoolSpec /\ PoolFairness

-----------------------------------------------------------------------------
(* Properties                                                              *)

\* Positions of c's job in the pool.
InJobs(c)   == {i \in DOMAIN jobs : jobs[i] = c}
InPinned(c) == {p \in Workers \X (1..Cardinality(Callers)) :
                    p[2] \in DOMAIN pinned[p[1]] /\ pinned[p[1]][p[2]] = c}
Running(c)  == {w \in Workers : job[w] = c}

\* A suspended caller has exactly one job in the pool, and nobody else has any:
\* no job is run twice, and no coroutine is resumed twice or while it runs.
OneJobPerCaller ==
    \A c \in Callers :
        Cardinality(InJobs(c)) + Cardinality(InPinned(c)) + Cardinality(Running(c))
            = IF caller[c] = "queued" THEN 1 ELSE 0

Owing(kind) == {c \in Callers : owed[c] = kind}

\* A worker that will look for free work next and has no other.
Helpers == {w \in Workers : thread[w] = "looking" /\ pinned[w] = <<>>}

\* No wakeup is lost, whatever comes between an unlock and its notify: a worker
\* sleeps on a job pinned to it only while the notify_all of some submit_to() or
\* of stop() is still to come, and as long as a worker sleeps there is, for
\* each free job, a notify to come or a worker about to look.
NoJobWaitsForASleeper ==
    Owing("all") = {} /\ stopCall # "notify" =>
        /\ \A w \in Asleep : pinned[w] = <<>>
        /\ Asleep # {} => Len(jobs) <= Cardinality(Owing("one")) + Cardinality(Helpers)

\* The part of it that matters to a client of the pool, without counting: with
\* work queued somebody who may do it is awake, or is about to be woken.
SomeoneIsComing ==
    /\ \A w \in Asleep :
           pinned[w] # <<>> => Owing("all") # {} \/ stopCall = "notify"
    /\ jobs # <<>> /\ Asleep = Workers =>
           Owing("one") \cup Owing("all") # {} \/ stopCall = "notify"

\* stop() leaves nothing behind: when it has joined the threads, every job
\* accepted before it has been run, those pinned to a worker included.
NothingLeftBehind ==
    stopCall = "returned" =>
        /\ jobs = <<>>
        /\ \A w \in Workers : pinned[w] = <<>>
        /\ \A c \in Callers : caller[c] # "queued"

\* stop() returns: no worker stays asleep in cv_.wait while it is joined.
StopReturns == stopCall = "notify" ~> stopCall = "returned"

\* A job pinned to a worker is always run by it in the end, and a free one is
\* unless transactions keep every worker busy for ever.
TransactionsPause == \A w \in Workers : <>[](pinned[w] = <<>>)
EveryJobRuns ==
    /\ \A c \in Callers : (InPinned(c) # {}) ~> (InPinned(c) = {})
    /\ TransactionsPause => \A c \in Callers : (caller[c] = "queued") ~> (caller[c] # "queued")

Queued(s, c) == \E i \in DOMAIN s : s[i] = c

\* The pool implements JobService: a job asks for a worker while it is in that
\* worker's queue.
Want == [c \in Callers |->
    IF \E w \in Workers : Queued(pinned[w], c)
    THEN CHOOSE w \in Workers : Queued(pinned[w], c)
    ELSE None]

Service == INSTANCE JobService WITH want <- Want

Serves == Service!ServiceSpec
=============================================================================
