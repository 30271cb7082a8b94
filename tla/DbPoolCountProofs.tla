------------------------- MODULE DbPoolCountProofs --------------------------
(***************************************************************************)
(* Proofs about what can be counted in DbPool, for any number of           *)
(* coroutines and of workers: how many jobs a caller has in the pool, and  *)
(* how many notifications and workers there are for the free jobs.         *)
(***************************************************************************)
EXTENDS DbPoolProofs, FiniteSetTheorems

\* A queue that repeats nobody is not longer than there are callers.
LEMMA QueueFits ==
    ASSUME NEW s \in Seq(Callers), Distinct(s)
    PROVE  DOMAIN s \subseteq 1..Cardinality(Callers)
<1>1. DOMAIN s = 1..Len(s) /\ Len(s) \in Nat /\ s \in [1..Len(s) -> Callers]
    BY LenProperties
<1>2. Cardinality(Callers) \in Nat
    BY PoolAssumption, FS_CardinalityType
<1>3. IsFiniteSet(1..Len(s)) /\ Cardinality(1..Len(s)) = Len(s)
    BY <1>1, FS_Interval
<1>4. ~(Cardinality(Callers) < Len(s))
    <2> SUFFICES ASSUME Cardinality(Callers) < Len(s) PROVE FALSE
        OBVIOUS
    <2>1. \E x, y \in 1..Len(s) : x # y /\ s[x] = s[y]
        BY <1>1, <1>3, PoolAssumption, FS_PigeonHole
    <2> QED BY <1>1, <2>1 DEF Distinct
<1> QED BY <1>1, <1>2, <1>4

\* Each of the three places holds a caller's job once or not at all.
LEMMA CountJobs ==
    ASSUME Ranges, Places, NEW c \in Callers
    PROVE  Cardinality(InJobs(c)) = IF Queued(jobs, c) THEN 1 ELSE 0
<1>1. CASE Queued(jobs, c)
    <2>1. PICK i \in DOMAIN jobs : jobs[i] = c
        BY <1>1 DEF Queued
    <2>2. InJobs(c) = {i}
        BY <2>1 DEF InJobs, Places, Distinct
    <2> QED BY <1>1, <2>2, FS_Singleton
<1>2. CASE ~Queued(jobs, c)
    <2>1. InJobs(c) = {}
        BY <1>2 DEF InJobs, Queued
    <2> QED BY <1>2, <2>1, FS_EmptySet
<1> QED BY <1>1, <1>2

LEMMA CountPinned ==
    ASSUME Ranges, Places, NEW c \in Callers
    PROVE  Cardinality(InPinned(c)) = IF \E w \in Workers : Queued(pinned[w], c) THEN 1 ELSE 0
<1>1. ASSUME NEW w \in Workers, Queued(pinned[w], c)
      PROVE  Cardinality(InPinned(c)) = 1
    <2>1. PICK i \in DOMAIN pinned[w] : pinned[w][i] = c
        BY <1>1 DEF Queued
    <2>2. i \in 1..Cardinality(Callers)
        BY <2>1, QueueFits DEF Ranges, Places
    <2>3. <<w, i>> \in InPinned(c)
        BY <2>1, <2>2 DEF InPinned
    <2>4. ASSUME NEW p \in InPinned(c)
          PROVE  p = <<w, i>>
        <3>1. /\ p \in Workers \X (1..Cardinality(Callers)) /\ p[1] \in Workers
              /\ p[2] \in DOMAIN pinned[p[1]] /\ pinned[p[1]][p[2]] = c
            BY DEF InPinned
        <3>2. InWorker(p[1], c) /\ InWorker(w, c)
            BY <1>1, <3>1 DEF InWorker, Queued
        <3>3. p[1] = w
            BY <3>1, <3>2 DEF Places
        <3>4. p[2] = i
            BY <2>1, <3>1, <3>3 DEF Places, Distinct
        <3> QED BY <3>1, <3>3, <3>4
    <2>5. InPinned(c) = {<<w, i>>}
        BY <2>3, <2>4
    <2> QED BY <2>5, FS_Singleton
<1>2. ASSUME ~\E w \in Workers : Queued(pinned[w], c)
      PROVE  Cardinality(InPinned(c)) = 0
    <2>1. InPinned(c) = {}
        BY <1>2 DEF InPinned, Queued
    <2> QED BY <2>1, FS_EmptySet
<1> QED BY <1>1, <1>2

LEMMA CountRunning ==
    ASSUME Ranges, Places, NEW c \in Callers
    PROVE  Cardinality(Running(c)) = IF \E w \in Workers : job[w] = c THEN 1 ELSE 0
<1>1. ASSUME NEW w \in Workers, job[w] = c
      PROVE  Cardinality(Running(c)) = 1
    <2>1. Running(c) = {w}
        BY <1>1 DEF Running, Places, InWorker
    <2> QED BY <2>1, FS_Singleton
<1>2. ASSUME ~\E w \in Workers : job[w] = c
      PROVE  Cardinality(Running(c)) = 0
    <2>1. Running(c) = {}
        BY <1>2 DEF Running
    <2> QED BY <2>1, FS_EmptySet
<1> QED BY <1>1, <1>2

\* A suspended caller has one job in the pool, wherever it is, and a caller that
\* runs has none: submit(), submit_to() and the worker's loop (db.cpp:16-63) lose no
\* job and run none twice.
THEOREM OneJobEach == PoolSpec => []OneJobPerCaller
<1>1. Ranges /\ Places => OneJobPerCaller
    <2> SUFFICES ASSUME Ranges, Places, NEW c \in Callers
                 PROVE  Cardinality(InJobs(c)) + Cardinality(InPinned(c)) + Cardinality(Running(c))
                            = IF caller[c] = "queued" THEN 1 ELSE 0
        BY DEF OneJobPerCaller
    <2> DEFINE inJobs == Queued(jobs, c)
               inPinned == \E w \in Workers : Queued(pinned[w], c)
               inJob == \E w \in Workers : job[w] = c
    <2>1. /\ inJobs => ~inPinned /\ ~inJob
          /\ inPinned => ~inJob
          /\ caller[c] = "queued" <=> inJobs \/ inPinned \/ inJob
        BY DEF Places, InWorker
    <2>2. /\ Cardinality(InJobs(c)) = IF inJobs THEN 1 ELSE 0
          /\ Cardinality(InPinned(c)) = IF inPinned THEN 1 ELSE 0
          /\ Cardinality(Running(c)) = IF inJob THEN 1 ELSE 0
        BY CountJobs, CountPinned, CountRunning
    <2> HIDE DEF inJobs, inPinned, inJob
    <2> QED BY <2>1, <2>2
<1>2. Inv => Ranges /\ Places
    BY DEF Inv
<1> QED BY <1>1, <1>2, Invariant, PTL

(***************************************************************************)
(* NoJobWaitsForASleeper is inductive, given Inv: a step that adds a free  *)
(* job adds a notification, one that takes a helper takes a job, and a     *)
(* notification that is spent makes a helper of the worker it wakes.       *)
(***************************************************************************)
LEMMA Finitely ==
    /\ IsFiniteSet(Helpers) /\ Cardinality(Helpers) \in Nat
    /\ IsFiniteSet(Helpers') /\ Cardinality(Helpers') \in Nat
    /\ IsFiniteSet(Owing("one")) /\ Cardinality(Owing("one")) \in Nat
    /\ Ranges => Len(jobs) \in Nat
<1>1. Helpers \in SUBSET Workers /\ Helpers' \in SUBSET Workers /\ Owing("one") \in SUBSET Callers
    BY DEF Helpers, Owing
<1>2. IsFiniteSet(Helpers) /\ IsFiniteSet(Helpers') /\ IsFiniteSet(Owing("one"))
    BY <1>1, PoolAssumption, FS_Subset
<1> QED BY <1>2, FS_CardinalityType, LenProperties DEF Ranges

\* Free jobs and notifications stay as they are, and nobody new sleeps.
LEMMA NoNewSleeper ==
    ASSUME Ranges, NoJobWaitsForASleeper, jobs' = jobs, owed' = owed,
           stopCall' = stopCall,
           Asleep' \subseteq Asleep, \A w \in Asleep' : pinned'[w] = pinned[w],
           Helpers \subseteq Helpers'
    PROVE  NoJobWaitsForASleeper'
<1>1. Owing("one")' = Owing("one") /\ Owing("all")' = Owing("all")
    BY DEF Owing
<1>2. Cardinality(Helpers) <= Cardinality(Helpers')
    BY Finitely, FS_Subset
<1> QED BY <1>1, <1>2, Finitely DEF NoJobWaitsForASleeper

\* There is no free job, and those that are pinned are not a sleeper's.
LEMMA NothingFree ==
    ASSUME jobs' = <<>>, \A w \in Asleep' : pinned'[w] = <<>>
    PROVE  NoJobWaitsForASleeper'
<1>1. Len(jobs') = 0 /\ Cardinality(Owing("one")') \in Nat
    <2>1. Owing("one")' \in SUBSET Callers
        BY DEF Owing
    <2> QED BY <2>1, PoolAssumption, FS_Subset, FS_CardinalityType
<1> QED BY <1>1, Finitely DEF NoJobWaitsForASleeper

LEMMA AwaitCounts ==
    ASSUME Inv, NoJobWaitsForASleeper, NEW c \in Callers, NEW pin \in Workers \cup {None},
           Await(c, pin)
    PROVE  NoJobWaitsForASleeper'
<1>1. /\ UNCHANGED <<thread, job, stopping, stopCall>> /\ Asleep' = Asleep
      /\ Ranges /\ owed[c] = "nothing"
    BY DEF Await, Asleep, Inv, Paid
<1>2. CASE stopping
    BY <1>1, <1>2, NoNewSleeper DEF Await, Helpers
<1>3. CASE ~stopping /\ pin = None
    <2>1. jobs' = Append(jobs, c) /\ owed' = [owed EXCEPT ![c] = "one"] /\ pinned' = pinned
        BY <1>3 DEF Await, Submit
    <2>2. /\ Owing("one")' = Owing("one") \cup {c} /\ c \notin Owing("one")
          /\ Owing("all")' = Owing("all")
        BY <1>1, <2>1 DEF Owing, Ranges
    <2>3. Helpers' = Helpers
        BY <1>1, <2>1 DEF Helpers
    <2>4. Len(jobs') = Len(jobs) + 1
        BY <1>1, <2>1, AppendProperties DEF Ranges
    <2>5. Cardinality(Owing("one")') = Cardinality(Owing("one")) + 1
        BY <2>2, Finitely, FS_AddElement
    <2> QED BY <1>1, <2>1, <2>2, <2>3, <2>4, <2>5, Finitely DEF NoJobWaitsForASleeper
<1>4. CASE ~stopping /\ pin # None
    <2>1. owed' = [owed EXCEPT ![c] = "all"]
        BY <1>4 DEF Await, SubmitTo
    <2>2. c \in Owing("all")'
        BY <1>1, <2>1 DEF Owing, Ranges
    <2> QED BY <2>2 DEF NoJobWaitsForASleeper
<1> QED BY <1>2, <1>3, <1>4

LEMMA NotifyCounts ==
    ASSUME Inv, NoJobWaitsForASleeper, NEW c \in Callers, Notify(c)
    PROVE  NoJobWaitsForASleeper'
<1>1. /\ UNCHANGED <<jobs, pinned, job, stopping, stopCall, caller>> /\ Ranges
      /\ owed' = [owed EXCEPT ![c] = "nothing"]
    BY DEF Notify, Inv
<1>2. CASE owed[c] = "one" /\ Asleep # {}
    <2>1. PICK w \in Asleep : thread' = [thread EXCEPT ![w] = "looking"]
        BY <1>2 DEF Notify, WakeOne
    <2>2. w \in Workers /\ thread[w] = "asleep" /\ Asleep' = Asleep \ {w}
        BY <1>1, <2>1 DEF Asleep, Ranges
    <2>3. /\ Owing("one")' = Owing("one") \ {c} /\ c \in Owing("one")
          /\ Owing("all")' = Owing("all")
        BY <1>1, <1>2 DEF Owing, Ranges
    <2>4. pinned[w] = <<>> => Helpers' = Helpers \cup {w} /\ w \notin Helpers
        BY <1>1, <2>1, <2>2 DEF Helpers, Ranges
    <2>5. Cardinality(Owing("one")') = Cardinality(Owing("one")) - 1
        BY <2>3, Finitely, FS_RemoveElement
    <2>6. pinned[w] = <<>> => Cardinality(Helpers') = Cardinality(Helpers) + 1
        BY <2>4, Finitely, FS_AddElement
    <2> QED BY <1>1, <2>1, <2>2, <2>3, <2>5, <2>6, Finitely DEF NoJobWaitsForASleeper
<1>3. CASE Asleep = {} \/ owed[c] = "all"
    <2>1. Asleep' = {}
        BY <1>1, <1>3 DEF Notify, WakeOne, WakeAll, Asleep, Ranges
    <2> QED BY <2>1 DEF NoJobWaitsForASleeper
<1> QED BY <1>2, <1>3 DEF Notify

LEMMA WorkCounts ==
    ASSUME Inv, NoJobWaitsForASleeper, NEW w \in Workers, Work(w) \/ Finish(w) \/ Throw(w)
    PROVE  NoJobWaitsForASleeper'
<1>0. Ranges
    BY DEF Inv
<1>1. CASE TakePinned(w)
    <2>1. /\ thread[w] = "looking" /\ pinned[w] # <<>> /\ thread' = [thread EXCEPT ![w] = "busy"]
          /\ \A v \in Workers \ {w} : pinned'[v] = pinned[v]
          /\ UNCHANGED <<jobs, stopCall, owed>>
        BY <1>0, <1>1 DEF TakePinned, Ranges
    <2>2. Asleep' = Asleep /\ w \notin Asleep /\ Helpers \subseteq Helpers'
        BY <1>0, <2>1 DEF Asleep, Helpers, Ranges
    <2> QED BY <1>0, <2>1, <2>2, NoNewSleeper DEF Asleep
<1>2. CASE TakeFree(w)
    <2>1. /\ thread[w] = "looking" /\ pinned[w] = <<>> /\ thread' = [thread EXCEPT ![w] = "busy"]
          /\ jobs # <<>> /\ jobs' = Tail(jobs) /\ UNCHANGED <<pinned, stopCall, owed>>
        BY <1>2 DEF TakeFree
    <2>2. Asleep' = Asleep /\ Helpers' = Helpers \ {w} /\ w \in Helpers
        BY <1>0, <2>1 DEF Asleep, Helpers, Ranges
    <2>3. Len(jobs') = Len(jobs) - 1
        BY <1>0, <2>1, HeadTailProperties DEF Ranges
    <2>4. Cardinality(Helpers') = Cardinality(Helpers) - 1
        BY <2>2, Finitely, FS_RemoveElement
    <2>5. Owing("one")' = Owing("one") /\ Owing("all")' = Owing("all")
        BY <2>1 DEF Owing
    <2> QED BY <1>0, <2>1, <2>2, <2>3, <2>4, <2>5, Finitely DEF NoJobWaitsForASleeper
<1>3. CASE FallAsleep(w) \/ Exit(w)
    <2>1. /\ jobs' = <<>> /\ pinned[w] = <<>> /\ Asleep' \subseteq Asleep \cup {w}
          /\ UNCHANGED <<pinned, stopCall, owed>>
        BY <1>0, <1>3 DEF FallAsleep, Exit, Idle, Asleep, Ranges
    <2>2. Owing("all")' = Owing("all")
        BY <2>1 DEF Owing
    <2>3. CASE Owing("all") = {} /\ stopCall # "notify"
        BY <2>1, <2>3, NothingFree DEF NoJobWaitsForASleeper
    <2> QED BY <2>1, <2>2, <2>3 DEF NoJobWaitsForASleeper
<1>4. CASE SpuriousWakeup(w) \/ Finish(w) \/ Throw(w)
    <2>1. /\ thread' = [thread EXCEPT ![w] = "looking"] /\ thread[w] \in {"asleep", "busy"}
          /\ UNCHANGED <<jobs, pinned, stopCall, owed>>
        BY <1>4 DEF SpuriousWakeup, Finish, Throw
    <2>2. Asleep' \subseteq Asleep /\ Helpers \subseteq Helpers'
        BY <1>0, <2>1 DEF Asleep, Helpers, Ranges
    <2> QED BY <1>0, <2>1, <2>2, NoNewSleeper
<1> QED BY <1>1, <1>2, <1>3, <1>4 DEF Work

LEMMA StopCounts ==
    ASSUME Inv, NoJobWaitsForASleeper, StopStep
    PROVE  NoJobWaitsForASleeper'
<1>1. CASE Stop
    BY <1>1 DEF Stop, NoJobWaitsForASleeper
<1>2. CASE StopNotify
    <2>1. Asleep' = {}
        BY <1>2 DEF StopNotify, WakeAll, Asleep
    <2> QED BY <2>1 DEF NoJobWaitsForASleeper
<1>3. CASE StopJoin
    BY <1>3 DEF StopJoin, NoJobWaitsForASleeper, Asleep, Helpers, Owing
<1> QED BY <1>1, <1>2, <1>3 DEF StopStep

\* A worker sleeps on a job pinned to it only while a notify_all is still to come,
\* and while any worker sleeps there is for each free job a notification to come or
\* a worker about to look: submit() and submit_to() notify after the unlock
\* (db.cpp:51, 62) and lose no wakeup.
THEOREM NobodyOversleeps == PoolSpec => []NoJobWaitsForASleeper
<1>1. PoolInit => NoJobWaitsForASleeper
    BY DEF PoolInit, NoJobWaitsForASleeper, Asleep
<1>2. Inv /\ NoJobWaitsForASleeper /\ [PoolNext]_poolVars => NoJobWaitsForASleeper'
    <2> SUFFICES ASSUME Inv, NoJobWaitsForASleeper, [PoolNext]_poolVars
                 PROVE  NoJobWaitsForASleeper'
        OBVIOUS
    <2>1. ASSUME NEW c \in Callers, Resume(c)
          PROVE  NoJobWaitsForASleeper'
        BY <2>1 DEF Resume, NoJobWaitsForASleeper, Asleep, Helpers, Owing
    <2>2. CASE UNCHANGED poolVars
        BY <2>2 DEF poolVars, NoJobWaitsForASleeper, Asleep, Helpers, Owing
    <2> QED BY <2>1, <2>2, AwaitCounts, NotifyCounts, WorkCounts, StopCounts DEF PoolNext
<1> QED BY <1>1, <1>2, Invariant, PTL DEF PoolSpec
=============================================================================
