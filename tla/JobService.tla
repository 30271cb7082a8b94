----------------------------- MODULE JobService -----------------------------
(***************************************************************************)
(* What DbPool promises the coroutines that use it: a job runs once, on    *)
(* the worker it asked for or else on any, each worker runs one at a time  *)
(* and prefers those that asked for it, and then the coroutine is resumed. *)
(***************************************************************************)
CONSTANTS Callers, Workers, None

VARIABLES
    caller,    \* "running", "queued" (suspended), "lost" (for ever), "posted"
    want,      \* the worker a queued job asks for; None: any, or it has one
    job,       \* the job each worker runs
    stopping   \* no more jobs are accepted

serviceVars == <<caller, want, job, stopping>>

ServiceTypeOK ==
    /\ caller \in [Callers -> {"running", "queued", "lost", "posted"}]
    /\ want \in [Callers -> Workers \cup {None}]
    /\ job \in [Workers -> Callers \cup {None}]
    /\ stopping \in BOOLEAN

ServiceInit ==
    /\ caller = [c \in Callers |-> "running"]
    /\ want = [c \in Callers |-> None]
    /\ job = [w \in Workers |-> None]
    /\ stopping = FALSE

Await(c, pin) ==
    /\ caller[c] = "running"
    /\ IF stopping
       THEN caller' = [caller EXCEPT ![c] = "lost"] /\ UNCHANGED want
       ELSE caller' = [caller EXCEPT ![c] = "queued"] /\ want' = [want EXCEPT ![c] = pin]
    /\ UNCHANGED <<job, stopping>>

Waiting == {c \in Callers : caller[c] = "queued" /\ \A w \in Workers : job[w] # c}

\* Bug: a worker takes any job.
BugEligible(w) == Waiting

\* What is pinned to a worker goes before what anybody may do.
Eligible(w) ==
    LET mine == {c \in Waiting : want[c] = w}
    IN  IF mine # {} THEN mine ELSE {c \in Waiting : want[c] = None}

Take(w) ==
    /\ job[w] = None
    /\ \E c \in Eligible(w) :
           /\ job' = [job EXCEPT ![w] = c]
           /\ want' = [want EXCEPT ![c] = None]
    /\ UNCHANGED <<caller, stopping>>

Finish(w) ==
    /\ job[w] # None
    /\ caller' = [caller EXCEPT ![job[w]] = "posted"]
    /\ job' = [job EXCEPT ![w] = None]
    /\ UNCHANGED <<want, stopping>>

Throw(w) ==
    /\ job[w] # None
    /\ caller' = [caller EXCEPT ![job[w]] = "lost"]
    /\ job' = [job EXCEPT ![w] = None]
    /\ UNCHANGED <<want, stopping>>

Resume(c) ==
    /\ caller[c] = "posted"
    /\ caller' = [caller EXCEPT ![c] = "running"]
    /\ UNCHANGED <<want, job, stopping>>

Stop ==
    /\ ~stopping
    /\ stopping' = TRUE
    /\ UNCHANGED <<caller, want, job>>

ServiceNext ==
    \/ \E c \in Callers : (\E pin \in Workers \cup {None} : Await(c, pin)) \/ Resume(c)
    \/ \E w \in Workers : Take(w) \/ Finish(w) \/ Throw(w)
    \/ Stop

ServiceSpec == ServiceInit /\ [][ServiceNext]_serviceVars
=============================================================================
