--------------------------- MODULE ShutdownProofs ---------------------------
(***************************************************************************)
(* Proofs about Shutdown: for any number of loops and clients, any limit   *)
(* and any grace period, the counter of connections is exact, nobody posts *)
(* to a loop that is destroyed, the server keeps the promise of Service,   *)
(* no wakeup or answer is lost, and the shutdown is never stuck.           *)
(***************************************************************************)
EXTENDS Shutdown, FiniteSetTheorems, TLAPS

(***************************************************************************)
(* The counter.  Places is the part of the types that it rests on.         *)
(***************************************************************************)
Places == /\ conn \in [Clients -> Conns] /\ at \in [Clients -> Loops]
          /\ count \in Nat

LEMMA CountedIsFinite == IsFiniteSet(Counted) /\ Cardinality(Counted) \in Nat
<1>1. IsFiniteSet(Counted)
    BY LoopAssumption, FS_Subset DEF Counted
<1> QED BY <1>1, FS_CardinalityType

LEMMA OneMore ==
    ASSUME CountIsExact, Places, NEW c \in Clients, c \notin Counted,
           Counted' = Counted \cup {c}, count' = count + 1
    PROVE  CountIsExact'
BY CountedIsFinite, FS_AddElement DEF CountIsExact

LEMMA OneLess ==
    ASSUME CountIsExact, Places, NEW c \in Clients, c \in Counted,
           Counted' = Counted \ {c}, count' = count - 1
    PROVE  CountIsExact' /\ count' \in Nat
<1>1. Cardinality(Counted \ {c}) = Cardinality(Counted) - 1
    BY CountedIsFinite, FS_RemoveElement
<1>2. IsFiniteSet(Counted \ {c})
    BY CountedIsFinite, FS_RemoveElement
<1>3. Cardinality(Counted \ {c}) \in Nat
    BY <1>2, FS_CardinalityType
<1> QED BY <1>1, <1>3 DEF CountIsExact

LEMMA SameCount ==
    ASSUME CountIsExact, Counted' = Counted, count' = count
    PROVE  CountIsExact'
BY DEF CountIsExact

\* What a step may do to connections and their counter.
Moves(c, from, to) == conn[c] = from /\ conn' = [conn EXCEPT ![c] = to]
Stands == UNCHANGED <<conn, at, count>>
Comes(c, l) == Moves(c, "away", "backlog") /\ at' = [at EXCEPT ![c] = l] /\ UNCHANGED count
Taken(c)  == Moves(c, "backlog", "accepted") /\ UNCHANGED <<at, count>>
Counts(c) == /\ conn[c] = "accepted" /\ UNCHANGED at /\ count' = count + 1
             /\ \/ count < MaxConnections /\ conn' = [conn EXCEPT ![c] = IF stage = "serving" THEN "open" ELSE "late"]
                \/ conn' = [conn EXCEPT ![c] = "refusing"]
Frees(c)  == /\ UNCHANGED at /\ count' = count - 1
             /\ \/ Moves(c, "refusing", "refused")
                \/ c \in Open /\ conn' = [conn EXCEPT ![c] = "closed"]
Hears(l)  == /\ UNCHANGED <<at, count>>
             /\ conn' = [c \in Clients |-> IF c \in In(l, "backlog") THEN "reset" ELSE conn[c]]
Drops(l)  == /\ UNCHANGED <<at, count>> /\ phase[l] = "left" /\ phase' = [phase EXCEPT ![l] = "gone"]
             /\ conn' = [c \in Clients |-> IF c \in In(l, "backlog") THEN "reset"
                                           ELSE IF at[c] = l /\ c \in Open THEN "dropped" ELSE conn[c]]
Conduct == \/ Stands
           \/ \E l \in Loops, c \in Clients : Comes(c, l)
           \/ \E c \in Clients : Taken(c) \/ Counts(c) \/ Frees(c)
           \/ \E l \in Loops : Hears(l) \/ Drops(l)

LEMMA ServerConduct ==
    ASSUME Next, Places
    PROVE  Conduct
<1> USE DEF loopVars, tcpVars, drainVars, Becomes, At
<1>1. ASSUME NEW l \in Loops, LoopStep(l) PROVE Conduct
    <2>1. CASE Listen(l) \/ Register(l) \/ Leave(l) \/ AcceptDone(l)
        BY <2>1 DEF Listen, Register, Leave, AcceptDone, Conduct, Stands
    <2>2. CASE UNCHANGED tcpVars
        BY <2>2 DEF Conduct, Stands
    <2>3. CASE Destroy(l)
        BY <2>3 DEF Destroy, Conduct, Drops
    <2>4. CASE Task(l)
        <3>1. CASE StopAccepting(l)
            BY <3>1 DEF StopAccepting, Conduct, Hears
        <3>2. ASSUME NEW c \in Clients, Resume(c) PROVE Conduct
            BY <3>2 DEF Resume, Conduct, Stands, Frees
        <3> QED BY <2>2, <2>4, <3>1, <3>2 DEF Task
    <2> QED BY <1>1, <2>1, <2>2, <2>3, <2>4 DEF LoopStep
<1>2. ASSUME NEW l \in Loops, NEW c \in Clients, ServerStep(l, c) PROVE Conduct
    <2>1. CASE Accept(l, c)
        BY <2>1 DEF Accept, In, Conduct, Taken, Moves
    <2>2. CASE Count(l, c, IF stage = "serving" THEN "open" ELSE "late")
        <3>1. count < MaxConnections \/ count >= MaxConnections
            BY LimitAssumption DEF Places
        <3> QED BY <2>2, <3>1 DEF Count, In, Conduct, Counts
    <2>3. CASE Refuse(l, c)
        BY <2>3 DEF Refuse, In, Conduct, Frees, Moves
    <2> QED BY <1>2, <2>1, <2>2, <2>3 DEF ServerStep
<1>3. ASSUME NEW l \in Loops, NEW c \in Clients, ClientStep(l, c) PROVE Conduct
    BY <1>3 DEF ClientStep, Connect, Close, Ask, Conduct, Comes, Moves, Frees, Stands
<1>4. CASE DrainStep \/ Signal
    BY <1>4 DEF DrainStep, Signal, InitiateDrain, DrainTimer, PoolsJoined, StopLoops, Conduct, Stands
<1>5. ASSUME NEW c \in Clients, RunJob(c) \/ ThrowJob(c) PROVE Conduct
    BY <1>5 DEF RunJob, ThrowJob, Conduct, Stands
<1> QED BY <1>1, <1>2, <1>3, <1>4, <1>5 DEF Next, ThreadStep

LEMMA CountKept ==
    ASSUME Places, CountIsExact, Conduct
    PROVE  Places' /\ CountIsExact'
<1> USE DEF Places, Conns, Open, Counted, In
<1>1. CASE Stands
    BY <1>1, SameCount DEF Stands
<1>2. ASSUME NEW l \in Loops, NEW c \in Clients, Comes(c, l) PROVE Places' /\ CountIsExact'
    BY <1>2, SameCount DEF Comes, Moves
<1>3. ASSUME NEW c \in Clients, Taken(c) PROVE Places' /\ CountIsExact'
    BY <1>3, SameCount DEF Taken, Moves
<1>4. ASSUME NEW c \in Clients, Counts(c) PROVE Places' /\ CountIsExact'
    BY <1>4, OneMore DEF Counts
<1>5. ASSUME NEW c \in Clients, Frees(c) PROVE Places' /\ CountIsExact'
    BY <1>5, OneLess DEF Frees, Moves
<1>6. ASSUME NEW l \in Loops, Hears(l) PROVE Places' /\ CountIsExact'
    BY <1>6, SameCount DEF Hears
<1>7. ASSUME NEW l \in Loops, Drops(l) PROVE Places' /\ CountIsExact'
    BY <1>7, SameCount DEF Drops
<1> QED BY <1>1, <1>2, <1>3, <1>4, <1>5, <1>6, <1>7 DEF Conduct

\* For any number of loops that accept at once, the counter is the number of
\* connections that hold a slot.
THEOREM CounterIsExact == Spec => []CountIsExact
<1>1. Init => Places /\ CountIsExact
    <2> SUFFICES ASSUME Init PROVE Places /\ CountIsExact
        OBVIOUS
    <2>1. Counted = {}
        BY DEF Init, TcpInit, Counted
    <2> QED BY <2>1, FS_EmptySet, LoopAssumption DEF Init, TcpInit, Places, Conns, CountIsExact
<1>2. Places /\ CountIsExact /\ [Next]_vars => Places' /\ CountIsExact'
    <2>1. UNCHANGED vars => Stands
        BY DEF vars, tcpVars, Stands
    <2> QED BY <2>1, ServerConduct, CountKept DEF Conduct
<1> QED BY <1>1, <1>2, PTL DEF Spec

(***************************************************************************)
(* Types.  The Boolean variables are kept apart.                           *)
(***************************************************************************)
Ranges ==
  /\ phase \in [Loops -> Phases]
  /\ queue \in [Loops -> Seq(Tasks)] /\ current \in [Loops -> Seq(Tasks)]
  /\ loops \subseteq Loops /\ servers \subseteq Loops
  /\ signal \in {"none", "sent", "seen"} /\ stage \in Stages
  /\ polls \in 0..Grace
  /\ job \in [Clients -> Jobs]

Flags == /\ running \in [Loops -> BOOLEAN] /\ woken \in [Loops -> BOOLEAN]
         /\ listening \in [Loops -> BOOLEAN] /\ timer \in BOOLEAN

LEMMA TypeParts == ServerTypeOK <=> Ranges /\ Flags /\ Places
BY Zenon DEF ServerTypeOK, Ranges, Flags, Places

LEMMA RangesKept == ASSUME Ranges, [Next]_vars PROVE Ranges'
<1> USE DEF Ranges, loopVars, tcpVars, drainVars, At
<1>1. ASSUME NEW l \in Loops, LoopStep(l) PROVE Ranges'
    <2>1. CASE RunLoop(l) /\ UNCHANGED <<tcpVars, drainVars, job>>
        BY <2>1 DEF RunLoop, Phases
    <2>2. CASE Turn(l) /\ UNCHANGED <<tcpVars, drainVars, job>>
        <3>1. phase' \in [Loops -> Phases]
            BY <2>2 DEF Turn, Phases
        <3>2. queue' \in [Loops -> Seq(Tasks)] /\ current' \in [Loops -> Seq(Tasks)]
            <4>1. \/ UNCHANGED <<queue, current>>
                  \/ queue' = [queue EXCEPT ![l] = <<>>] /\ current' = [current EXCEPT ![l] = queue[l]]
                BY <2>2, Zenon DEF Turn
            <4>2. <<>> \in Seq(Tasks)
                OBVIOUS
            <4>3. queue[l] \in Seq(Tasks)
                OBVIOUS
            <4> QED BY <4>1, <4>2, <4>3
        <3> QED BY <2>2, <3>1, <3>2 DEF Turn
    <2>3. CASE EpollWait(l) /\ UNCHANGED <<tcpVars, drainVars, job>>
        BY <2>3 DEF EpollWait, Phases
    <2>4. CASE Wakeup(l) /\ UNCHANGED <<tcpVars, drainVars, job>>
        BY <2>4 DEF Wakeup, Phases
    <2>5. CASE EndBatch(l) /\ UNCHANGED <<tcpVars, drainVars, job>>
        BY <2>5 DEF EndBatch, Phases
    <2>6. CASE (AcceptDone(l) \/ Listen(l) \/ Destroy(l)) /\ UNCHANGED <<drainVars, job>>
        BY <2>6 DEF AcceptDone, Listen, Destroy, Phases
    <2>7. CASE Register(l) \/ Leave(l)
        BY <2>7 DEF Register, Leave, Phases
    <2>8. CASE Task(l)
        <3>1. ASSUME NEW t, TakeTask(l, t) PROVE current' \in [Loops -> Seq(Tasks)] /\ UNCHANGED <<phase, queue>>
            BY <3>1 DEF TakeTask
        <3>2. CASE UNCHANGED <<drainVars, job>>
            BY <2>8, <3>1, <3>2 DEF Task
        <3>3. CASE Poll /\ UNCHANGED job
            BY <2>8, <3>1, <3>3, GraceAssumption DEF Task, Poll, Stages
        <3>4. ASSUME NEW c \in Clients, Resume(c) PROVE Ranges'
            BY <2>8, <3>1, <3>4 DEF Task, Resume, Jobs
        <3> QED BY <2>8, <3>2, <3>3, <3>4 DEF Task
    <2> QED BY <1>1, <2>1, <2>2, <2>3, <2>4, <2>5, <2>6, <2>7, <2>8 DEF LoopStep
<1>2. ASSUME NEW l \in Loops, NEW c \in Clients, ServerStep(l, c) PROVE Ranges'
    BY <1>2 DEF ServerStep, Accept, Count, Refuse, Phases
<1>3. ASSUME NEW l \in Loops, NEW c \in Clients, ClientStep(l, c) PROVE Ranges'
    BY <1>3 DEF ClientStep, Connect, Close, Ask, Phases, Jobs
<1>4. CASE InitiateDrain
    <2>1. StopTask \in Tasks /\ DrainTask \in Tasks
        BY DEF Tasks
    <2>2. queue' \in [Loops -> Seq(Tasks)]
        BY <1>4, <2>1 DEF InitiateDrain
    <2>3. phase' \in [Loops -> Phases]
        BY <1>4 DEF InitiateDrain, Phases
    <2> QED BY <1>4, <2>2, <2>3 DEF InitiateDrain, Stages
<1>5. CASE DrainTimer
    <2>1. phase' \in [Loops -> Phases]
        BY <1>5 DEF DrainTimer, Phases
    <2>2. stage' \in Stages /\ polls' \in 0..Grace
        BY <1>5, GraceAssumption DEF DrainTimer, Poll, Stages
    <2> QED BY <1>5, <2>1, <2>2 DEF DrainTimer, Poll
<1>6. CASE PoolsJoined \/ StopLoops \/ Signal
    BY <1>6 DEF PoolsJoined, StopLoops, Signal, Stages
<1>7. ASSUME NEW c \in Clients, RunJob(c) PROVE Ranges'
    <2>1. ResumeTask(c) \in Tasks
        BY DEF Tasks
    <2>2. queue' \in [Loops -> Seq(Tasks)]
        BY <1>7, <2>1 DEF RunJob, Post
    <2>3. job' \in [Clients -> Jobs]
        BY <1>7 DEF RunJob, Jobs
    <2> QED BY <1>7, <2>2, <2>3 DEF RunJob
<1>8. ASSUME NEW c \in Clients, ThrowJob(c) PROVE Ranges'
    BY <1>8 DEF ThrowJob, Jobs
<1>9. CASE UNCHANGED vars
    BY <1>9 DEF vars
<1> QED BY <1>1, <1>2, <1>3, <1>4, <1>5, <1>6, <1>7, <1>8, <1>9 DEF Next, ThreadStep, DrainStep

LEMMA FlagsKept == ASSUME Flags, [Next]_vars PROVE Flags'
<1> USE DEF Flags, loopVars, tcpVars, drainVars
<1>1. ASSUME NEW l \in Loops, LoopStep(l) PROVE Flags'
    <2>1. CASE RunLoop(l) /\ UNCHANGED <<tcpVars, drainVars, job>>
        BY <2>1, Zenon DEF RunLoop
    <2>2. CASE Task(l)
        <3>1. running' = running /\ woken' = woken
            BY <2>2, Zenon DEF Task, TakeTask
        <3>2. CASE StopAccepting(l) /\ UNCHANGED <<drainVars, job>>
            BY <3>1, <3>2, Zenon DEF StopAccepting
        <3>3. CASE Poll /\ UNCHANGED <<tcpVars, job>>
            BY <3>1, <3>3, Zenon DEF Poll
        <3>4. ASSUME NEW c \in Clients, Resume(c) PROVE Flags'
            BY <3>1, <3>4, Zenon DEF Resume
        <3> QED BY <2>2, <3>2, <3>3, <3>4 DEF Task
    <2>3. CASE (Listen(l) \/ Destroy(l)) /\ UNCHANGED <<drainVars, job>>
        BY <2>3, Zenon DEF Listen, Destroy
    <2>4. CASE Wakeup(l) /\ UNCHANGED <<tcpVars, drainVars, job>>
        BY <2>4, Zenon DEF Wakeup
    <2>5. CASE UNCHANGED <<running, woken, listening, timer>>
        BY <2>5, Zenon
    <2> QED BY <1>1, <2>1, <2>2, <2>3, <2>4, <2>5 DEF LoopStep, Turn, EpollWait, EndBatch, AcceptDone, Register, Leave
<1>2. ASSUME NEW l \in Loops, NEW c \in Clients, ServerStep(l, c) PROVE Flags'
    BY <1>2, Zenon DEF ServerStep, Accept, Count, Refuse
<1>3. ASSUME NEW l \in Loops, NEW c \in Clients, ClientStep(l, c) PROVE Flags'
    BY <1>3, Zenon DEF ClientStep, Connect, Close, Ask
<1>4. ASSUME \/ StopLoops
             \/ InitiateDrain
             \/ \E c \in Clients : RunJob(c)
      PROVE  Flags'
    <2>1. /\ running' \in [Loops -> BOOLEAN]
          /\ woken' \in [Loops -> BOOLEAN]
        BY <1>4, Zenon DEF StopLoops, StopAll, InitiateDrain, RunJob, Post
    <2>2. UNCHANGED <<listening, timer>>
        BY <1>4, Zenon DEF StopLoops, InitiateDrain, RunJob
    <2> QED BY <2>1, <2>2, Zenon
<1>5. CASE DrainTimer
    BY <1>5, Zenon DEF DrainTimer, Poll
<1>6. ASSUME \/ PoolsJoined \/ Signal
             \/ \E c \in Clients : ThrowJob(c)
      PROVE  Flags'
    BY <1>6, Zenon DEF PoolsJoined, Signal, ThrowJob
<1>7. CASE UNCHANGED vars
    BY <1>7, Zenon DEF vars
<1> QED BY <1>1, <1>2, <1>3, <1>4, <1>5, <1>6, <1>7 DEF Next, ThreadStep, DrainStep

\* For any number of loops and clients, every variable keeps its range: the
\* counter is never negative and the drain never polls beyond its deadline.
THEOREM ServerTypeCorrect == Spec => []ServerTypeOK
<1> DEFINE Types == Ranges /\ Flags /\ Places /\ CountIsExact
<1>1. Init => Types
    <2> SUFFICES ASSUME Init PROVE Types
        OBVIOUS
    <2>1. Counted = {}
        BY DEF Init, TcpInit, Counted
    <2>2. Places /\ CountIsExact
        BY <2>1, FS_EmptySet, LoopAssumption DEF Init, TcpInit, Places, Conns, CountIsExact
    <2>3. Ranges
        BY LoopAssumption, GraceAssumption DEF Init, LoopInit, Ranges, Phases, Stages, Jobs
    <2>4. Flags
        BY Zenon DEF Init, LoopInit, TcpInit, Flags
    <2> QED BY <2>2, <2>3, <2>4
<1>2. Types /\ [Next]_vars => Types'
    <2>1. UNCHANGED vars => Stands
        BY DEF vars, tcpVars, Stands
    <2> QED BY <2>1, ServerConduct, CountKept, RangesKept, FlagsKept DEF Conduct
<1>3. Types => ServerTypeOK
    BY TypeParts
<1> QED BY <1>1, <1>2, <1>3, PTL DEF Spec

(***************************************************************************)
(* The drain begins once, and polls in one place at a time: a task in the  *)
(* queue, a task about to run, or the timer.                               *)
(***************************************************************************)
NoDrain(s) == \A i \in 1..Len(s) : s[i] # DrainTask
OneDrain(s) == \A i, j \in 1..Len(s) : s[i] = DrainTask /\ s[j] = DrainTask => i = j

LEMMA NothingPosted == NoDrain(<<>>) /\ OneDrain(<<>>)
BY DEF NoDrain, OneDrain

LEMMA OtherPosted ==
    ASSUME NEW s \in Seq(Tasks), NEW t \in Tasks, t # DrainTask
    PROVE  /\ Append(s, t) \in Seq(Tasks)
           /\ NoDrain(s) => NoDrain(Append(s, t))
           /\ OneDrain(s) => OneDrain(Append(s, t))
BY DEF NoDrain, OneDrain

LEMMA DrainPosted ==
    ASSUME NEW s \in Seq(Tasks), NoDrain(s)
    PROVE  OneDrain(Append(s, DrainTask))
<1>1. DrainTask \in Tasks
    BY DEF Tasks
<1> QED BY <1>1 DEF NoDrain, OneDrain

LEMMA TaskTaken ==
    ASSUME NEW s \in Seq(Tasks), s # <<>>
    PROVE  /\ Head(s) = s[1] /\ Len(s) \in Nat \ {0} /\ Len(Tail(s)) = Len(s) - 1
           /\ \A i \in 1..Len(Tail(s)) : Tail(s)[i] = s[i + 1]
OBVIOUS

LEMMA AfterTask ==
    ASSUME NEW s \in Seq(Tasks), s # <<>>
    PROVE  /\ NoDrain(s) => NoDrain(Tail(s)) /\ Head(s) # DrainTask
           /\ OneDrain(s) => OneDrain(Tail(s))
           /\ OneDrain(s) /\ Head(s) = DrainTask => NoDrain(Tail(s))
<1> USE TaskTaken
<1>1. NoDrain(s) => NoDrain(Tail(s)) /\ Head(s) # DrainTask
    BY DEF NoDrain
<1>2. OneDrain(s) => OneDrain(Tail(s))
    BY DEF OneDrain
<1>3. OneDrain(s) /\ Head(s) = DrainTask => NoDrain(Tail(s))
    BY DEF NoDrain, OneDrain
<1> QED BY <1>1, <1>2, <1>3

LEMMA TaskNames ==
    /\ StopTask \in Tasks /\ StopTask # DrainTask
    /\ \A c \in Clients : ResumeTask(c) \in Tasks /\ ResumeTask(c) # DrainTask
BY DEF Tasks, StopTask, DrainTask, ResumeTask

Clear == \A l \in Loops : NoDrain(queue[l]) /\ NoDrain(current[l])

DrainOnce ==
    /\ stage = "serving" <=> signal # "seen"
    /\ stage = "serving" => polls = 0
    /\ stage # "draining" => timer = FALSE /\ Clear
    /\ timer = FALSE \/ Clear
    /\ \A l \in Loops \ {Main} : NoDrain(queue[l]) /\ NoDrain(current[l])
    /\ OneDrain(queue[Main]) /\ OneDrain(current[Main])
    /\ NoDrain(queue[Main]) \/ NoDrain(current[Main])

\* What a step may do to the drain.
Same  == UNCHANGED <<signal, stage, timer, polls>>
Swaps(l) == /\ queue' = [queue EXCEPT ![l] = <<>>] /\ current' = [current EXCEPT ![l] = queue[l]]
            /\ Same
Adds(l, c) == /\ queue' = [queue EXCEPT ![l] = Append(@, ResumeTask(c))]
              /\ UNCHANGED current /\ Same
Takes(l)   == /\ current[l] # <<>> /\ Head(current[l]) # DrainTask
              /\ current' = [current EXCEPT ![l] = Tail(@)] /\ UNCHANGED queue /\ Same
Polls      == /\ Poll /\ UNCHANGED queue
              /\ \/ timer /\ UNCHANGED current
                 \/ \E l \in Loops : /\ current[l] # <<>> /\ Head(current[l]) = DrainTask
                                      /\ current' = [current EXCEPT ![l] = Tail(@)]
Closes     == /\ \/ stage = "closing" /\ (\A c \in Clients : job[c] # "asked") /\ stage' = "closed"
                 \/ stage = "closed" /\ stage' = "stopped"
              /\ UNCHANGED <<queue, current, signal, timer, polls>>
Hurts      == signal = "none" /\ signal' = "sent" /\ UNCHANGED <<queue, current, stage, timer, polls>>
Rests      == UNCHANGED <<queue, current>> /\ Same

Drainage == \/ Rests \/ InitiateDrain \/ Polls \/ Closes \/ Hurts
            \/ \E l \in Loops : Swaps(l) \/ Takes(l) \/ \E c \in Clients : Adds(l, c)

LEMMA DrainConduct ==
    ASSUME [Next]_vars, Ranges, Places
    PROVE  Drainage
<1> USE DEF loopVars, tcpVars, drainVars, Same
<1>1. ASSUME NEW l \in Loops, LoopStep(l) PROVE Drainage
    <2>1. CASE Turn(l) /\ UNCHANGED <<tcpVars, drainVars, job>>
        <3>1. \/ UNCHANGED <<queue, current>>
              \/ queue' = [queue EXCEPT ![l] = <<>>] /\ current' = [current EXCEPT ![l] = queue[l]]
            BY <2>1, Zenon DEF Turn
        <3> QED BY <2>1, <3>1 DEF Drainage, Rests, Swaps
    <2>2. CASE Task(l)
        <3>1. CASE TakeTask(l, StopTask) /\ StopAccepting(l) /\ UNCHANGED <<drainVars, job>>
            BY <3>1, TaskNames DEF TakeTask, Drainage, Takes
        <3>2. CASE TakeTask(l, DrainTask) /\ Poll
            BY <3>2 DEF TakeTask, Drainage, Polls
        <3>3. ASSUME NEW c \in Clients, TakeTask(l, ResumeTask(c)), Resume(c) PROVE Drainage
            BY <3>3, TaskNames DEF TakeTask, Resume, Drainage, Takes
        <3> QED BY <2>2, <3>1, <3>2, <3>3 DEF Task
    <2>3. CASE Rests
        BY <2>3 DEF Drainage
    <2> QED BY <1>1, <2>1, <2>2, <2>3 DEF LoopStep, RunLoop, EpollWait, Wakeup, EndBatch, AcceptDone, Listen,
                                        Destroy, Register, Leave, Rests
<1>2. ASSUME NEW l \in Loops, NEW c \in Clients, ServerStep(l, c) PROVE Drainage
    BY <1>2 DEF ServerStep, Accept, Count, Refuse, Drainage, Rests
<1>3. ASSUME NEW l \in Loops, NEW c \in Clients, ClientStep(l, c) PROVE Drainage
    BY <1>3 DEF ClientStep, Connect, Close, Ask, Drainage, Rests
<1>4. CASE InitiateDrain
    BY <1>4 DEF Drainage
<1>5. CASE DrainTimer
    BY <1>5 DEF DrainTimer, Drainage, Polls
<1>6. CASE PoolsJoined \/ StopLoops
    BY <1>6 DEF PoolsJoined, StopLoops, Drainage, Closes
<1>7. CASE Signal
    BY <1>7 DEF Signal, Drainage, Hurts
<1>8. ASSUME NEW c \in Clients, RunJob(c) PROVE Drainage
    <2>1. at[c] \in Loops
        BY DEF Places
    <2>2. queue' = [queue EXCEPT ![at[c]] = Append(@, ResumeTask(c))]
        BY <1>8, <2>1 DEF RunJob, Post, Ranges
    <2>3. Adds(at[c], c)
        BY <1>8, <2>2 DEF RunJob, Adds
    <2> QED BY <2>1, <2>3 DEF Drainage
<1>9. ASSUME NEW c \in Clients, ThrowJob(c) PROVE Drainage
    BY <1>9 DEF ThrowJob, Drainage, Rests
<1>10. CASE UNCHANGED vars
    BY <1>10 DEF vars, Drainage, Rests
<1> QED BY <1>1, <1>2, <1>3, <1>4, <1>5, <1>6, <1>7, <1>8, <1>9, <1>10 DEF Next, ThreadStep, DrainStep

LEMMA DrainKept ==
    ASSUME DrainOnce, Drainage, Ranges, Flags
    PROVE  DrainOnce'
<1> USE DEF Same
<1>1. CASE Rests
    BY <1>1 DEF Rests, DrainOnce, Clear
<1>2. CASE InitiateDrain
    <2>1. stage = "serving" /\ Clear /\ timer = FALSE
        BY <1>2 DEF InitiateDrain, DrainOnce
    <2> DEFINE told(l) == IF l \in servers THEN Append(queue[l], StopTask) ELSE queue[l]
    <2>2. \A l \in Loops : told(l) \in Seq(Tasks) /\ NoDrain(told(l))
        BY <2>1, OtherPosted, TaskNames DEF Clear, Ranges
    <2>3. OneDrain(Append(told(Main), DrainTask))
        BY <2>2, DrainPosted, LoopAssumption
    <2>4. queue' = [l \in Loops |-> IF l = Main THEN Append(told(l), DrainTask) ELSE told(l)]
        BY <1>2 DEF InitiateDrain
    <2> HIDE DEF told
    <2>5. \A l \in Loops \ {Main} : NoDrain(queue'[l])
        BY <2>2, <2>4
    <2>6. OneDrain(queue'[Main])
        BY <2>3, <2>4, LoopAssumption
    <2>7. UNCHANGED <<current, timer>> /\ signal' = "seen" /\ stage' = "draining"
        BY <1>2 DEF InitiateDrain
    <2>8. OneDrain(current[Main]) /\ NoDrain(current[Main])
        BY <2>1, LoopAssumption DEF Clear, DrainOnce
    <2> QED BY <2>1, <2>5, <2>6, <2>7, <2>8 DEF DrainOnce, Clear
<1>3. CASE Polls
    <2>1. PICK l \in Loops : \/ timer = TRUE /\ UNCHANGED current
                             \/ /\ current[l] # <<>> /\ Head(current[l]) = DrainTask
                                /\ current' = [current EXCEPT ![l] = Tail(@)]
        BY <1>3, LoopAssumption DEF Polls, Flags
    <2>2. Clear' /\ stage = "draining"
        <3>1. CASE timer = TRUE /\ UNCHANGED current
            BY <1>3, <3>1 DEF Polls, DrainOnce, Clear
        <3>2. CASE /\ current[l] # <<>> /\ Head(current[l]) = DrainTask
                   /\ current' = [current EXCEPT ![l] = Tail(@)]
            <4>1. current[l] \in Seq(Tasks)
                BY DEF Ranges
            <4>2. ~NoDrain(current[l])
                BY <3>2, <4>1, AfterTask
            <4>3. l = Main /\ stage = "draining"
                BY <4>2 DEF DrainOnce, Clear
            <4>4. NoDrain(Tail(current[l]))
                BY <3>2, <4>1, <4>3, AfterTask DEF DrainOnce
            <4>5. queue' = queue /\ NoDrain(queue[Main])
                BY <1>3, <4>2, <4>3 DEF DrainOnce, Polls
            <4>6. ASSUME NEW k \in Loops PROVE NoDrain(queue'[k]) /\ NoDrain(current'[k])
                BY <3>2, <4>3, <4>4, <4>5 DEF DrainOnce, Ranges
            <4> QED BY <4>3, <4>6 DEF Clear
        <3> QED BY <2>1, <3>1, <3>2
    <2>3. \/ stage' = "closing" /\ timer' = FALSE
          \/ stage' = stage
        BY <1>3 DEF Polls, Poll
    <2>4. signal' = signal
        BY <1>3 DEF Polls, Poll
    <2>5. OneDrain(queue'[Main]) /\ OneDrain(current'[Main])
        BY <2>2, LoopAssumption DEF Clear, NoDrain, OneDrain
    <2> QED BY <2>2, <2>3, <2>4, <2>5, LoopAssumption DEF DrainOnce, Clear
<1>4. CASE Closes
    BY <1>4 DEF Closes, DrainOnce, Clear
<1>5. CASE Hurts
    BY <1>5 DEF Hurts, DrainOnce, Clear
<1>6. ASSUME NEW l \in Loops, Swaps(l) PROVE DrainOnce'
    <2>1. \A k \in Loops : \/ queue'[k] = queue[k] /\ current'[k] = current[k]
                           \/ queue'[k] = <<>> /\ current'[k] = queue[k]
        BY <1>6 DEF Swaps, Ranges
    <2> QED BY <1>6, <2>1, NothingPosted, LoopAssumption DEF Swaps, DrainOnce, Clear
<1>7. ASSUME NEW l \in Loops, Takes(l) PROVE DrainOnce'
    <2>1. current[l] \in Seq(Tasks) /\ current[l] # <<>>
        BY <1>7 DEF Ranges, Takes
    <2>2. \A k \in Loops : \/ current'[k] = current[k]
                           \/ k = l /\ current'[k] = Tail(current[k])
        BY <1>7 DEF Takes, Ranges
    <2>3. \A k \in Loops : /\ NoDrain(current[k]) => NoDrain(current'[k])
                           /\ OneDrain(current[k]) => OneDrain(current'[k])
        BY <2>1, <2>2, AfterTask
    <2> QED BY <1>7, <2>3, LoopAssumption DEF Takes, DrainOnce, Clear
<1>8. ASSUME NEW l \in Loops, NEW c \in Clients, Adds(l, c) PROVE DrainOnce'
    <2>1. \A k \in Loops : \/ queue'[k] = queue[k]
                           \/ queue'[k] = Append(queue[k], ResumeTask(c))
        BY <1>8 DEF Adds, Ranges
    <2>2. \A k \in Loops : /\ NoDrain(queue[k]) => NoDrain(queue'[k])
                           /\ OneDrain(queue[k]) => OneDrain(queue'[k])
        BY <2>1, OtherPosted, TaskNames DEF Ranges
    <2> QED BY <1>8, <2>2, LoopAssumption DEF Adds, DrainOnce, Clear
<1> QED BY <1>1, <1>2, <1>3, <1>4, <1>5, <1>6, <1>7, <1>8 DEF Drainage

(***************************************************************************)
(* A loop ends only once the loops are stopped, which is after the pool is *)
(* joined; and unless the grace period is over nobody who came in before   *)
(* the signal is still there then.                                         *)
(***************************************************************************)
Busy  == {"head", "tasks", "poll", "batch", "accepting", "counting", "refusing"}
Over  == {"ended", "left", "gone"}

Ends == \A l \in Loops : /\ phase[l] \in Busy /\ stage # "stopped" => running[l] = TRUE
                         /\ phase[l] \in Over => stage = "stopped"
Idle == stage \in {"closed", "stopped"} => \A c \in Clients : job[c] # "asked"
Lists == \A l \in (loops \cup servers) \ {Main} : phase[l] \notin {"left", "gone"}
Quiet == stage \in {"closing", "closed", "stopped"} /\ polls # Grace =>
           \A c \in Clients : conn[c] # "open"

LEMMA PollsInDrain ==
    ASSUME Polls, DrainOnce, Ranges, Flags
    PROVE  stage = "draining"
<1> SUFFICES ASSUME stage # "draining" PROVE FALSE
    OBVIOUS
<1>1. timer = FALSE /\ Clear
    BY DEF DrainOnce
<1>2. PICK l \in Loops : current[l] # <<>> /\ Head(current[l]) = DrainTask
    BY <1>1 DEF Polls
<1>3. current[l] \in Seq(Tasks) /\ NoDrain(current[l])
    BY <1>1 DEF Ranges, Clear
<1> QED BY <1>2, <1>3, AfterTask

LEMMA StageMoves ==
    ASSUME Drainage, DrainOnce, Ranges, Flags
    PROVE  \/ stage' = stage /\ stage \notin {"closing", "closed"}
           \/ stage' = stage /\ UNCHANGED polls
           \/ stage = "serving" /\ stage' = "draining" /\ InitiateDrain
           \/ stage = "draining" /\ stage' = "closing" /\ Poll /\ Polls
           \/ Closes
<1>1. Polls => stage = "draining"
    BY PollsInDrain
<1>2. InitiateDrain => stage = "serving" /\ stage' = "draining"
    BY DEF InitiateDrain, DrainOnce
<1>3. Polls => Poll /\ (stage' = "closing" \/ stage' = stage)
    BY DEF Polls, Poll
<1> QED BY <1>1, <1>2, <1>3 DEF Drainage, Rests, Same, Hurts, Swaps, Takes, Adds

LEMMA QuietKept ==
    ASSUME Quiet, DrainOnce, Drainage, Conduct, Ranges, Flags, Places, CountIsExact
    PROVE  Quiet'
<1>1. stage # "serving" => \A c \in Clients : conn'[c] = "open" => conn[c] = "open"
    BY DEF Conduct, Stands, Comes, Taken, Counts, Frees, Hears, Drops, Moves, Places
<1>2. CASE stage = "draining" /\ stage' = "closing" /\ Poll
    <2>1. CASE count = 0
        <3>1. Counted = {}
            BY <2>1, CountedIsFinite, FS_EmptySet DEF CountIsExact
        <3> QED BY <1>1, <1>2, <3>1 DEF Quiet, Counted
    <2>2. CASE count # 0
        <3>1. polls' = Grace
            BY <1>2, <2>2 DEF Poll
        <3> QED BY <3>1 DEF Quiet
    <2> QED BY <2>1, <2>2
<1>3. CASE Closes
    BY <1>1, <1>3 DEF Closes, Quiet
<1>4. stage' \in {"closing", "closed", "stopped"} =>
        \/ stage' = stage
        \/ stage = "draining" /\ stage' = "closing" /\ Poll
        \/ Closes
    BY StageMoves
<1>5. CASE stage' = stage /\ stage = "stopped"
    <2>1. polls' = polls
        <3>1. ~Polls
            BY <1>5, PollsInDrain
        <3> QED BY <1>5, <3>1 DEF Drainage, Rests, Same, Hurts, Swaps, Takes, Adds, InitiateDrain, Closes, DrainOnce
    <2> QED BY <1>1, <1>5, <2>1 DEF Quiet
<1>6. CASE stage' = stage /\ stage # "stopped" /\ ~Closes
    BY <1>1, <1>6, StageMoves DEF Quiet
<1> QED BY <1>2, <1>3, <1>4, <1>5, <1>6 DEF Quiet

LEMMA IdleKept ==
    ASSUME Idle, DrainOnce, Drainage, Ranges, Flags, [Next]_vars
    PROVE  Idle'
<1>1. \A c \in Clients : job'[c] = "asked" => job[c] = "asked" \/ stage \in {"serving", "draining"}
    <2> USE DEF loopVars, tcpVars, drainVars, Ranges
    <2>1. ASSUME NEW l \in Loops, LoopStep(l) PROVE \A c \in Clients : job'[c] = "asked" => job[c] = "asked"
        BY <2>1 DEF LoopStep, Task, Resume, Register, Leave
    <2>2. ASSUME NEW l \in Loops, NEW d \in Clients, ServerStep(l, d) PROVE UNCHANGED job
        BY <2>2 DEF ServerStep
    <2>3. ASSUME NEW l \in Loops, NEW d \in Clients, ClientStep(l, d)
          PROVE  \A c \in Clients : job'[c] = "asked" => job[c] = "asked" \/ stage \in {"serving", "draining"}
        BY <2>3 DEF ClientStep, Ask
    <2>4. CASE DrainStep \/ Signal \/ UNCHANGED vars
        BY <2>4 DEF DrainStep, Signal, InitiateDrain, DrainTimer, PoolsJoined, StopLoops, vars
    <2>5. ASSUME NEW d \in Clients, RunJob(d) \/ ThrowJob(d)
          PROVE  \A c \in Clients : job'[c] = "asked" => job[c] = "asked"
        BY <2>5 DEF RunJob, ThrowJob
    <2> QED BY <2>1, <2>2, <2>3, <2>4, <2>5 DEF Next, ThreadStep
<1> QED BY <1>1, StageMoves DEF Idle, Closes

\* Where the thread of a loop may go in one step.
Goes(l) ==
    \/ phase[l] \in Busy /\ phase' = [phase EXCEPT ![l] = "ended"] /\ running[l] = FALSE /\ UNCHANGED running
    \/ phase[l] \in Busy /\ UNCHANGED running /\ \E p \in Busy : phase' = [phase EXCEPT ![l] = p]
    \/ phase[l] = "listed" /\ phase' = [phase EXCEPT ![l] = "head"] /\ running' = [running EXCEPT ![l] = TRUE]
    \/ phase[l] = "unborn" /\ phase' = [phase EXCEPT ![l] = "built"] /\ UNCHANGED running
    \/ phase[l] = "built" /\ phase' = [phase EXCEPT ![l] = "listed"] /\ UNCHANGED running
    \/ phase[l] = "ended" /\ phase' = [phase EXCEPT ![l] = "left"] /\ UNCHANGED running
    \/ phase[l] = "left" /\ phase' = [phase EXCEPT ![l] = "gone"] /\ UNCHANGED running

Threads == \/ UNCHANGED <<phase, running>>
           \/ stage' = "stopped" /\ UNCHANGED phase
           \/ \E l \in Loops : Goes(l)

LEMMA ThreadConduct ==
    ASSUME [Next]_vars, Ranges, Flags
    PROVE  Threads
<1> USE DEF loopVars, tcpVars, drainVars, At, InBatch, Busy
<1>1. ASSUME NEW l \in Loops, LoopStep(l) PROVE Threads
    <2>1. CASE Turn(l)
        <3>1. running[l] = TRUE \/ running[l] = FALSE
            BY DEF Flags
        <3> QED BY <2>1, <3>1 DEF Turn, Threads, Goes
    <2>2. CASE RunLoop(l)
        BY <2>2 DEF RunLoop, Threads, Goes
    <2>3. CASE EpollWait(l) \/ Wakeup(l) \/ EndBatch(l) \/ AcceptDone(l)
        BY <2>3 DEF EpollWait, Wakeup, EndBatch, AcceptDone, Threads, Goes
    <2>4. CASE Listen(l) \/ Register(l) \/ Leave(l) \/ Destroy(l)
        BY <2>4 DEF Listen, Register, Leave, Destroy, Threads, Goes
    <2>5. CASE Task(l)
        BY <2>5 DEF Task, TakeTask, Threads
    <2> QED BY <1>1, <2>1, <2>2, <2>3, <2>4, <2>5 DEF LoopStep
<1>2. ASSUME NEW l \in Loops, NEW c \in Clients, ServerStep(l, c) PROVE Threads
    BY <1>2 DEF ServerStep, Accept, Count, Refuse, Threads, Goes
<1>3. ASSUME NEW l \in Loops, NEW c \in Clients, ClientStep(l, c) PROVE Threads
    BY <1>3 DEF ClientStep, Connect, Close, Ask, Threads, Goes
<1>4. CASE InitiateDrain \/ DrainTimer
    BY <1>4, LoopAssumption DEF InitiateDrain, DrainTimer, Threads, Goes
<1>5. CASE StopLoops
    BY <1>5 DEF StopLoops, Threads
<1>6. CASE PoolsJoined \/ Signal \/ UNCHANGED vars
    BY <1>6 DEF PoolsJoined, Signal, vars, Threads
<1>7. ASSUME NEW c \in Clients, RunJob(c) \/ ThrowJob(c) PROVE Threads
    BY <1>7 DEF RunJob, ThrowJob, Threads
<1> QED BY <1>1, <1>2, <1>3, <1>4, <1>5, <1>6, <1>7 DEF Next, ThreadStep, DrainStep

LEMMA EndsKept ==
    ASSUME Ends, DrainOnce, Drainage, Threads, Ranges, Flags
    PROVE  Ends'
<1>1. stage = "stopped" => stage' = "stopped"
    BY StageMoves DEF Closes
<1>2. CASE stage' = "stopped"
    BY <1>2 DEF Ends
<1>3. CASE stage' # "stopped"
    <2>1. stage # "stopped"
        BY <1>1, <1>3
    <2>2. CASE UNCHANGED <<phase, running>>
        BY <2>1, <2>2 DEF Ends
    <2>3. ASSUME NEW l \in Loops, Goes(l) PROVE Ends'
        BY <2>1, <2>3 DEF Goes, Ends, Busy, Over, Ranges, Flags
    <2> QED BY <1>3, <2>2, <2>3 DEF Threads
<1> QED BY <1>2, <1>3

LEMMA ListsKept ==
    ASSUME Lists, Ranges, [Next]_vars
    PROVE  Lists'
<1> USE DEF loopVars, tcpVars, drainVars, At, InBatch, Lists, Ranges
<1>1. ASSUME NEW l \in Loops, LoopStep(l) PROVE Lists'
    <2>1. CASE Register(l)
        BY <2>1 DEF Register
    <2>2. CASE Leave(l)
        BY <2>2 DEF Leave
    <2>3. CASE Task(l)
        BY <2>3 DEF Task, TakeTask, Poll, Resume
    <2>4. CASE Destroy(l) /\ UNCHANGED <<drainVars, job>>
        BY <2>4 DEF Destroy
    <2>5. CASE UNCHANGED drainVars /\ (RunLoop(l) \/ Turn(l) \/ EpollWait(l) \/ Wakeup(l) \/ EndBatch(l))
        BY <2>5 DEF RunLoop, Turn, EpollWait, Wakeup, EndBatch
    <2>6. CASE UNCHANGED drainVars /\ (AcceptDone(l) \/ Listen(l))
        BY <2>6 DEF AcceptDone, Listen
    <2> QED BY <1>1, <2>1, <2>2, <2>3, <2>4, <2>5, <2>6 DEF LoopStep
<1>2. ASSUME NEW l \in Loops, NEW c \in Clients, ServerStep(l, c) PROVE Lists'
    BY <1>2 DEF ServerStep, Accept, Count, Refuse
<1>3. ASSUME NEW l \in Loops, NEW c \in Clients, ClientStep(l, c) PROVE Lists'
    BY <1>3 DEF ClientStep, Connect, Close, Ask
<1>4. CASE DrainStep \/ Signal \/ UNCHANGED vars
    BY <1>4 DEF DrainStep, Signal, InitiateDrain, DrainTimer, Poll, PoolsJoined, StopLoops, vars
<1>5. ASSUME NEW c \in Clients, RunJob(c) \/ ThrowJob(c) PROVE Lists'
    BY <1>5 DEF RunJob, ThrowJob
<1> QED BY <1>1, <1>2, <1>3, <1>4, <1>5 DEF Next, ThreadStep

-----------------------------------------------------------------------------
Inv == Ranges /\ Flags /\ Places /\ CountIsExact /\ DrainOnce /\ Ends /\ Idle /\ Lists /\ Quiet

LEMMA InvInit == Init => Inv
<1> SUFFICES ASSUME Init PROVE Inv
    OBVIOUS
<1>1. Counted = {}
    BY DEF Init, TcpInit, Counted
<1>2. Places /\ CountIsExact
    BY <1>1, FS_EmptySet, LoopAssumption DEF Init, TcpInit, Places, Conns, CountIsExact
<1>3. Ranges
    BY LoopAssumption, GraceAssumption DEF Init, LoopInit, Ranges, Phases, Stages, Jobs
<1>4. Flags
    BY Zenon DEF Init, LoopInit, TcpInit, Flags
<1>5. DrainOnce
    BY NothingPosted, LoopAssumption DEF Init, LoopInit, DrainOnce, Clear
<1>6. Ends /\ Idle /\ Lists /\ Quiet
    BY DEF Init, LoopInit, Ends, Idle, Lists, Quiet, Busy, Over
<1> QED BY <1>2, <1>3, <1>4, <1>5, <1>6 DEF Inv

LEMMA InvNext == Inv /\ [Next]_vars => Inv'
<1> SUFFICES ASSUME Inv, [Next]_vars PROVE Inv'
    OBVIOUS
<1>1. Conduct
    BY ServerConduct DEF Inv, vars, tcpVars, Conduct, Stands
<1>2. Drainage /\ Threads
    BY DrainConduct, ThreadConduct DEF Inv
<1> QED BY <1>1, <1>2, CountKept, RangesKept, FlagsKept, DrainKept, EndsKept, IdleKept, ListsKept, QuietKept DEF Inv

\* For any number of loops and clients, neither the pool nor the drain posts
\* to a loop that has been destroyed.
THEOREM NobodyPostsToTheDead == Spec => []NoPostToTheDead
<1>1. Inv => NoPostToTheDead
    <2> SUFFICES ASSUME Inv PROVE NoPostToTheDead
        OBVIOUS
    <2>1. ASSUME NEW c \in Clients, job[c] = "asked" PROVE phase[at[c]] # "gone"
        BY <2>1 DEF Inv, Idle, Ends, Over, Places
    <2> QED BY <2>1 DEF Inv, Lists, NoPostToTheDead
<1> QED BY <1>1, InvInit, InvNext, PTL DEF Spec

(***************************************************************************)
(* The promise.                                                            *)
(***************************************************************************)
EarlyOnes == {c \in Clients : conn[c] = "open"}
LateOnes  == {c \in Clients : conn[c] = "late"}
Life      == IF stage = "serving" THEN "up" ELSE IF polls = Grace THEN "expired" ELSE "draining"

LEMMA Room ==
    ASSUME CountIsExact, count < MaxConnections, Places
    PROVE  Cardinality(EarlyOnes \cup LateOnes) < MaxConnections
<1>1. EarlyOnes \cup LateOnes \subseteq Counted
    BY DEF EarlyOnes, LateOnes, Counted
<1>2. Cardinality(EarlyOnes \cup LateOnes) <= Cardinality(Counted)
    BY <1>1, CountedIsFinite, FS_Subset
<1>3. Cardinality(EarlyOnes \cup LateOnes) \in Nat
    BY <1>1, CountedIsFinite, FS_Subset, FS_CardinalityType
<1> QED BY <1>2, <1>3, LimitAssumption DEF CountIsExact, Places

\* Time and people never move in the same step.
LEMMA OneThing ==
    ASSUME Inv, [Next]_vars
    PROVE  \/ UNCHANGED conn
           \/ UNCHANGED <<stage, polls>>
<1> USE DEF loopVars, tcpVars, drainVars
<1>1. ASSUME NEW l \in Loops, LoopStep(l) PROVE UNCHANGED conn \/ UNCHANGED <<stage, polls>>
    BY <1>1 DEF LoopStep, Task, StopAccepting, Resume, Register, Leave
<1>2. ASSUME NEW l \in Loops, NEW c \in Clients, ServerStep(l, c) \/ ClientStep(l, c)
      PROVE  UNCHANGED conn \/ UNCHANGED <<stage, polls>>
    BY <1>2 DEF ServerStep, ClientStep, Ask
<1>3. CASE DrainStep \/ Signal \/ UNCHANGED vars
    BY <1>3 DEF DrainStep, InitiateDrain, DrainTimer, PoolsJoined, StopLoops, Signal, vars
<1>4. ASSUME NEW c \in Clients, RunJob(c) \/ ThrowJob(c) PROVE UNCHANGED conn
    BY <1>4 DEF RunJob, ThrowJob
<1> QED BY <1>1, <1>2, <1>3, <1>4 DEF Next, ThreadStep

LEMMA TimePasses ==
    ASSUME Inv, [Next]_vars, UNCHANGED conn
    PROVE  [Promise!ServiceNext]_<<Life, EarlyOnes, LateOnes>>
<1> USE DEF Inv
<1>1. UNCHANGED <<EarlyOnes, LateOnes>>
    BY DEF EarlyOnes, LateOnes
<1>2. Drainage
    BY DrainConduct
<1>3. CASE stage' = stage /\ UNCHANGED polls
    BY <1>1, <1>3 DEF Life
<1>4. CASE InitiateDrain
    <2>1. Life = "up" /\ Life' = "draining"
        BY <1>4, GraceAssumption DEF InitiateDrain, Life, DrainOnce
    <2> QED BY <1>1, <2>1 DEF Promise!ServiceNext, Promise!Drain, Life, EarlyOnes, LateOnes
<1>5. CASE Polls
    <2>1. stage = "draining" /\ stage' \in {"draining", "closing"}
        BY <1>5, PollsInDrain DEF Polls, Poll
    <2>2. polls' = polls \/ polls # Grace
        BY <1>5 DEF Polls, Poll
    <2>3. Life' = Life \/ (Life = "draining" /\ Life' = "expired")
        BY <2>1, <2>2 DEF Life
    <2> QED BY <1>1, <2>3 DEF Promise!ServiceNext, Promise!Expire, Life, EarlyOnes, LateOnes
<1>6. CASE Closes
    BY <1>1, <1>6 DEF Closes, Life
<1> QED BY <1>2, <1>3, <1>4, <1>5, <1>6 DEF Drainage, Rests, Same, Hurts, Swaps, Takes, Adds

LEMMA PeopleMove ==
    ASSUME Inv, [Next]_vars, UNCHANGED <<stage, polls>>
    PROVE  [Promise!ServiceNext]_<<Life, EarlyOnes, LateOnes>>
<1> USE DEF Inv
<1>1. UNCHANGED Life
    BY DEF Life
<1>2. Conduct
    BY ServerConduct DEF vars, tcpVars, Conduct, Stands
<1>3. CASE Stands
    BY <1>1, <1>3 DEF Stands, EarlyOnes, LateOnes
<1>4. ASSUME NEW l \in Loops, NEW c \in Clients, Comes(c, l) \/ Taken(c) PROVE UNCHANGED <<EarlyOnes, LateOnes>>
    BY <1>4 DEF Comes, Taken, Moves, Places, EarlyOnes, LateOnes
<1>5. ASSUME NEW c \in Clients, Counts(c) PROVE [Promise!ServiceNext]_<<Life, EarlyOnes, LateOnes>>
    <2>1. CASE conn' = [conn EXCEPT ![c] = "refusing"]
        <3>1. UNCHANGED <<EarlyOnes, LateOnes>>
            BY <1>5, <2>1 DEF Counts, Places, EarlyOnes, LateOnes
        <3> QED BY <1>1, <3>1
    <2>2. CASE count < MaxConnections /\ conn' = [conn EXCEPT ![c] = IF stage = "serving" THEN "open" ELSE "late"]
        <3>1. c \notin EarlyOnes \cup LateOnes
            BY <1>5 DEF Counts, EarlyOnes, LateOnes
        <3>2. IF Life = "up" THEN EarlyOnes' = EarlyOnes \cup {c} /\ UNCHANGED LateOnes
              ELSE LateOnes' = LateOnes \cup {c} /\ UNCHANGED EarlyOnes
            BY <1>5, <2>2 DEF Counts, Places, Life, EarlyOnes, LateOnes
        <3>3. Cardinality(EarlyOnes \cup LateOnes) < MaxConnections
            BY <2>2, Room
        <3>4. Promise!Cardinality(EarlyOnes \cup LateOnes) < MaxConnections
            BY <3>3 DEF Promise!Cardinality, Cardinality
        <3>5. Promise!Admit(c)
            <4>1. CASE Life = "up"
                <5>1. EarlyOnes' = EarlyOnes \cup {c} /\ LateOnes' = LateOnes
                    BY <3>2, <4>1
                <5> QED BY <1>1, <3>1, <3>4, <4>1, <5>1, Zenon DEF Promise!Admit, Life, EarlyOnes, LateOnes
            <4>2. CASE Life # "up"
                <5>1. LateOnes' = LateOnes \cup {c} /\ EarlyOnes' = EarlyOnes
                    BY <3>2, <4>2
                <5> QED BY <1>1, <3>1, <3>4, <4>2, <5>1, Zenon DEF Promise!Admit, Life, EarlyOnes, LateOnes
            <4> QED BY <4>1, <4>2
        <3> QED BY <3>5 DEF Promise!ServiceNext
    <2> QED BY <1>5, <2>1, <2>2 DEF Counts
<1>6. ASSUME NEW c \in Clients, Frees(c) PROVE [Promise!ServiceNext]_<<Life, EarlyOnes, LateOnes>>
    <2>1. EarlyOnes' = EarlyOnes \ {c} /\ LateOnes' = LateOnes \ {c}
        BY <1>6 DEF Frees, Moves, Places, Open, EarlyOnes, LateOnes
    <2> QED BY <1>1, <2>1 DEF Promise!ServiceNext, Promise!Depart, Life, EarlyOnes, LateOnes
<1>7. ASSUME NEW l \in Loops, Hears(l) PROVE UNCHANGED <<EarlyOnes, LateOnes>>
    BY <1>7 DEF Hears, In, Places, EarlyOnes, LateOnes
<1>8. ASSUME NEW l \in Loops, Drops(l) PROVE [Promise!ServiceNext]_<<Life, EarlyOnes, LateOnes>>
    <2> DEFINE cs == {c \in Clients : at[c] = l /\ c \in Open}
    <2>1. stage = "stopped"
        BY <1>8 DEF Drops, Ends, Over
    <2>2. Life = "expired" \/ cs \cap EarlyOnes = {}
        BY <2>1 DEF Life, Quiet, EarlyOnes
    <2>3. EarlyOnes' = EarlyOnes \ cs /\ LateOnes' = LateOnes \ cs
        BY <1>8 DEF Drops, In, Open, Places, EarlyOnes, LateOnes
    <2>4. Life # "up"
        BY <2>1 DEF Life
    <2>5. cs \in SUBSET Clients
        OBVIOUS
    <2> HIDE DEF cs
    <2> QED BY <1>1, <2>2, <2>3, <2>4, <2>5 DEF Promise!ServiceNext, Promise!Abandon, Life, EarlyOnes, LateOnes
<1> QED BY <1>1, <1>2, <1>3, <1>4, <1>5, <1>6, <1>7, <1>8, LoopAssumption DEF Conduct

\* The server implements Service: the limit holds whatever loops accept at
\* once, and nobody who came in before the signal is put out by the shutdown
\* before the grace period is over.
THEOREM PromiseKept == Spec => KeepsItsPromise
<1>1. Init => Promise!ServiceInit
    BY DEF Init, TcpInit, Promise!ServiceInit
<1>2. Inv /\ [Next]_vars => [Promise!ServiceNext]_Promise!serviceVars
    <2> SUFFICES ASSUME Inv, [Next]_vars PROVE [Promise!ServiceNext]_<<Life, EarlyOnes, LateOnes>>
        BY DEF Promise!serviceVars, Life, EarlyOnes, LateOnes
    <2> QED BY OneThing, TimePasses, PeopleMove
<1> QED BY <1>1, <1>2, InvInit, InvNext, PTL DEF Spec, KeepsItsPromise, Promise!ServiceSpec

-----------------------------------------------------------------------------
(***************************************************************************)
(* Nobody sleeps over something to do.  A thread takes its tasks before it *)
(* sleeps, and whatever is posted to it after that finds the eventfd set   *)
(* until it wakes up.                                                      *)
(***************************************************************************)
Awake == \A l \in Loops :
    phase[l] \in {"tasks", "poll"} /\ (queue[l] # <<>> \/ running[l] = FALSE) => woken[l] = TRUE
Between == \A l \in Loops : current[l] # <<>> => phase[l] = "tasks"
Halted == \A l \in Loops : phase[l] \in Over => running[l] = FALSE

\* What a step may do to a loop.
Rouses(k) ==
    \/ UNCHANGED <<phase[k], queue[k], running[k], woken[k]>> /\ (phase[k] = "tasks" \/ UNCHANGED current[k])
    \/ phase[k] # "tasks" /\ phase'[k] \notin {"tasks", "poll"} /\ UNCHANGED current[k]
    \/ woken'[k] = TRUE /\ UNCHANGED <<phase[k], current[k]>>
    \/ phase[k] = "head" /\ phase'[k] = "tasks" /\ running'[k] = TRUE /\ queue'[k] = <<>>
    \/ /\ phase[k] = "tasks" /\ phase'[k] = "poll" /\ current[k] = <<>>
       /\ UNCHANGED <<queue[k], running[k], woken[k], current[k]>>

LEMMA EachRouses ==
    ASSUME [Next]_vars, Ranges, Flags, NEW k \in Loops
    PROVE  Rouses(k)
<1> USE DEF loopVars, tcpVars, drainVars, At, InBatch, Ranges, Flags
<1>1. ASSUME NEW l \in Loops, LoopStep(l) PROVE Rouses(k)
    <2>1. CASE Turn(l)
        <3>1. CASE running[l] = TRUE
            BY <2>1, <3>1 DEF Turn, Rouses
        <3>2. CASE running[l] = FALSE
            BY <2>1, <3>2 DEF Turn, Rouses
        <3> QED BY <3>1, <3>2
    <2>2. CASE RunLoop(l)
        BY <2>2 DEF RunLoop, Rouses
    <2>3. CASE EpollWait(l)
        BY <2>3 DEF EpollWait, Rouses
    <2>4. CASE Wakeup(l)
        BY <2>4 DEF Wakeup, Rouses
    <2>5. CASE EndBatch(l) \/ AcceptDone(l)
        BY <2>5 DEF EndBatch, AcceptDone, Rouses
    <2>6. CASE Listen(l) \/ Destroy(l)
        BY <2>6 DEF Listen, Destroy, Rouses
    <2>7. CASE Register(l) \/ Leave(l)
        BY <2>7 DEF Register, Leave, Rouses
    <2>8. CASE Task(l)
        <3>1. PICK t : TakeTask(l, t)
            BY <2>8 DEF Task
        <3> QED BY <3>1 DEF TakeTask, Rouses
    <2> QED BY <1>1, <2>1, <2>2, <2>3, <2>4, <2>5, <2>6, <2>7, <2>8 DEF LoopStep
<1>2. ASSUME NEW l \in Loops, NEW c \in Clients, ServerStep(l, c) PROVE Rouses(k)
    BY <1>2 DEF ServerStep, Accept, Count, Refuse, Rouses
<1>3. ASSUME NEW l \in Loops, NEW c \in Clients, ClientStep(l, c) PROVE Rouses(k)
    BY <1>3 DEF ClientStep, Connect, Close, Ask, Rouses
<1>4. CASE InitiateDrain
    <2>1. k = Main \/ k \in servers => woken'[k] = TRUE
        BY <1>4, Zenon DEF InitiateDrain
    <2>2. k # Main /\ k \notin servers => UNCHANGED <<queue[k], woken[k]>>
        BY <1>4 DEF InitiateDrain
    <2>3. IF k = Main THEN phase'[k] = "batch" ELSE UNCHANGED phase[k]
        BY <1>4 DEF InitiateDrain
    <2> QED BY <1>4, <2>1, <2>2, <2>3 DEF InitiateDrain, Rouses
<1>5. CASE DrainTimer
    BY <1>5, LoopAssumption DEF DrainTimer, Rouses
<1>6. CASE StopLoops
    <2>1. k \in loops => woken'[k] = TRUE
        BY <1>6, Zenon DEF StopLoops, StopAll
    <2>2. k \notin loops => UNCHANGED <<running[k], woken[k]>>
        BY <1>6 DEF StopLoops, StopAll
    <2> QED BY <1>6, <2>1, <2>2 DEF StopLoops, Rouses
<1>7. CASE PoolsJoined \/ Signal \/ UNCHANGED vars
    BY <1>7 DEF PoolsJoined, Signal, vars, Rouses
<1>8. ASSUME NEW c \in Clients, RunJob(c) PROVE Rouses(k)
    <2>1. k = at[c] => woken'[k] = TRUE
        BY <1>8, Zenon DEF RunJob, Post
    <2>2. k # at[c] => UNCHANGED <<queue[k], woken[k]>>
        BY <1>8 DEF RunJob, Post
    <2> QED BY <1>8, <2>1, <2>2 DEF RunJob, Rouses
<1>9. ASSUME NEW c \in Clients, ThrowJob(c) PROVE Rouses(k)
    BY <1>9 DEF ThrowJob, Rouses
<1> QED BY <1>1, <1>2, <1>3, <1>4, <1>5, <1>6, <1>7, <1>8, <1>9 DEF Next, ThreadStep, DrainStep

LEMMA AwakeKept ==
    ASSUME Awake, Between, [Next]_vars, Ranges, Flags
    PROVE  Awake' /\ Between'
BY EachRouses DEF Awake, Between, Rouses

LEMMA HaltedKept ==
    ASSUME Halted, [Next]_vars, Ranges, Flags
    PROVE  Halted'
<1> USE DEF loopVars, tcpVars, drainVars, At, InBatch, Ranges, Flags
<1>1. \A l \in Loops : running[l] = FALSE => running'[l] = FALSE \/ phase'[l] = "head"
    <2>1. ASSUME NEW l \in Loops, LoopStep(l) PROVE UNCHANGED running \/ RunLoop(l)
        BY <2>1 DEF LoopStep, Turn, EpollWait, Wakeup, EndBatch, AcceptDone, Listen, Destroy, Register, Leave,
                    Task, TakeTask
    <2>2. ASSUME NEW l \in Loops, NEW c \in Clients, ServerStep(l, c) \/ ClientStep(l, c) PROVE UNCHANGED running
        BY <2>2 DEF ServerStep, ClientStep, Accept, Count, Refuse, Connect, Close, Ask
    <2>3. DrainStep \/ Signal => UNCHANGED running \/ StopLoops
        BY DEF DrainStep, Signal, InitiateDrain, DrainTimer, PoolsJoined
    <2>4. ASSUME NEW c \in Clients, RunJob(c) \/ ThrowJob(c) PROVE UNCHANGED running
        BY <2>4 DEF RunJob, ThrowJob
    <2>5. StopLoops => \A l \in Loops : running[l] = FALSE => running'[l] = FALSE
        BY Zenon DEF StopLoops, StopAll
    <2>6. ASSUME NEW l \in Loops, RunLoop(l)
          PROVE  \A k \in Loops : running[k] = FALSE => running'[k] = FALSE \/ phase'[k] = "head"
        BY <2>6 DEF RunLoop
    <2>7. UNCHANGED running \/ StopLoops \/ \E l \in Loops : RunLoop(l)
        BY <2>1, <2>2, <2>3, <2>4 DEF Next, ThreadStep, vars
    <2> QED BY <2>5, <2>6, <2>7
<1>2. ASSUME NEW k \in Loops PROVE phase'[k] \in Over => phase[k] \in Over \/ running[k] = FALSE
    <2>1. Threads
        BY ThreadConduct
    <2> QED BY <2>1 DEF Threads, Goes, Over, Busy
<1> QED BY <1>1, <1>2 DEF Halted, Over

\* A loop that counts or refuses a client has it.
Underway == \A l \in Loops : /\ phase[l] = "counting" => In(l, "accepted") # {}
                             /\ phase[l] = "refusing" => In(l, "refusing") # {}

Attends(k) ==
    \/ phase'[k] \notin {"counting", "refusing"}
    \/ UNCHANGED phase[k] /\ \A c \in Clients : at[c] = k /\ conn[c] \in {"accepted", "refusing"} =>
                                UNCHANGED <<at[c], conn[c]>>
    \/ phase'[k] = "counting" /\ \E c \in Clients : at'[c] = k /\ conn'[c] = "accepted"
    \/ phase'[k] = "refusing" /\ \E c \in Clients : at'[c] = k /\ conn'[c] = "refusing"

LEMMA EachAttends ==
    ASSUME [Next]_vars, Ranges, Places, NEW k \in Loops
    PROVE  Attends(k)
<1> USE DEF loopVars, tcpVars, drainVars, At, InBatch, Becomes, In, Open, Ranges, Places, Attends
<1>1. ASSUME NEW l \in Loops, LoopStep(l) PROVE Attends(k)
    <2>1. CASE Turn(l) /\ UNCHANGED tcpVars
        BY <2>1 DEF Turn
    <2>2. CASE (RunLoop(l) \/ EpollWait(l) \/ Wakeup(l) \/ EndBatch(l)) /\ UNCHANGED tcpVars
        BY <2>2 DEF RunLoop, EpollWait, Wakeup, EndBatch
    <2>3. CASE AcceptDone(l) \/ Listen(l) \/ Register(l) \/ Leave(l)
        BY <2>3 DEF AcceptDone, Listen, Register, Leave
    <2>4. CASE Destroy(l)
        BY <2>4 DEF Destroy
    <2>5. CASE Task(l)
        <3>1. UNCHANGED phase
            BY <2>5 DEF Task, TakeTask
        <3>2. \A c \in Clients : conn[c] \in {"accepted", "refusing"} => UNCHANGED <<at[c], conn[c]>>
            BY <2>5 DEF Task, StopAccepting, Resume
        <3> QED BY <3>1, <3>2
    <2> QED BY <1>1, <2>1, <2>2, <2>3, <2>4, <2>5 DEF LoopStep
<1>2. ASSUME NEW l \in Loops, NEW c \in Clients, ServerStep(l, c) PROVE Attends(k)
    <2>1. CASE Accept(l, c)
        BY <2>1 DEF Accept
    <2>2. CASE Count(l, c, IF stage = "serving" THEN "open" ELSE "late")
        BY <2>2 DEF Count
    <2>3. CASE Refuse(l, c)
        BY <2>3 DEF Refuse
    <2> QED BY <1>2, <2>1, <2>2, <2>3 DEF ServerStep
<1>3. ASSUME NEW l \in Loops, NEW c \in Clients, ClientStep(l, c) PROVE Attends(k)
    BY <1>3 DEF ClientStep, Connect, Close, Ask
<1>4. CASE InitiateDrain \/ DrainTimer
    BY <1>4 DEF InitiateDrain, DrainTimer
<1>5. CASE StopLoops \/ PoolsJoined \/ Signal \/ UNCHANGED vars
    BY <1>5 DEF StopLoops, PoolsJoined, Signal, vars
<1>6. ASSUME NEW c \in Clients, RunJob(c) \/ ThrowJob(c) PROVE Attends(k)
    BY <1>6 DEF RunJob, ThrowJob
<1> QED BY <1>1, <1>2, <1>3, <1>4, <1>5, <1>6 DEF Next, ThreadStep, DrainStep

LEMMA UnderwayKept ==
    ASSUME Underway, [Next]_vars, Ranges, Places
    PROVE  Underway'
BY EachAttends DEF Underway, Attends, In

-----------------------------------------------------------------------------
(***************************************************************************)
(* Answers of the database.  A job that has been posted is one task, in    *)
(* the queue or among the current tasks of the loop of its handler, until  *)
(* that loop runs it.                                                      *)
(***************************************************************************)
Has(s, t)  == \E i \in 1..Len(s) : s[i] = t
Once(s, t) == \A i, j \in 1..Len(s) : s[i] = t /\ s[j] = t => i = j

LEMMA HasNothing == \A t : ~Has(<<>>, t) /\ Once(<<>>, t)
BY DEF Has, Once

LEMMA HasPosted ==
    ASSUME NEW s \in Seq(Tasks), NEW t \in Tasks, NEW x
    PROVE  /\ Has(Append(s, t), x) <=> Has(s, x) \/ x = t
           /\ Once(s, x) /\ ~(x = t /\ Has(s, x)) => Once(Append(s, t), x)
<1> DEFINE u == Append(s, t)
<1>1. /\ Len(s) \in Nat /\ Len(u) = Len(s) + 1
      /\ \A i \in 1..Len(s) : u[i] = s[i]
      /\ u[Len(s) + 1] = t
    OBVIOUS
<1> HIDE DEF u
<1>2. Has(u, x) <=> Has(s, x) \/ x = t
    BY <1>1 DEF Has
<1>3. Once(s, x) /\ ~(x = t /\ Has(s, x)) => Once(u, x)
    BY <1>1 DEF Has, Once
<1> QED BY <1>2, <1>3 DEF u

LEMMA TaskKept ==
    ASSUME NEW s \in Seq(Tasks), s # <<>>, NEW x, Has(s, x), Head(s) # x
    PROVE  Has(Tail(s), x)
<1> DEFINE u == Tail(s)
<1>1. /\ Head(s) = s[1] /\ Len(s) \in Nat \ {0} /\ Len(u) = Len(s) - 1
      /\ \A i \in 1..Len(u) : u[i] = s[i + 1]
    BY TaskTaken
<1> HIDE DEF u
<1>2. PICK i \in 1..Len(s) : s[i] = x
    BY DEF Has
<1>3. i - 1 \in 1..Len(u) /\ u[i - 1] = x
    BY <1>1, <1>2
<1>4. Has(u, x)
    BY <1>3 DEF Has
<1> QED BY <1>4 DEF u

LEMMA HasTaken ==
    ASSUME NEW s \in Seq(Tasks), s # <<>>, NEW x, Once(s, x)
    PROVE  /\ Once(Tail(s), x)
           /\ Has(Tail(s), x) <=> Has(s, x) /\ Head(s) # x
           /\ Head(s) = x => Has(s, x)
<1> DEFINE u == Tail(s)
<1>1. /\ Head(s) = s[1] /\ Len(s) \in Nat \ {0} /\ Len(u) = Len(s) - 1
      /\ \A i \in 1..Len(u) : u[i] = s[i + 1]
    BY TaskTaken
<1> HIDE DEF u
<1>2. Once(u, x)
    BY <1>1 DEF Once
<1>3. Has(u, x) => Has(s, x) /\ s[1] # x
    BY <1>1 DEF Has, Once
<1>4. Has(s, x) /\ s[1] # x => Has(u, x)
    BY <1>1, TaskKept DEF u
<1>5. Head(s) = x => Has(s, x)
    BY <1>1 DEF Has
<1> QED BY <1>1, <1>2, <1>3, <1>4, <1>5 DEF u

\* Where the task of c may be, and that it is there.
Queued(c, l)  == Has(queue[l], ResumeTask(c))
Current(c, l) == Has(current[l], ResumeTask(c))
Posted ==
    /\ \A c \in Clients, l \in Loops :
         /\ Queued(c, l) \/ Current(c, l) => job[c] = "posted" /\ at[c] = l
         /\ ~(Queued(c, l) /\ Current(c, l))
         /\ Once(queue[l], ResumeTask(c)) /\ Once(current[l], ResumeTask(c))
    /\ \A c \in Clients : job[c] = "posted" => Queued(c, at[c]) \/ Current(c, at[c])
    /\ \A c \in Clients : conn[c] = "away" => job[c] = "none"

\* What a step may do to the queues and the jobs.
Turns(l)   == /\ queue' = [queue EXCEPT ![l] = <<>>] /\ current' = [current EXCEPT ![l] = queue[l]]
              /\ phase[l] = "head" /\ UNCHANGED job
Asks(c)    == conn[c] # "away" /\ job[c] = "none" /\ \E j \in {"asked", "lost"} : job' = [job EXCEPT ![c] = j]
Throws(c)  == job[c] = "asked" /\ job' = [job EXCEPT ![c] = "thrown"]
Replies(c) == /\ job[c] = "asked" /\ job' = [job EXCEPT ![c] = "posted"]
              /\ queue' = [queue EXCEPT ![at[c]] = Append(@, ResumeTask(c))] /\ UNCHANGED current
Runs(l, t) == /\ current[l] # <<>> /\ Head(current[l]) = t
              /\ current' = [current EXCEPT ![l] = Tail(@)] /\ UNCHANGED queue
              /\ \/ t = StopTask /\ UNCHANGED job
                 \/ t = DrainTask /\ Poll /\ UNCHANGED job
                 \/ \E c \in Clients : t = ResumeTask(c) /\ job' = [job EXCEPT ![c] = "answered"]
Errands == \/ UNCHANGED <<queue, current, job>>
           \/ InitiateDrain
           \/ UNCHANGED <<queue, current>> /\ \E c \in Clients : Asks(c) \/ Throws(c)
           \/ \E c \in Clients : Replies(c)
           \/ \E l \in Loops : Turns(l) \/ \E t : Runs(l, t)

LEMMA ErrandConduct ==
    ASSUME [Next]_vars, Ranges, Places
    PROVE  Errands
<1> USE DEF loopVars, tcpVars, drainVars, Ranges, Places
<1>1. ASSUME NEW l \in Loops, LoopStep(l) PROVE Errands
    <2>1. CASE Turn(l) /\ UNCHANGED job
        <3>1. \/ UNCHANGED <<queue, current>>
              \/ queue' = [queue EXCEPT ![l] = <<>>] /\ current' = [current EXCEPT ![l] = queue[l]]
            BY <2>1, Zenon DEF Turn
        <3> QED BY <2>1, <3>1 DEF Turn, Errands, Turns
    <2>2. CASE Task(l)
        <3>1. ASSUME NEW t, TakeTask(l, t), t = StopTask \/ (t = DrainTask /\ Poll), UNCHANGED job PROVE Errands
            <4>1. Runs(l, t)
                BY <3>1 DEF TakeTask, Runs
            <4> QED BY <4>1 DEF Errands
        <3>2. ASSUME NEW c \in Clients, TakeTask(l, ResumeTask(c)), Resume(c) PROVE Errands
            <4>1. Runs(l, ResumeTask(c))
                BY <3>2 DEF TakeTask, Resume, Runs
            <4> QED BY <4>1 DEF Errands
        <3> QED BY <2>2, <3>1, <3>2 DEF Task
    <2>3. CASE UNCHANGED <<queue, current, job>>
        BY <2>3 DEF Errands
    <2> QED BY <1>1, <2>1, <2>2, <2>3 DEF LoopStep, RunLoop, EpollWait, Wakeup, EndBatch, AcceptDone, Listen,
                                        Destroy, Register, Leave
<1>2. ASSUME NEW l \in Loops, NEW c \in Clients, ServerStep(l, c) PROVE Errands
    BY <1>2 DEF ServerStep, Accept, Count, Refuse, Errands
<1>3. ASSUME NEW l \in Loops, NEW c \in Clients, ClientStep(l, c) PROVE Errands
    <2>1. CASE Ask(l, c)
        BY <2>1 DEF Ask, Open, Errands, Asks
    <2> QED BY <1>3, <2>1 DEF ClientStep, Connect, Close, Errands
<1>4. CASE DrainTimer \/ PoolsJoined \/ StopLoops \/ Signal \/ UNCHANGED vars
    BY <1>4 DEF DrainTimer, PoolsJoined, StopLoops, Signal, vars, Errands
<1>5. ASSUME NEW c \in Clients, RunJob(c) PROVE Errands
    <2>1. queue' = [queue EXCEPT ![at[c]] = Append(@, ResumeTask(c))]
        BY <1>5 DEF RunJob, Post
    <2> QED BY <1>5, <2>1 DEF RunJob, Errands, Replies
<1>6. ASSUME NEW c \in Clients, ThrowJob(c) PROVE Errands
    BY <1>6 DEF ThrowJob, Errands, Throws
<1> QED BY <1>1, <1>2, <1>3, <1>4, <1>5, <1>6 DEF Next, ThreadStep, DrainStep, Errands

LEMMA TasksDiffer ==
    /\ StopTask \in Tasks /\ DrainTask \in Tasks /\ StopTask # DrainTask
    /\ \A c \in Clients : ResumeTask(c) \in Tasks /\ ResumeTask(c) \notin {StopTask, DrainTask}
    /\ \A c, d \in Clients : ResumeTask(c) = ResumeTask(d) => c = d
BY DEF Tasks, StopTask, DrainTask, ResumeTask

\* The socket of a client is chosen once, before it can ask for anything.
LEMMA HomesStay ==
    ASSUME Conduct, Places, NEW c \in Clients
    PROVE  /\ at'[c] = at[c] \/ conn[c] = "away"
           /\ conn'[c] = "away" => conn[c] = "away"
<1> USE DEF Places, Open, In
<1>1. CASE Stands
    BY <1>1 DEF Stands
<1>2. ASSUME NEW l \in Loops, NEW d \in Clients, Comes(d, l)
      PROVE  at'[c] = at[c] \/ conn[c] = "away"
    BY <1>2 DEF Comes, Moves
<1>3. ASSUME NEW l \in Loops, NEW d \in Clients, Comes(d, l)
      PROVE  conn'[c] = "away" => conn[c] = "away"
    BY <1>3 DEF Comes, Moves
<1>4. ASSUME NEW d \in Clients, Taken(d) \/ Counts(d) \/ Frees(d)
      PROVE  at' = at /\ (conn'[c] = "away" => conn[c] = "away")
    BY <1>4 DEF Taken, Counts, Frees, Moves
<1>5. ASSUME NEW l \in Loops, Hears(l) \/ Drops(l)
      PROVE  at' = at /\ (conn'[c] = "away" => conn[c] = "away")
    BY <1>5 DEF Hears, Drops
<1> QED BY <1>1, <1>2, <1>3, <1>4, <1>5 DEF Conduct

\* InitiateDrain tells loops to stop, and resumes nobody.
LEMMA DrainResumesNobody ==
    ASSUME InitiateDrain, Ranges, NEW c \in Clients, NEW l \in Loops
    PROVE  /\ Has(queue'[l], ResumeTask(c)) <=> Queued(c, l)
           /\ Once(queue[l], ResumeTask(c)) => Once(queue'[l], ResumeTask(c))
           /\ UNCHANGED <<current, job>>
<1> DEFINE told == IF l \in servers THEN Append(queue[l], StopTask) ELSE queue[l]
           x == ResumeTask(c)
<1>1. queue[l] \in Seq(Tasks)
    BY DEF Ranges
<1>2. /\ told \in Seq(Tasks)
      /\ Has(told, x) <=> Has(queue[l], x)
      /\ Once(queue[l], x) => Once(told, x)
    BY <1>1, HasPosted, TasksDiffer
<1>3. queue'[l] = IF l = Main THEN Append(told, DrainTask) ELSE told
    BY DEF InitiateDrain
<1> HIDE DEF told
<1>4. /\ Has(queue'[l], x) <=> Has(told, x)
      /\ Once(told, x) => Once(queue'[l], x)
    BY <1>2, <1>3, HasPosted, TasksDiffer
<1> QED BY <1>2, <1>4 DEF InitiateDrain, drainVars, tcpVars, Queued

LEMMA PostedKept ==
    ASSUME Posted, Between, Errands, Conduct, Ranges, Places, Places'
    PROVE  Posted'
<1> DEFINE Fits(c, l) ==
             /\ Queued(c, l) \/ Current(c, l) => job[c] = "posted" /\ at[c] = l
             /\ ~(Queued(c, l) /\ Current(c, l))
             /\ Once(queue[l], ResumeTask(c)) /\ Once(current[l], ResumeTask(c))
           There(c) ==
             /\ job[c] = "posted" => Queued(c, at[c]) \/ Current(c, at[c])
             /\ conn[c] = "away" => job[c] = "none"
<1>1. \A c \in Clients : There(c) /\ \A l \in Loops : Fits(c, l)
    BY DEF Posted
<1>2. SUFFICES ASSUME NEW c \in Clients PROVE There(c)' /\ \A l \in Loops : Fits(c, l)'
    BY DEF Posted
<1> DEFINE x == ResumeTask(c)
<1>3. /\ at'[c] = at[c] \/ job[c] = "none"
      /\ conn'[c] = "away" => conn[c] = "away"
      /\ at[c] \in Loops /\ at'[c] \in Loops
    BY <1>1, HomesStay DEF Places
<1>4. /\ \A l \in Loops : queue[l] \in Seq(Tasks) /\ current[l] \in Seq(Tasks)
      /\ job[c] \in Jobs /\ x \in Tasks
    BY TasksDiffer DEF Ranges
<1>5. ASSUME UNCHANGED job[c],
             \A l \in Loops : /\ Queued(c, l)' <=> Queued(c, l)
                              /\ Current(c, l)' <=> Current(c, l)
                              /\ Once(queue[l], x) => Once(queue'[l], x)
                              /\ Once(current[l], x) => Once(current'[l], x)
      PROVE  There(c)' /\ \A l \in Loops : Fits(c, l)'
    BY <1>1, <1>3, <1>5
<1>6. CASE UNCHANGED <<queue, current, job>>
    <2>1. UNCHANGED job[c]
        BY <1>6
    <2>2. \A l \in Loops : /\ Queued(c, l)' <=> Queued(c, l)
                           /\ Current(c, l)' <=> Current(c, l)
                           /\ Once(queue[l], x) => Once(queue'[l], x)
                           /\ Once(current[l], x) => Once(current'[l], x)
        BY <1>6 DEF Queued, Current
    <2> QED BY <1>5, <2>1, <2>2
<1>7. CASE InitiateDrain
    <2>1. UNCHANGED <<current, job>>
        BY <1>7 DEF InitiateDrain, tcpVars
    <2>2. \A l \in Loops : /\ Has(queue'[l], x) <=> Queued(c, l)
                           /\ Once(queue[l], x) => Once(queue'[l], x)
        BY <1>7, DrainResumesNobody
    <2> QED BY <1>5, <2>1, <2>2 DEF Queued, Current
<1>8. ASSUME NEW d \in Clients, Asks(d) \/ Throws(d), UNCHANGED <<queue, current>>
      PROVE  There(c)' /\ \A l \in Loops : Fits(c, l)'
    <2>1. PICK j \in {"asked", "lost", "thrown"} :
              conn[d] # "away" /\ job[d] \in {"none", "asked"} /\ job' = [job EXCEPT ![d] = j]
        BY <1>8 DEF Asks, Throws, Posted
    <2>2. CASE d # c
        <3>1. job'[c] = job[c]
            BY <2>1, <2>2
        <3> QED BY <1>5, <1>8, <3>1 DEF Queued, Current
    <2>3. CASE d = c
        <3>1. job'[c] = j /\ job[c] \in {"none", "asked"} /\ conn[c] # "away"
            BY <2>1, <2>3 DEF Ranges
        <3>2. \A l \in Loops : ~Queued(c, l)' /\ ~Current(c, l)' /\ Once(queue'[l], x) /\ Once(current'[l], x)
            BY <1>1, <1>8, <3>1 DEF Queued, Current
        <3> QED BY <1>3, <3>1, <3>2
    <2> QED BY <2>2, <2>3
<1>9. ASSUME NEW d \in Clients, Replies(d) PROVE There(c)' /\ \A l \in Loops : Fits(c, l)'
    <2>1. /\ job[d] = "asked" /\ job' = [job EXCEPT ![d] = "posted"] /\ UNCHANGED current
          /\ at[d] \in Loops
          /\ \A l \in Loops : queue'[l] = IF l = at[d] THEN Append(queue[l], ResumeTask(d)) ELSE queue[l]
          /\ ResumeTask(d) \in Tasks
        BY <1>9, TasksDiffer DEF Replies, Ranges, Places
    <2>2. CASE d # c
        <3>1. job'[c] = job[c] /\ ResumeTask(d) # x
            BY <2>1, <2>2, TasksDiffer
        <3>2. \A l \in Loops : /\ Has(queue'[l], x) <=> Has(queue[l], x)
                               /\ Once(queue[l], x) => Once(queue'[l], x)
            BY <1>4, <2>1, <3>1, HasPosted
        <3> QED BY <1>5, <2>1, <3>1, <3>2 DEF Queued, Current
    <2>3. CASE d = c
        <3>1. job'[c] = "posted" /\ at'[c] = at[c] /\ conn'[c] # "away"
            BY <1>1, <1>3, <2>1, <2>3 DEF Ranges
        <3>2. \A l \in Loops : ~Queued(c, l) /\ ~Current(c, l) /\ Once(queue[l], x) /\ Once(current[l], x)
            BY <1>1, <2>1, <2>3
        <3>3. \A l \in Loops : /\ Has(queue'[l], x) <=> l = at[c]
                               /\ Once(queue'[l], x)
            BY <1>4, <2>1, <2>3, <3>2, HasPosted DEF Queued
        <3>4. \A l \in Loops : /\ Queued(c, l)' <=> l = at[c]
                               /\ ~Current(c, l)' /\ Once(current'[l], x)
            BY <2>1, <3>2, <3>3 DEF Queued, Current
        <3> QED BY <1>3, <3>1, <3>3, <3>4
    <2> QED BY <2>2, <2>3
<1>10. ASSUME NEW k \in Loops, Turns(k) PROVE There(c)' /\ \A l \in Loops : Fits(c, l)'
    <2>1. current[k] = <<>>
        BY <1>10 DEF Turns, Between
    <2>2. /\ UNCHANGED job
          /\ \A l \in Loops : /\ queue'[l] = IF l = k THEN <<>> ELSE queue[l]
                              /\ current'[l] = IF l = k THEN queue[k] ELSE current[l]
        BY <1>10 DEF Turns, Ranges
    <2>3. ~Queued(c, k)' /\ Once(queue'[k], x) /\ (Current(c, k)' <=> Queued(c, k)) /\ ~Current(c, k)
        BY <2>1, <2>2, HasNothing DEF Queued, Current
    <2>4. \A l \in Loops \ {k} : (Queued(c, l)' <=> Queued(c, l)) /\ (Current(c, l)' <=> Current(c, l))
        BY <2>2 DEF Queued, Current
    <2>5. \A l \in Loops : Once(queue'[l], x) /\ Once(current'[l], x)
        BY <1>1, <2>2, <2>3
    <2> QED BY <1>1, <1>3, <2>2, <2>3, <2>4, <2>5
<1>11. ASSUME NEW k \in Loops, NEW t, Runs(k, t) PROVE There(c)' /\ \A l \in Loops : Fits(c, l)'
    <2>1. /\ current[k] # <<>> /\ Head(current[k]) = t /\ UNCHANGED queue
          /\ \A l \in Loops : current'[l] = IF l = k THEN Tail(current[k]) ELSE current[l]
        BY <1>11 DEF Runs, Ranges
    <2>2. Once(current[k], x)
        BY <1>1
    <2>3. /\ Once(current'[k], x)
          /\ Has(current'[k], x) <=> Has(current[k], x) /\ t # x
          /\ t = x => Has(current[k], x)
        BY <1>4, <2>1, <2>2, HasTaken
    <2>4. \A l \in Loops : Once(queue'[l], x) /\ Once(current'[l], x)
        BY <1>1, <2>1, <2>3
    <2>5. CASE t # x
        <3>1. job'[c] = job[c]
            BY <1>11, <2>5 DEF Runs, Ranges
        <3>2. \A l \in Loops : (Queued(c, l)' <=> Queued(c, l)) /\ (Current(c, l)' <=> Current(c, l))
            BY <2>1, <2>3, <2>5 DEF Queued, Current
        <3> QED BY <1>5, <2>4, <3>1, <3>2
    <2>6. CASE t = x
        <3>1. job'[c] = "answered"
            BY <1>11, <2>6, TasksDiffer DEF Runs, Ranges
        <3>2. Current(c, k) /\ job[c] = "posted" /\ at[c] = k
            BY <1>1, <2>3, <2>6 DEF Current
        <3>3. \A l \in Loops : ~Queued(c, l)' /\ ~Current(c, l)'
            BY <1>1, <2>1, <2>3, <2>6, <3>2 DEF Queued, Current
        <3>4. conn'[c] # "away"
            BY <1>1, <1>3, <3>2
        <3> QED BY <2>4, <3>1, <3>3, <3>4
    <2> QED BY <2>5, <2>6
<1> QED BY <1>6, <1>7, <1>8, <1>9, <1>10, <1>11 DEF Errands

\* The drain goes on: its next poll is a task of the main loop, or the timer.
DrainGoes == stage = "draining" /\ timer = FALSE => Has(queue[Main], DrainTask) \/ Has(current[Main], DrainTask)

LEMMA DrainGoesKept ==
    ASSUME DrainGoes, Between, Errands, Drainage, Ranges, Flags
    PROVE  DrainGoes'
<1> SUFFICES ASSUME stage' = "draining", timer' = FALSE
             PROVE  Has(queue'[Main], DrainTask) \/ Has(current'[Main], DrainTask)
    BY DEF DrainGoes
<1>1. InitiateDrain \/ (stage = "draining" /\ timer = FALSE)
    BY DEF Drainage, Rests, Same, Polls, Poll, Closes, Hurts, Swaps, Takes, Adds
<1>2. queue[Main] \in Seq(Tasks) /\ current[Main] \in Seq(Tasks) /\ Main \in Loops
    BY LoopAssumption DEF Ranges
<1>3. CASE InitiateDrain
    <2> DEFINE told == IF Main \in servers THEN Append(queue[Main], StopTask) ELSE queue[Main]
    <2>1. told \in Seq(Tasks) /\ queue'[Main] = Append(told, DrainTask)
        BY <1>2, <1>3, TasksDiffer DEF InitiateDrain
    <2> HIDE DEF told
    <2> QED BY <2>1, HasPosted, TasksDiffer
<1>4. CASE ~InitiateDrain
    <2>1. Has(queue[Main], DrainTask) \/ Has(current[Main], DrainTask)
        BY <1>1, <1>4 DEF DrainGoes
    <2>2. CASE UNCHANGED <<queue, current>>
        BY <2>1, <2>2
    <2>3. ASSUME NEW c \in Clients, Replies(c)
          PROVE  Has(queue'[Main], DrainTask) \/ Has(current'[Main], DrainTask)
        <3>1. queue'[Main] \in {queue[Main], Append(queue[Main], ResumeTask(c))} /\ UNCHANGED current
            BY <2>3 DEF Replies, Ranges
        <3>2. Has(queue[Main], DrainTask) => Has(Append(queue[Main], ResumeTask(c)), DrainTask)
            BY <1>2, HasPosted, TasksDiffer
        <3>3. CASE queue'[Main] = queue[Main]
            BY <2>1, <3>1, <3>3
        <3>4. CASE queue'[Main] = Append(queue[Main], ResumeTask(c))
            BY <2>1, <3>1, <3>2, <3>4
        <3> QED BY <3>1, <3>3, <3>4
    <2>4. ASSUME NEW l \in Loops, Turns(l)
          PROVE  Has(queue'[Main], DrainTask) \/ Has(current'[Main], DrainTask)
        <3>1. CASE l = Main
            <4>1. current[Main] = <<>> /\ current'[Main] = queue[Main]
                BY <1>2, <2>4, <3>1 DEF Turns, Between, Ranges
            <4>2. ~Has(current[Main], DrainTask)
                BY <4>1, HasNothing
            <4> QED BY <2>1, <4>1, <4>2
        <3>2. CASE l # Main
            BY <2>1, <2>4, <3>2 DEF Turns, Ranges
        <3> QED BY <3>1, <3>2
    <2>5. ASSUME NEW l \in Loops, NEW t, Runs(l, t)
          PROVE  Has(queue'[Main], DrainTask) \/ Has(current'[Main], DrainTask)
        <3>1. t # DrainTask /\ UNCHANGED queue
            BY <2>5, TasksDiffer DEF Runs, Poll
        <3>2. CASE l = Main
            <4>1. current[Main] # <<>> /\ Head(current[Main]) = t /\ current'[Main] = Tail(current[Main])
                BY <1>2, <2>5, <3>2 DEF Runs, Ranges
            <4>2. Has(current[Main], DrainTask) => Has(Tail(current[Main]), DrainTask)
                BY <1>2, <3>1, <4>1, TaskKept
            <4> QED BY <2>1, <3>1, <4>1, <4>2
        <3>3. CASE l # Main
            BY <2>1, <2>5, <3>1, <3>3 DEF Runs, Ranges
        <3> QED BY <3>2, <3>3
    <2> QED BY <1>4, <2>2, <2>3, <2>4, <2>5 DEF Errands
<1> QED BY <1>3, <1>4

-----------------------------------------------------------------------------
LiveInv == Inv /\ Awake /\ Between /\ Halted /\ Underway /\ Posted /\ DrainGoes

LEMMA LiveInit == Init => LiveInv
<1> SUFFICES ASSUME Init PROVE LiveInv
    OBVIOUS
<1>1. Awake /\ Between /\ Halted /\ Underway
    BY DEF Init, LoopInit, Awake, Between, Halted, Over, Underway
<1>2. DrainGoes
    BY DEF Init, DrainGoes
<1>3. Posted
    BY HasNothing DEF Init, LoopInit, Posted, Queued, Current
<1> QED BY <1>1, <1>2, <1>3, InvInit DEF LiveInv

LEMMA LiveNext == LiveInv /\ [Next]_vars => LiveInv'
<1> SUFFICES ASSUME LiveInv, [Next]_vars PROVE LiveInv'
    OBVIOUS
<1>1. Inv /\ Inv'
    BY InvNext DEF LiveInv
<1>2. Ranges /\ Flags /\ Places /\ Places'
    BY <1>1 DEF Inv
<1>3. Conduct
    BY <1>2, ServerConduct DEF vars, tcpVars, Conduct, Stands
<1>4. Errands /\ Drainage
    BY <1>2, ErrandConduct, DrainConduct
<1> QED BY <1>1, <1>2, <1>3, <1>4, AwakeKept, HaltedKept, UnderwayKept, PostedKept, DrainGoesKept DEF LiveInv

\* Loops, the pool and the drain keep what they need to go on: every post()
\* and stop() is noticed, a task is in one place, and the drain has a timer,
\* a task or a turn of its own (app.cpp, event_loop.cpp).
THEOREM LiveInvariant == Spec => []LiveInv
BY LiveInit, LiveNext, PTL DEF Spec

\* No wakeup is lost: a loop in epoll_wait(), or on its way there, that has a
\* task in its queue or has been told to stop finds its eventfd readable,
\* whoever posted it and whatever the thread was doing then
\* (event_loop.cpp: post(), stop(), process_tasks()).
THEOREM LoopsAreWoken == Spec => []Awake
BY LiveInvariant, PTL DEF LiveInv

\* A handler that awaits the database is resumed at most once for each job, on
\* the loop of its connection, and only after the pool has run the job.
ResumedOnce ==
    \A l \in Loops, c \in Clients : TakeTask(l, ResumeTask(c)) =>
        /\ job[c] = "posted" /\ at[c] = l
        /\ \A k \in Loops : ~Queued(c, k)' /\ ~Current(c, k)'

\* The task that post() leaves for a finished job is there, once, in the queue
\* of the loop or in its turn of process_tasks(), from post() until it runs: no
\* queue and no turn drops or doubles it.
THEOREM AnswersComeOnce == Spec => []Posted /\ [][ResumedOnce]_vars
<1>1. LiveInv => Posted
    BY DEF LiveInv
<1>2. LiveInv => ResumedOnce
    <2> SUFFICES ASSUME LiveInv, NEW l \in Loops, NEW c \in Clients, TakeTask(l, ResumeTask(c))
                 PROVE  /\ job[c] = "posted" /\ at[c] = l
                        /\ \A k \in Loops : ~Queued(c, k)' /\ ~Current(c, k)'
        BY DEF ResumedOnce
    <2> DEFINE x == ResumeTask(c)
    <2>1. Ranges /\ Posted
        BY DEF LiveInv, Inv
    <2>2. /\ current[l] \in Seq(Tasks) /\ current[l] # <<>> /\ Head(current[l]) = x /\ UNCHANGED queue
          /\ \A k \in Loops : current'[k] = IF k = l THEN Tail(current[l]) ELSE current[k]
        BY <2>1 DEF TakeTask, Ranges
    <2>3. Once(current[l], x)
        BY <2>1 DEF Posted
    <2>4. Has(current[l], x) /\ ~Has(Tail(current[l]), x)
        BY <2>2, <2>3, HasTaken
    <2>5. Current(c, l)
        BY <2>4 DEF Current
    <2>6. job[c] = "posted" /\ at[c] = l /\ ~Queued(c, l)
        BY <2>1, <2>5 DEF Posted
    <2>7. \A k \in Loops \ {l} : ~Queued(c, k) /\ ~Current(c, k)
        BY <2>1, <2>6 DEF Posted
    <2> QED BY <2>2, <2>4, <2>6, <2>7 DEF Queued, Current
<1> QED BY <1>1, <1>2, LiveInvariant, PTL

(***************************************************************************)
(* The server is never stuck.  What a thread may do, as the guards of its  *)
(* actions say: Ready(l) for the thread of a loop by itself, and what the  *)
(* drain and the pool may do besides.                                      *)
(***************************************************************************)
Ready(l) ==
    \/ phase[l] \in {"unborn", "built", "listed", "head", "left"}
    \/ phase[l] = "ended" /\ (l = Main => \A w \in Loops \ {Main} : phase[w] = "gone")
    \/ phase[l] = "accepting" /\ (In(l, "backlog") = {} \/ Free(l))
    \/ phase[l] = "counting" /\ In(l, "accepted") # {}
    \/ phase[l] = "refusing" /\ In(l, "refusing") # {}
    \/ phase[l] = "tasks" /\ Free(l) /\ (current[l] = <<>> \/ Head(current[l]) \in Tasks)
    \/ phase[l] = "batch" /\ Free(l)
    \/ phase[l] = "poll" /\ woken[l] = TRUE /\ Free(l)

DrainReady ==
    \/ InBatch(Main) /\ signal = "sent"
    \/ InBatch(Main) /\ timer = TRUE /\ Free(Main)
    \/ stage = "closing" /\ \A c \in Clients : job[c] # "asked"
    \/ stage = "closed"

JobReady == \E c \in Clients : job[c] = "asked"

\* A loop that is not in before_stop_() goes on by itself, except that it may
\* sleep while its queue is empty and nobody has stopped it.
LEMMA LoopGoesOn ==
    ASSUME LiveInv, NEW l \in Loops, Free(l)
    PROVE  \/ Ready(l)
           \/ phase[l] = "poll" /\ queue[l] = <<>> /\ running[l] = TRUE
           \/ phase[l] = "gone"
           \/ l = Main /\ phase[l] = "ended" /\ \E w \in Loops \ {Main} : phase[w] # "gone"
<1>1. phase[l] \in Phases /\ current[l] \in Seq(Tasks)
    BY DEF LiveInv, Inv, Ranges
<1>2. phase[l] = "poll" => Ready(l) \/ (queue[l] = <<>> /\ running[l] = TRUE)
    BY DEF LiveInv, Inv, Flags, Awake, Ready
<1>3. phase[l] \in {"counting", "refusing"} => Ready(l)
    BY DEF LiveInv, Underway, Ready
<1>4. phase[l] = "tasks" => Ready(l)
    <2>1. current[l] # <<>> => Head(current[l]) \in Tasks
        BY <1>1
    <2> QED BY <2>1 DEF Ready
<1>5. phase[l] \in {"unborn", "built", "listed", "head", "left", "accepting", "batch"} => Ready(l)
    BY DEF Ready
<1>6. phase[l] = "ended" => Ready(l) \/ (l = Main /\ \E w \in Loops \ {Main} : phase[w] # "gone")
    BY DEF Ready
<1> QED BY <1>1, <1>2, <1>3, <1>4, <1>5, <1>6 DEF Phases

\* From the signal until run() returns some thread can go on: the drain does
\* not lose its timer, no worker that was stopped sleeps, and the join of the
\* main thread waits for threads that can still move.  This is what RunReturns
\* needs of the code besides fair scheduling.
DrainMoves ==
    signal # "none" /\ phase[Main] # "gone" /\ Missed = {} =>
        (\E l \in Loops : Ready(l)) \/ DrainReady \/ JobReady

\* run() is not left hanging between the drain and the join of its workers.
THEOREM DrainNeverStuck == Spec => []DrainMoves
<1>1. LiveInv => DrainMoves
    <2> SUFFICES ASSUME LiveInv, signal # "none", phase[Main] # "gone", Missed = {},
                        ~DrainReady, ~JobReady, \A l \in Loops : ~Ready(l)
                 PROVE  FALSE
        BY DEF DrainMoves
    <2>1. /\ Main \in Loops /\ stage \in Stages /\ signal \in {"none", "sent", "seen"}
          /\ queue[Main] \in Seq(Tasks) /\ timer \in BOOLEAN
        BY LoopAssumption DEF LiveInv, Inv, Ranges, Flags
    <2>2. stage \notin {"closing", "closed"}
        BY DEF DrainReady, JobReady
    <2>3. \A l \in Loops : Free(l)
        BY <2>2 DEF Free
    <2>4. CASE stage = "stopped"
        <3>1. \A l \in Loops : phase[l] = "gone" \/ (l = Main /\ phase[l] = "ended")
            <4> SUFFICES ASSUME NEW l \in Loops PROVE phase[l] = "gone" \/ (l = Main /\ phase[l] = "ended")
                OBVIOUS
            <4>1. running[l] = FALSE
                BY <2>4 DEF Missed, LiveInv, Inv, Flags
            <4> QED BY <2>3, <4>1, LoopGoesOn
        <3> QED BY <2>1, <3>1 DEF Ready
    <2>5. CASE stage # "stopped"
        <3>1. phase[Main] \notin Over
            BY <2>1, <2>5 DEF LiveInv, Inv, Ends
        <3>2. phase[Main] = "poll" /\ queue[Main] = <<>>
            BY <2>1, <2>3, <3>1, LoopGoesOn DEF Over
        <3>3. signal = "seen" /\ timer = FALSE
            BY <2>1, <2>3, <3>2 DEF DrainReady, InBatch
        <3>4. stage = "draining"
            BY <2>1, <2>2, <2>5, <3>3 DEF LiveInv, Inv, DrainOnce, Stages
        <3>5. current[Main] = <<>>
            BY <2>1, <3>2 DEF LiveInv, Between
        <3> QED BY <3>2, <3>3, <3>4, <3>5, HasNothing DEF LiveInv, DrainGoes
    <2> QED BY <2>4, <2>5
<1> QED BY <1>1, LiveInvariant, PTL

\* An answer of the database is never left behind: as long as its loop runs,
\* the thread of that loop can go on, or is the main one in before_stop_(),
\* which the drain ends.  This is what AnswersArrive needs besides fairness.
AnswersMove ==
    \A c \in Clients : job[c] = "posted" /\ running[at[c]] = TRUE =>
        \/ Ready(at[c])
        \/ at[c] = Main /\ (DrainReady \/ JobReady)

\* A loop does not stop with an answer in its hands.
THEOREM AnswersNeverStuck == Spec => []AnswersMove
<1>1. LiveInv => AnswersMove
    <2> SUFFICES ASSUME LiveInv, NEW c \in Clients, job[c] = "posted", running[at[c]] = TRUE
                 PROVE  Ready(at[c]) \/ (at[c] = Main /\ (DrainReady \/ JobReady))
        BY DEF AnswersMove
    <2> DEFINE l == at[c]
    <2>1. l \in Loops
        BY DEF LiveInv, Inv, Places
    <2>2. CASE ~Free(l)
        BY <2>2 DEF Free, DrainReady, JobReady
    <2>3. CASE Free(l)
        <3>1. phase[l] \notin Over
            BY <2>1 DEF LiveInv, Halted
        <3>2. phase[l] = "poll" => queue[l] # <<>>
            <4>1. Queued(c, l) \/ Current(c, l)
                BY <2>1 DEF LiveInv, Posted
            <4>2. phase[l] = "poll" => current[l] = <<>>
                BY <2>1 DEF LiveInv, Between
            <4> QED BY <4>1, <4>2, HasNothing DEF Queued, Current
        <3> QED BY <2>1, <2>3, <3>1, <3>2, LoopGoesOn DEF Over
    <2> QED BY <2>2, <2>3
<1> QED BY <1>1, LiveInvariant, PTL
=============================================================================
