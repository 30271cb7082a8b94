------------------------ MODULE TransactionsProofs --------------------------
(***************************************************************************)
(* Proofs about Transactions: for any number of handlers, connections and  *)
(* calls, any engine and any workload, a transaction stays on the worker   *)
(* that opened it, and a handler that returns leaves none open.            *)
(* Requests that come one after another inherit none, find their own last  *)
(* identifier and, on links that stay up, never lose theirs in silence.    *)
(***************************************************************************)
EXTENDS Transactions, TLAPS

Replies == [ok : BOOLEAN, used : Workers \cup {None}]

(***************************************************************************)
(* What a job may do to the transaction of the connection it runs on.      *)
(***************************************************************************)
LEMMA OutcomeFacts ==
    ASSUME load \in Loads, NEW w \in Workers, NEW h \in Callers,
           NEW o \in Outcomes(w, h)
    PROVE  /\ o.tx \in {None, tx[w], h}
           /\ op[h] = "rollback" => o.tx = None
           /\ op[h] = "commit" => o.tx = None \/ o.ok = FALSE
           /\ o.tx = h /\ tx[w] # h => op[h] = "begin" /\ o.ok = TRUE
           /\ o.ok = TRUE \/ o.ok = FALSE
<1>1. h # None
    BY LoadsAssumption
<1>2. load.engine \in {"sqlite", "postgres", "mysql"}
    BY LoadsAssumption, Zenon DEF Workload
<1> DEFINE N(b) == Outcome(b, None)
           S(b) == Outcome(b, tx[w])
<1>3. CASE op[h] = "begin"
    <2>1. o \in Begin(w, h) \cup Failures(w)
        BY <1>3 DEF Outcomes
    <2>2. o \in {Outcome(TRUE, h), S(FALSE), S(TRUE), N(FALSE)}
        <3>1. Failures(w) = {S(FALSE), N(FALSE)}
            BY DEF Failures
        <3>2. CASE tx[w] = None
            BY <2>1, <3>1, <3>2 DEF Begin
        <3>3. CASE tx[w] # None
            <4> DEFINE r == [sqlite |-> S(FALSE), postgres |-> S(TRUE), mysql |-> Outcome(TRUE, h)]
            <4>1. r[load.engine] \in {S(FALSE), S(TRUE), Outcome(TRUE, h)}
                <5>1. /\ r["sqlite"] = S(FALSE)
                      /\ r["postgres"] = S(TRUE)
                      /\ r["mysql"] = Outcome(TRUE, h)
                    OBVIOUS
                <5> HIDE DEF r, S
                <5> QED BY <1>2, <5>1
            <4>2. Begin(w, h) = {r[load.engine]}
                BY <3>3, Zenon DEF Begin
            <4> HIDE DEF r
            <4> QED BY <2>1, <3>1, <4>1, <4>2
        <3> QED BY <3>2, <3>3
    <2> QED BY <1>1, <1>3, <2>2 DEF Outcome
<1>4. End(w) \subseteq {N(TRUE), N(FALSE)}
    BY Zenon DEF End
<1>5. CASE op[h] = "commit"
    <2>1. o \in End(w) \cup Failures(w)
        BY <1>5 DEF Outcomes
    <2>2. o \in {N(TRUE), N(FALSE), S(FALSE)}
        BY <2>1, <1>4 DEF Failures
    <2> QED BY <1>1, <1>5, <2>2 DEF Outcome
<1>6. CASE op[h] = "rollback"
    <2>1. o \in End(w) \cup {N(FALSE)}
        BY <1>6 DEF Outcomes
    <2>2. o \in {N(TRUE), N(FALSE)}
        BY <2>1, <1>4
    <2> QED BY <1>1, <1>6, <2>2 DEF Outcome
<1>7. CASE op[h] \notin {"begin", "commit", "rollback"}
    <2>1. o \in {S(TRUE)} \cup Failures(w)
        BY <1>7 DEF Outcomes
    <2>2. o \in {S(TRUE), S(FALSE), N(FALSE)}
        BY <2>1 DEF Failures
    <2> QED BY <1>1, <1>7, <2>2 DEF Outcome
<1> QED BY <1>3, <1>5, <1>6, <1>7

(***************************************************************************)
(* The inductive invariant behind the types and OnOwnConnection. TypeOK is *)
(* taken apart: Ranges, and Flags for the Boolean variables.               *)
(***************************************************************************)
Phases == {"idle", "running", "db", "sleeping", "rolling", "done"}
States == {"running", "queued", "lost", "posted"}

Ranges ==
    /\ caller \in [Callers -> States]
    /\ want \in [Callers -> Workers \cup {None}]
    /\ job \in [Workers -> Callers \cup {None}]
    /\ load \in Loads
    /\ phase \in [Callers -> Phases]
    /\ calls \in [Callers -> Nat]
    /\ op \in [Callers -> Ops]
    /\ pin \in [Callers -> Workers \cup {None}]
    /\ last \in [Callers -> Workers \cup {None}]
    /\ reply \in [Callers -> Replies]
    /\ tx \in [Workers -> Callers \cup {None}]
    /\ inserted \in [Workers -> Callers \cup {None}]

Flags == stopping \in BOOLEAN /\ warned \in [Callers -> BOOLEAN]

\* A job that runs is that of a suspended handler, and runs on one worker.
Jobs ==
    /\ \A w \in Workers : job[w] # None => caller[job[w]] = "queued"
    /\ \A v, w \in Workers : job[v] # None /\ job[v] = job[w] => v = w

\* The pin of a handler is also where its job waits.
Pins ==
    /\ \A h \in Waiting : pin[h] # None => want[h] = pin[h]
    /\ \A h \in Callers : phase[h] = "rolling" => op[h] = "rollback" /\ pin[h] # None

Inv == Ranges /\ InCoAwait /\ Jobs /\ Pins /\ OnOwnConnection

LEMMA TypeParts == TypeOK <=> Ranges /\ Flags /\ InCoAwait
BY DEF TypeOK, ServiceTypeOK, Ranges, Flags, Replies, Phases, States

LEMMA ReplyUsed == ASSUME NEW r \in Replies PROVE r.used \in Workers \cup {None}
BY DEF Replies

LEMMA ReplyFlag == ASSUME NEW r \in Replies, r.ok PROVE r.ok = TRUE
BY Zenon DEF Replies

LEMMA ReplyMade ==
    ASSUME NEW w \in Workers, NEW b, b = TRUE \/ b = FALSE
    PROVE  [ok |-> b, used |-> w] \in Replies
BY DEF Replies

LEMMA NoneIsNothing == None \notin Workers /\ None \notin Callers
BY LoadsAssumption

LEMMA InitInv == Init => Inv
<1> SUFFICES ASSUME Init PROVE Inv
    OBVIOUS
<1>1. [ok |-> TRUE, used |-> None] \in Replies
    BY DEF Replies
<1> USE DEF Init, ServiceInit
<1>2. Ranges
    BY <1>1 DEF Ranges, States, Phases, Ops, Statements
<1>3. InCoAwait /\ Jobs /\ Pins /\ OnOwnConnection
    BY DEF InCoAwait, Jobs, Pins, Waiting, OnOwnConnection
<1> QED BY <1>2, <1>3 DEF Inv

\* The steps of a handler that neither enter nor leave a co_await.
Local(h) ==
    /\ phase' \in [Callers -> Phases]
    /\ \A g \in Callers \ {h} : phase'[g] = phase[g]
    /\ phase[h] \in {"idle", "running", "sleeping"}
    /\ phase'[h] \in {"running", "sleeping", "done"}
    /\ UNCHANGED <<serviceVars, dbVars, load, calls, op, pin, last, warned>>

LEMMA LocalSteps ==
    ASSUME Ranges, NEW h \in Callers,
           Start(h) \/ Sleep(h) \/ Wake(h) \/ Disconnected(h) \/ FinishWithoutRollback(h)
    PROVE  Local(h)
<1>1. phase \in [Callers -> Phases]
    BY DEF Ranges
<1> QED BY <1>1 DEF Local, Move, Phases, Start, Sleep, Wake, Disconnected, FinishWithoutRollback

LEMMA LocalInv == ASSUME Inv, NEW h \in Callers, Local(h) PROVE Inv'
<1> USE DEF Local, serviceVars, dbVars, Inv
<1>1. Ranges'
    BY DEF Ranges
<1>2. InCoAwait'
    BY DEF InCoAwait
<1>3. Jobs'
    BY DEF Jobs
<1>4. Pins'
    BY DEF Pins, Waiting
<1>5. OnOwnConnection'
    BY DEF OnOwnConnection
<1> QED BY <1>1, <1>2, <1>3, <1>4, <1>5

LEMMA CallInv == ASSUME Inv, NEW h \in Callers, NEW o \in Ops, Call(h, o) PROVE Inv'
<1> USE DEF Inv
<1>1. Route(h, o) \in Workers \cup {None}
    BY DEF Route, Ranges
<1>2. caller[h] = "running" /\ phase[h] = "running"
    BY DEF Call, Await, Move
<1>3. /\ caller' \in [Callers -> States] /\ want' \in [Callers -> Workers \cup {None}]
      /\ caller'[h] = "queued" => want'[h] = Route(h, o)
      /\ \A g \in Callers \ {h} : caller'[g] = caller[g] /\ want'[g] = want[g]
      /\ job' = job
    BY <1>1 DEF Call, Await, Ranges, States
<1>4. /\ phase' = [phase EXCEPT ![h] = "db"] /\ op' = [op EXCEPT ![h] = o]
      /\ calls' = [calls EXCEPT ![h] = @ + 1]
      /\ UNCHANGED <<dbVars, load, pin, last, warned>>
    BY DEF Call, Move
<1>5. calls' \in [Callers -> Nat]
    BY <1>4 DEF Ranges
<1>6. Ranges'
    <2>1. phase' \in [Callers -> Phases] /\ op' \in [Callers -> Ops]
        BY <1>4 DEF Ranges, Phases
    <2> QED BY <1>3, <1>4, <1>5, <2>1 DEF Ranges, dbVars
<1>7. InCoAwait'
    BY <1>3, <1>4 DEF InCoAwait, Ranges
<1>8. Jobs'
    BY <1>2, <1>3 DEF Jobs, Ranges
<1>9. Pins'
    <2>1. \A g \in Waiting' : pin'[g] # None => want'[g] = pin'[g]
        BY <1>3, <1>4 DEF Pins, Waiting, Route
    <2>2. \A g \in Callers : phase'[g] = "rolling" => op'[g] = "rollback" /\ pin'[g] # None
        BY <1>4 DEF Pins, Ranges
    <2> QED BY <2>1, <2>2 DEF Pins
<1>10. OnOwnConnection'
    BY <1>3, <1>4 DEF OnOwnConnection
<1> QED BY <1>6, <1>7, <1>8, <1>9, <1>10

LEMMA ReturnInv == ASSUME Inv, NEW h \in Callers, Return(h) PROVE Inv'
<1> USE DEF Inv
<1>1. CASE pin[h] = None
    <2>1. phase \in [Callers -> Phases]
        BY DEF Ranges
    <2>2. Local(h)
        BY <1>1, <2>1 DEF Return, Local, Move, Phases, dbVars
    <2> QED BY <2>2, LocalInv
<1>2. CASE pin[h] # None
    <2>1. /\ caller[h] = "running" /\ phase[h] = "running"
          /\ phase' = [phase EXCEPT ![h] = "rolling"]
          /\ op' = [op EXCEPT ![h] = "rollback"]
          /\ UNCHANGED <<dbVars, load, calls, pin, last, warned>>
        BY <1>2 DEF Return, Await, Move
    <2>2. pin[h] \in Workers
        BY <1>2 DEF Ranges
    <2>3. /\ caller' \in [Callers -> States] /\ want' \in [Callers -> Workers \cup {None}]
          /\ caller'[h] = "queued" => want'[h] = pin[h]
          /\ \A g \in Callers \ {h} : caller'[g] = caller[g] /\ want'[g] = want[g]
          /\ job' = job
        BY <1>2, <2>2 DEF Return, Await, Ranges, States
    <2>4. Ranges'
        <3>1. phase' \in [Callers -> Phases] /\ op' \in [Callers -> Ops]
            BY <2>1 DEF Ranges, Phases, Ops
        <3> QED BY <2>1, <2>3, <3>1 DEF Ranges, dbVars
    <2>5. InCoAwait'
        BY <2>1, <2>3 DEF InCoAwait, Ranges
    <2>6. Jobs'
        BY <2>1, <2>3 DEF Jobs, Ranges
    <2>7. Pins'
        <3>1. \A g \in Waiting' : pin'[g] # None => want'[g] = pin'[g]
            BY <2>1, <2>3 DEF Pins, Waiting
        <3>2. \A g \in Callers : phase'[g] = "rolling" => op'[g] = "rollback" /\ pin'[g] # None
            BY <1>2, <2>1 DEF Pins, Ranges
        <3> QED BY <3>1, <3>2 DEF Pins
    <2>8. OnOwnConnection'
        BY <2>1, <2>3 DEF OnOwnConnection
    <2> QED BY <2>4, <2>5, <2>6, <2>7, <2>8
<1> QED BY <1>1, <1>2

\* The end of a co_await: no job of h is left in the pool, so its pin may change.
LEMMA ResumeInv ==
    ASSUME Inv, NEW h \in Callers, Resume(h),
           phase[h] \in {"db", "rolling"},
           NEW to \in {"running", "done"}, phase' = [phase EXCEPT ![h] = to],
           pin' \in [Callers -> Workers \cup {None}],
           \A g \in Callers \ {h} : pin'[g] = pin[g],
           last' \in [Callers -> Workers \cup {None}],
           UNCHANGED <<dbVars, load, calls, op>>
    PROVE  Inv'
<1> USE DEF Inv
<1>1. /\ caller[h] = "posted" /\ caller' = [caller EXCEPT ![h] = "running"]
      /\ want' = want /\ job' = job
    BY DEF Resume
<1>2. \A w \in Workers : job[w] # h
    BY <1>1, NoneIsNothing DEF Jobs
<1>3. Ranges'
    <2>1. phase' \in [Callers -> Phases] /\ caller' \in [Callers -> States]
        BY <1>1 DEF Ranges, Phases, States
    <2> QED BY <1>1, <2>1 DEF Ranges, dbVars
<1>4. InCoAwait'
    BY <1>1 DEF InCoAwait, Ranges
<1>5. Jobs'
    BY <1>1, <1>2 DEF Jobs, Ranges
<1>6. Pins'
    <2>1. \A g \in Waiting' : g # h /\ g \in Waiting
        BY <1>1 DEF Waiting, Ranges
    <2>2. \A g \in Waiting' : pin'[g] # None => want'[g] = pin'[g]
        BY <1>1, <2>1 DEF Pins, Waiting
    <2>3. \A g \in Callers : phase'[g] = "rolling" => g # h /\ op'[g] = "rollback" /\ pin'[g] # None
        BY DEF Pins, Ranges
    <2> QED BY <2>2, <2>3 DEF Pins
<1>7. OnOwnConnection'
    BY <1>1, <1>2 DEF OnOwnConnection, Ranges
<1> QED BY <1>3, <1>4, <1>5, <1>6, <1>7

LEMMA AnswerInv == ASSUME Inv, NEW h \in Callers, Answer(h) PROVE Inv'
<1> USE DEF Inv
<1>1. reply[h].used \in Workers \cup {None}
    BY ReplyUsed DEF Ranges
<1>2. NewPin(h) \in Workers \cup {None}
    BY <1>1 DEF NewPin, Ranges
<1>3. /\ pin' \in [Callers -> Workers \cup {None}]
      /\ \A g \in Callers \ {h} : pin'[g] = pin[g]
    BY <1>2 DEF Answer, Ranges
<1>4. last' \in [Callers -> Workers \cup {None}]
    BY <1>1 DEF Answer, Ranges
<1>5. /\ phase[h] = "db" /\ phase' = [phase EXCEPT ![h] = "running"] /\ Resume(h)
      /\ UNCHANGED <<dbVars, load, calls, op>>
    BY DEF Answer, Move
<1> QED BY <1>3, <1>4, <1>5, ResumeInv

LEMMA RolledBackInv == ASSUME Inv, NEW h \in Callers, RolledBack(h) PROVE Inv'
<1> USE DEF Inv
<1>1. /\ phase[h] = "rolling" /\ phase' = [phase EXCEPT ![h] = "done"] /\ Resume(h)
      /\ pin' = [pin EXCEPT ![h] = None]
      /\ UNCHANGED <<dbVars, load, calls, op, last>>
    BY DEF RolledBack, Move
<1>2. /\ pin' \in [Callers -> Workers \cup {None}]
      /\ \A g \in Callers \ {h} : pin'[g] = pin[g]
      /\ last' \in [Callers -> Workers \cup {None}]
    BY <1>1 DEF Ranges
<1> QED BY <1>1, <1>2, ResumeInv

\* What a statement leaves in the variables of the database.
LEMMA PerformRanges ==
    ASSUME Ranges, NEW w \in Workers, NEW h \in Callers, Perform(w, h)
    PROVE  /\ reply' \in [Callers -> Replies]
           /\ tx' \in [Workers -> Callers \cup {None}]
           /\ inserted' \in [Workers -> Callers \cup {None}]
<1>1. PICK o \in Outcomes(w, h) :
        /\ tx' = [tx EXCEPT ![w] = o.tx]
        /\ reply' = [reply EXCEPT ![h] = [ok |-> o.ok, used |-> w]]
        /\ \E g \in Reported(w, h, o.ok) : inserted' = [inserted EXCEPT ![w] = g]
    BY DEF Perform
<1>2. o.tx \in {None, tx[w], h} /\ (o.ok = TRUE \/ o.ok = FALSE)
    BY OutcomeFacts DEF Ranges
<1>3. [ok |-> o.ok, used |-> w] \in Replies
    BY <1>2, ReplyMade
<1>4. reply' \in [Callers -> Replies]
    BY <1>1, <1>3 DEF Ranges
<1>5. tx' \in [Workers -> Callers \cup {None}]
    BY <1>1, <1>2 DEF Ranges
<1>6. inserted' \in [Workers -> Callers \cup {None}]
    <2>1. \A g \in Reported(w, h, o.ok) : g \in Callers \cup {None}
        BY DEF Reported, Ranges
    <2> QED BY <1>1, <2>1 DEF Ranges
<1> QED BY <1>4, <1>5, <1>6

\* A job ends, with or without the resumption of its handler.
LEMMA JobEndsInv ==
    ASSUME Inv, NEW w \in Workers, job[w] # None,
           NEW to \in {"posted", "lost"}, caller' = [caller EXCEPT ![job[w]] = to],
           job' = [job EXCEPT ![w] = None], UNCHANGED <<want, handlerVars>>,
           reply' \in [Callers -> Replies],
           tx' \in [Workers -> Callers \cup {None}],
           inserted' \in [Workers -> Callers \cup {None}]
    PROVE  Inv'
<1> USE DEF Inv, handlerVars
<1>1. job[w] \in Callers /\ caller[job[w]] = "queued"
    BY DEF Ranges, Jobs
<1>2. Ranges'
    <2>1. caller' \in [Callers -> States] /\ job' \in [Workers -> Callers \cup {None}]
        BY <1>1 DEF Ranges, States
    <2> QED BY <2>1 DEF Ranges
<1>3. InCoAwait'
    BY <1>1 DEF InCoAwait, Ranges
<1>4. Jobs'
    <2>1. \A v \in Workers : v # w /\ job[v] # None => job[v] # job[w]
        BY DEF Jobs
    <2>2. \A v \in Workers : job'[v] # None => v # w /\ job'[v] = job[v]
        BY DEF Ranges
    <2>3. \A v \in Workers : job'[v] # None => caller'[job'[v]] = "queued"
        BY <1>1, <2>1, <2>2 DEF Jobs, Ranges
    <2>4. \A u, v \in Workers : job'[u] # None /\ job'[u] = job'[v] => u = v
        BY <2>2 DEF Jobs
    <2> QED BY <2>3, <2>4 DEF Jobs
<1>5. Pins'
    <2>1. \A g \in Waiting' : g \in Waiting
        BY <1>1 DEF Waiting, Ranges
    <2> QED BY <2>1 DEF Pins
<1>6. OnOwnConnection'
    BY DEF OnOwnConnection, Ranges
<1> QED BY <1>2, <1>3, <1>4, <1>5, <1>6

LEMMA RunJobInv == ASSUME Inv, NEW w \in Workers, RunJob(w) PROVE Inv'
<1>1. job[w] \in Callers
    BY DEF Inv, Ranges, RunJob, Finish
<1>2. /\ reply' \in [Callers -> Replies]
      /\ tx' \in [Workers -> Callers \cup {None}]
      /\ inserted' \in [Workers -> Callers \cup {None}]
    BY <1>1, PerformRanges DEF RunJob, Inv
<1>3. /\ job[w] # None /\ caller' = [caller EXCEPT ![job[w]] = "posted"]
      /\ job' = [job EXCEPT ![w] = None] /\ UNCHANGED <<want, handlerVars>>
    BY DEF RunJob, Finish
<1> QED BY <1>2, <1>3, JobEndsInv

LEMMA ThrowJobInv == ASSUME Inv, NEW w \in Workers, ThrowJob(w) PROVE Inv'
<1>1. job[w] \in Callers
    BY DEF Inv, Ranges, ThrowJob, Throw
<1>2. /\ reply' \in [Callers -> Replies]
      /\ tx' \in [Workers -> Callers \cup {None}]
      /\ inserted' \in [Workers -> Callers \cup {None}]
    <2>1. CASE Perform(w, job[w])
        BY <1>1, <2>1, PerformRanges DEF Inv
    <2>2. CASE UNCHANGED dbVars
        BY <2>2 DEF Inv, Ranges, dbVars
    <2> QED BY <2>1, <2>2 DEF ThrowJob
<1>3. /\ job[w] # None /\ caller' = [caller EXCEPT ![job[w]] = "lost"]
      /\ job' = [job EXCEPT ![w] = None] /\ UNCHANGED <<want, handlerVars>>
    BY DEF ThrowJob, Throw
<1> QED BY <1>2, <1>3, JobEndsInv

LEMMA DropInv == ASSUME Inv, NEW w \in Workers, Drop(w) PROVE Inv'
<1> USE DEF Inv, Drop, serviceVars, handlerVars
<1>1. Ranges'
    BY DEF Ranges
<1>2. InCoAwait' /\ Jobs' /\ Pins' /\ OnOwnConnection'
    BY DEF InCoAwait, Jobs, Pins, Waiting, OnOwnConnection
<1> QED BY <1>1, <1>2

LEMMA TakeInv ==
    ASSUME Inv, NEW w \in Workers, Take(w), UNCHANGED <<handlerVars, dbVars>>
    PROVE  Inv'
<1> USE DEF Inv, handlerVars, dbVars
<1>1. PICK c \in Eligible(w) :
        job' = [job EXCEPT ![w] = c] /\ want' = [want EXCEPT ![c] = None]
    BY DEF Take
<1>2. c \in Callers /\ c \in Waiting /\ want[c] \in {w, None} /\ job[w] = None /\ caller' = caller
    BY DEF Eligible, Waiting, Take
<1>3. caller[c] = "queued" /\ \A v \in Workers : job[v] # c
    BY <1>2 DEF Waiting
<1>4. Ranges'
    BY <1>1, <1>2 DEF Ranges
<1>5. InCoAwait'
    BY <1>2 DEF InCoAwait
<1>6. Jobs'
    BY <1>1, <1>2, <1>3 DEF Jobs, Ranges
<1>7. Pins'
    <2>1. \A v \in Workers : job'[v] = IF v = w THEN c ELSE job[v]
        BY <1>1 DEF Ranges
    <2>2. \A g \in Waiting' : g \in Waiting /\ g # c
        BY <1>2, <2>1, NoneIsNothing DEF Waiting
    <2>3. \A g \in Waiting' : want'[g] = want[g]
        BY <1>1, <2>2 DEF Waiting, Ranges
    <2> QED BY <2>2, <2>3 DEF Pins
<1>8. OnOwnConnection'
    <2>1. pin[c] # None => w = pin[c]
        <3>1. pin[c] # None => want[c] = pin[c]
            BY <1>2 DEF Pins
        <3> QED BY <1>2, <3>1
    <2> QED BY <1>1, <1>2, <2>1 DEF OnOwnConnection, Ranges
<1> QED BY <1>4, <1>5, <1>6, <1>7, <1>8

LEMMA NextInv == Inv /\ [Next]_vars => Inv'
<1> SUFFICES ASSUME Inv, [Next]_vars PROVE Inv'
    OBVIOUS
<1>1. CASE \E h \in Callers : HandlerStep(h)
    <2> PICK h \in Callers : HandlerStep(h)
        BY <1>1
    <2>1. CASE Start(h) \/ Sleep(h) \/ Wake(h) \/ Disconnected(h) \/ FinishWithoutRollback(h)
        BY <2>1, LocalSteps, LocalInv DEF Inv
    <2>2. CASE \E o \in Ops : Call(h, o)
        BY <2>2, CallInv
    <2> QED BY <2>1, <2>2, AnswerInv, ReturnInv, RolledBackInv DEF HandlerStep
<1>2. CASE \E w \in Workers : RunJob(w) \/ ThrowJob(w) \/ Drop(w)
    BY <1>2, RunJobInv, ThrowJobInv, DropInv
<1>3. CASE PoolStep
    <2>1. CASE \E w \in Workers : Take(w)
        BY <1>3, <2>1, TakeInv DEF PoolStep
    <2>2. CASE Stop
        <3> USE <1>3, <2>2 DEF PoolStep, Stop, handlerVars, dbVars, Inv
        <3>1. Ranges'
            BY DEF Ranges
        <3>2. InCoAwait' /\ Jobs' /\ Pins' /\ OnOwnConnection'
            BY DEF InCoAwait, Jobs, Pins, Waiting, OnOwnConnection
        <3> QED BY <3>1, <3>2
    <2> QED BY <1>3, <2>1, <2>2 DEF PoolStep
<1>4. CASE UNCHANGED vars
    <2> USE <1>4 DEF vars, serviceVars, handlerVars, dbVars, Inv
    <2>1. Ranges'
        BY DEF Ranges
    <2>2. InCoAwait' /\ Jobs' /\ Pins' /\ OnOwnConnection'
        BY DEF InCoAwait, Jobs, Pins, Waiting, OnOwnConnection
    <2> QED BY <2>1, <2>2
<1> QED BY <1>1, <1>2, <1>3, <1>4 DEF Next

LEMMA InvHolds == Spec => []Inv
BY InitInv, NextInv, PTL DEF Spec

(***************************************************************************)
(* The pin follows the connection: the statements of a transaction, and    *)
(* its ROLLBACK, run on the worker that opened it (run_db), for any number *)
(* of handlers at once, whatever their ends and the state of the links.    *)
(***************************************************************************)
THEOREM OwnConnection == Spec => []OnOwnConnection
<1>1. Inv => OnOwnConnection
    BY DEF Inv
<1> QED BY InvHolds, <1>1, PTL

LEMMA InitFlags == Init => Flags
BY Zenon DEF Init, ServiceInit, Flags

LEMMA NextFlags == Flags /\ [Next]_vars => Flags'
<1> SUFFICES ASSUME Flags, [Next]_vars PROVE Flags'
    OBVIOUS
<1>1. stopping' \in BOOLEAN
    <2>1. UNCHANGED stopping \/ stopping' = TRUE
        BY DEF Next, HandlerStep, Start, Call, Answer, Sleep, Wake, Disconnected,
               FinishWithoutRollback, Return, RolledBack, RunJob, ThrowJob, Drop, PoolStep,
               Await, Take, Finish, Throw, Resume, Stop, vars, serviceVars
    <2> QED BY <2>1 DEF Flags
<1>2. warned' \in [Callers -> BOOLEAN]
    <2>1. \/ UNCHANGED warned
          \/ \E h \in Callers : warned' = [warned EXCEPT ![h] = TRUE]
          \/ \E h \in Callers : warned' = [warned EXCEPT ![h] = FALSE]
        BY DEF Next, HandlerStep, Start, Call, Answer, Sleep, Wake, Disconnected,
               FinishWithoutRollback, Return, RolledBack, RunJob, ThrowJob, Drop, PoolStep,
               vars, handlerVars
    <2> QED BY <2>1 DEF Flags
<1> QED BY <1>1, <1>2 DEF Flags

(***************************************************************************)
(* Every variable keeps its range, and a handler is suspended exactly in   *)
(* the co_await of run_db() or of rollback_pendientes().                   *)
(***************************************************************************)
THEOREM TypeCorrect == Spec => []TypeOK
<1>1. Inv /\ Flags => TypeOK
    BY TypeParts DEF Inv
<1>2. Spec => []Flags
    BY InitFlags, NextFlags, PTL DEF Spec
<1> QED BY InvHolds, <1>1, <1>2, PTL

(***************************************************************************)
(* NothingLeftOpen. While a transaction of h is open on w, h is pinned to  *)
(* w, and on its way to close it; or its begin() has just succeeded there, *)
(* and h has not been resumed to learn it.                                 *)
(***************************************************************************)
Began(h, w) ==
    /\ phase[h] = "db" /\ caller[h] = "posted" /\ op[h] = "begin"
    /\ reply[h].ok = TRUE /\ reply[h].used = w

Ended(h) ==
    /\ caller[h] = "posted"
    /\ \/ phase[h] = "rolling"
       \/ phase[h] = "db" /\ op[h] \in {"commit", "rollback"} /\ reply[h].ok = TRUE

Held(h, w) == pin[h] = w /\ phase[h] # "done" /\ ~Ended(h)

Owners == \A w \in Workers, h \in Callers : tx[w] = h => Began(h, w) \/ Held(h, w)

\* The worker a pinned handler is told about is the one it is pinned to.
Used == \A h \in Callers : caller[h] = "posted" /\ pin[h] # None => reply[h].used = pin[h]

Tidy == ~load.abrupt => Owners

\* A step that leaves h's transaction, pin and last job as they are.
LEMMA SameOwner ==
    ASSUME NEW w \in Workers, NEW h \in Callers, Began(h, w) \/ Held(h, w),
           pin'[h] = pin[h], caller'[h] = caller[h], phase'[h] = phase[h],
           op'[h] = op[h], reply'[h] = reply[h]
    PROVE  (Began(h, w) \/ Held(h, w))'
BY DEF Began, Held, Ended

LEMMA HandlerTidy ==
    ASSUME Inv, Used, Owners, ~load.abrupt, NEW h \in Callers, HandlerStep(h)
    PROVE  Owners'
<1> USE DEF Inv
<1>1. /\ tx' = tx /\ reply' = reply
      /\ \A g \in Callers \ {h} :
             /\ pin'[g] = pin[g] /\ caller'[g] = caller[g]
             /\ phase'[g] = phase[g] /\ op'[g] = op[g]
    <2>1. phase' \in [Callers -> Phases] /\ \A g \in Callers \ {h} : phase'[g] = phase[g]
        BY DEF HandlerStep, Start, Call, Answer, Sleep, Wake, Disconnected,
               FinishWithoutRollback, Return, RolledBack, Move, Ranges, Phases
    <2>2. tx' = tx /\ reply' = reply
        BY DEF HandlerStep, Start, Call, Answer, Sleep, Wake, Disconnected,
               FinishWithoutRollback, Return, RolledBack, dbVars
    <2>3. \A g \in Callers \ {h} : pin'[g] = pin[g] /\ op'[g] = op[g]
        BY DEF HandlerStep, Start, Call, Answer, Sleep, Wake, Disconnected,
               FinishWithoutRollback, Return, RolledBack, Ranges
    <2>4. \A g \in Callers \ {h} : caller'[g] = caller[g]
        BY DEF HandlerStep, Start, Call, Answer, Sleep, Wake, Disconnected,
               FinishWithoutRollback, Return, RolledBack, Ranges, Await, Resume, serviceVars
    <2> QED BY <2>1, <2>2, <2>3, <2>4
<1>2. ASSUME NEW w \in Workers, tx[w] = h
      PROVE  (Began(h, w) \/ Held(h, w))'
    <2>0. Began(h, w) \/ Held(h, w)
        BY <1>2 DEF Owners
    <2>1. CASE Start(h) \/ Sleep(h) \/ Wake(h)
        <3>1. Local(h) /\ phase'[h] # "done"
            BY <2>1, LocalSteps DEF Start, Sleep, Wake, Move, Ranges
        <3>2. caller'[h] = "running" /\ pin'[h] = w
            BY <2>0, <3>1 DEF Local, InCoAwait, serviceVars, Began, Held
        <3> QED BY <3>1, <3>2 DEF Held, Ended
    <2>2. CASE Disconnected(h) \/ FinishWithoutRollback(h)
        BY <2>2 DEF Disconnected, FinishWithoutRollback
    <2>3. CASE \E o \in Ops : Call(h, o)
        <3>1. /\ phase[h] = "running" /\ phase'[h] = "db" /\ pin' = pin
              /\ caller'[h] \in {"queued", "lost"}
            BY <2>3 DEF Call, Move, Await, Ranges
        <3> QED BY <2>0, <3>1 DEF Began, Held, Ended
    <2>4. CASE Return(h)
        <3>1. phase[h] = "running" /\ pin[h] = w /\ pin[h] # None
            BY <2>0, <2>4, NoneIsNothing DEF Return, Began, Held
        <3>2. phase'[h] = "rolling" /\ pin' = pin /\ caller'[h] \in {"queued", "lost"}
            BY <2>4, <3>1 DEF Return, Move, Await, Ranges
        <3> QED BY <3>1, <3>2 DEF Held, Ended
    <2>5. CASE RolledBack(h)
        BY <2>0, <2>5 DEF RolledBack, Move, Resume, Began, Held, Ended
    <2>6. CASE Answer(h)
        <3>1. /\ phase[h] = "db" /\ phase'[h] = "running"
              /\ caller[h] = "posted" /\ caller'[h] = "running"
            BY <2>6 DEF Answer, Move, Resume, Ranges
        <3>2. pin'[h] = w
            <4>1. CASE ~reply[h].ok
                BY <2>0, <2>6, <4>1 DEF Answer, Began, Held
            <4>2. CASE reply[h].ok /\ op[h] = "begin"
                <5>1. reply[h].used = w
                    BY <2>0, <3>1, NoneIsNothing DEF Began, Held, Used
                <5> QED BY <2>6, <4>2, <5>1 DEF Answer, NewPin, Ranges
            <4>3. CASE reply[h].ok /\ op[h] \in {"commit", "rollback"}
                <5>1. reply[h].ok = TRUE
                    BY <4>3, ReplyFlag DEF Ranges
                <5> QED BY <2>0, <3>1, <4>3, <5>1 DEF Began, Held, Ended
            <4>4. CASE reply[h].ok /\ op[h] \notin {"begin", "commit", "rollback"}
                BY <2>0, <2>6, <4>4 DEF Answer, NewPin, Began, Held, Ranges
            <4> QED BY <4>1, <4>2, <4>3, <4>4
        <3> QED BY <3>1, <3>2 DEF Held, Ended
    <2> QED BY <2>1, <2>2, <2>3, <2>4, <2>5, <2>6 DEF HandlerStep
<1>3. ASSUME NEW w \in Workers, NEW g \in Callers \ {h}, tx[w] = g
      PROVE  (Began(g, w) \/ Held(g, w))'
    BY <1>1, <1>3, SameOwner DEF Owners
<1> QED BY <1>1, <1>2, <1>3 DEF Owners

\* What the job of h on w does to the owners of the connections.
LEMMA RunJobTidy ==
    ASSUME Inv, Owners, NEW w \in Workers, RunJob(w)
    PROVE  Owners'
<1> USE DEF Inv
<1>0. PICK h \in Callers : h = job[w]
    BY DEF RunJob, Finish, Ranges
<1>1. caller[h] = "queued" /\ (pin[h] # None => w = pin[h])
    BY <1>0, NoneIsNothing DEF Jobs, OnOwnConnection
<1>2. /\ UNCHANGED <<phase, op, pin>>
      /\ caller'[h] = "posted"
      /\ \A g \in Callers \ {h} : caller'[g] = caller[g]
    BY <1>0 DEF RunJob, Finish, handlerVars, Ranges
<1>3. phase[h] \in {"db", "rolling"} /\ (op[h] = "begin" => phase[h] = "db")
    BY <1>1 DEF InCoAwait, Pins
<1>4. Perform(w, h)
    BY <1>0 DEF RunJob
<1>5. PICK o \in Outcomes(w, h) :
        /\ tx' = [tx EXCEPT ![w] = o.tx]
        /\ reply' = [reply EXCEPT ![h] = [ok |-> o.ok, used |-> w]]
    BY <1>4 DEF Perform
<1>6. /\ \A v \in Workers \ {w} : tx'[v] = tx[v]
      /\ tx'[w] = o.tx
      /\ \A g \in Callers \ {h} : reply'[g] = reply[g]
      /\ reply'[h].ok = o.ok /\ reply'[h].used = w
    BY <1>1, <1>5 DEF Ranges
<1>7. /\ o.tx \in {None, tx[w], h}
      /\ op[h] = "rollback" => o.tx = None
      /\ op[h] = "commit" => o.tx = None \/ o.ok = FALSE
      /\ o.tx = h /\ tx[w] # h => op[h] = "begin" /\ o.ok = TRUE
    BY <1>1, OutcomeFacts DEF Ranges
<1>8. ASSUME NEW v \in Workers, NEW g \in Callers \ {h}, tx'[v] = g
      PROVE  (Began(g, v) \/ Held(g, v))'
    <2>1. tx[v] = g
        BY <1>6, <1>7, <1>8, NoneIsNothing
    <2> QED BY <1>2, <1>6, <2>1, SameOwner DEF Owners
<1>9. ASSUME NEW v \in Workers, tx'[v] = h
      PROVE  (Began(h, v) \/ Held(h, v))'
    <2>1. CASE v = w /\ tx[w] # h
        BY <1>2, <1>3, <1>6, <1>7, <1>9, <2>1 DEF Began
    <2>2. CASE v = w /\ tx[w] = h
        <3>1. pin[h] = w
            BY <1>1, <2>2 DEF Owners, Began, Held
        <3>2. op[h] # "rollback" /\ (op[h] = "commit" => o.ok = FALSE)
            BY <1>1, <1>6, <1>7, <1>9, <2>2, NoneIsNothing
        <3>3. phase[h] = "db"
            BY <1>1, <1>3, <3>2 DEF Pins
        <3> QED BY <1>2, <1>6, <2>2, <3>1, <3>2, <3>3 DEF Held, Ended
    <2>3. CASE v # w
        <3>1. tx[v] = h
            BY <1>6, <1>9, <2>3
        <3>2. pin[h] = v
            BY <1>1, <3>1 DEF Owners, Began, Held
        <3> QED BY <1>1, <2>3, <3>2, NoneIsNothing
    <2> QED BY <2>1, <2>2, <2>3
<1> QED BY <1>8, <1>9 DEF Owners

LEMMA UsedStep == ASSUME Inv, Used, [Next]_vars PROVE Used'
<1> USE DEF Inv
<1>1. CASE \E h \in Callers : HandlerStep(h)
    <2> PICK h \in Callers : HandlerStep(h)
        BY <1>1
    <2>1. reply' = reply
        BY DEF HandlerStep, Start, Call, Answer, Sleep, Wake, Disconnected,
               FinishWithoutRollback, Return, RolledBack, dbVars
    <2>2. /\ \A g \in Callers \ {h} : pin'[g] = pin[g] /\ caller'[g] = caller[g]
          /\ caller'[h] = "posted" => caller[h] = "posted" /\ pin'[h] = pin[h]
        BY DEF HandlerStep, Start, Call, Answer, Sleep, Wake, Disconnected,
               FinishWithoutRollback, Return, RolledBack, Ranges, Await, Resume, serviceVars
    <2> QED BY <2>1, <2>2 DEF Used
<1>2. CASE \E w \in Workers : RunJob(w)
    <2> PICK w \in Workers : RunJob(w)
        BY <1>2
    <2>1. job[w] \in Callers /\ (pin[job[w]] # None => w = pin[job[w]])
        BY DEF RunJob, Finish, Ranges, OnOwnConnection
    <2>2. PICK o : reply' = [reply EXCEPT ![job[w]] = [ok |-> o.ok, used |-> w]]
        BY DEF RunJob, Perform
    <2>3. /\ reply'[job[w]].used = w
          /\ \A g \in Callers \ {job[w]} : reply'[g] = reply[g]
        BY <2>1, <2>2 DEF Ranges
    <2>4. pin' = pin /\ \A g \in Callers \ {job[w]} : caller'[g] = caller[g]
        BY <2>1 DEF RunJob, Finish, handlerVars, Ranges
    <2> QED BY <2>1, <2>3, <2>4 DEF Used
<1>3. CASE \E w \in Workers : ThrowJob(w)
    <2> PICK w \in Workers : ThrowJob(w)
        BY <1>3
    <2>1. job[w] \in Callers
        BY DEF ThrowJob, Throw, Ranges
    <2>2. \A g \in Callers \ {job[w]} : reply'[g] = reply[g]
        BY <2>1 DEF ThrowJob, Perform, dbVars, Ranges
    <2>3. /\ pin' = pin /\ caller'[job[w]] = "lost"
          /\ \A g \in Callers \ {job[w]} : caller'[g] = caller[g]
        BY <2>1 DEF ThrowJob, Throw, handlerVars, Ranges
    <2> QED BY <2>2, <2>3 DEF Used
<1>4. CASE (\E w \in Workers : Drop(w)) \/ PoolStep \/ UNCHANGED vars
    <2>1. UNCHANGED <<caller, pin, reply>>
        BY <1>4 DEF Drop, PoolStep, Take, Stop, vars, serviceVars, handlerVars, dbVars
    <2> QED BY <2>1 DEF Used
<1> QED BY <1>1, <1>2, <1>3, <1>4 DEF Next

LEMMA TidyStep == ASSUME Inv, Used, Tidy, [Next]_vars PROVE Tidy'
<1>1. load' = load
    BY DEF Next, HandlerStep, Start, Call, Answer, Sleep, Wake, Disconnected,
           FinishWithoutRollback, Return, RolledBack, RunJob, ThrowJob, Drop, PoolStep,
           vars, handlerVars
<1> SUFFICES ASSUME ~load.abrupt PROVE Owners'
    BY <1>1 DEF Tidy
<1>2. Owners
    BY DEF Tidy
<1>3. CASE \E h \in Callers : HandlerStep(h)
    BY <1>2, <1>3, HandlerTidy
<1>4. CASE \E w \in Workers : RunJob(w)
    BY <1>2, <1>4, RunJobTidy
<1>5. CASE \E w \in Workers : ThrowJob(w)
    BY <1>5 DEF ThrowJob
<1>6. CASE (\E w \in Workers : Drop(w)) \/ PoolStep \/ UNCHANGED vars
    <2>1. UNCHANGED <<caller, pin, reply, phase, op>>
        BY <1>6 DEF Drop, PoolStep, Take, Stop, vars, serviceVars, handlerVars, dbVars
    <2>2. \A w \in Workers : tx'[w] \in {tx[w], None}
        BY <1>6 DEF Drop, PoolStep, vars, dbVars, Inv, Ranges
    <2> QED BY <1>2, <2>1, <2>2, NoneIsNothing, SameOwner DEF Owners
<1> QED BY <1>3, <1>4, <1>5, <1>6 DEF Next

LEMMA TidyHolds == Spec => []Tidy
<1>1. Init => Used /\ Tidy
    BY NoneIsNothing DEF Init, ServiceInit, Used, Tidy, Owners
<1>2. Inv /\ Used /\ Tidy /\ [Next]_vars => (Used /\ Tidy)'
    BY UsedStep, TidyStep
<1> QED BY <1>1, <1>2, InvHolds, PTL DEF Spec

(***************************************************************************)
(* A route handler that returns leaves no transaction open on any          *)
(* connection, whatever the other handlers and the engine do: what it did  *)
(* not close, rollback_pendientes() does (project.cpp:501).                *)
(***************************************************************************)
THEOREM NothingStaysOpen == Spec => []NothingLeftOpen
<1>1. Tidy => NothingLeftOpen
    BY DEF Tidy, Owners, NothingLeftOpen, ClosedAtTheEnd, Began, Held
<1> QED BY TidyHolds, <1>1, PTL

(***************************************************************************)
(* One request after another. What a handler has not begun yet holds       *)
(* nothing; a job waits, and runs, where run_db() sent it; and while one   *)
(* handler is busy no other one is.                                        *)
(***************************************************************************)
Busy(h) == phase[h] \notin {"idle", "done"}

Fresh == \A h \in Callers : phase[h] = "idle" => pin[h] = None /\ last[h] = None

OneByOne == ~load.together => \A g, h \in Callers : Busy(g) /\ Busy(h) => g = h

Aimed ==
    /\ \A h \in Waiting : phase[h] = "db" => want[h] = Route(h, op[h])
    /\ \A w \in Workers, h \in Callers :
           Asking(h, w) /\ Route(h, op[h]) # None => w = Route(h, op[h])

Sequel == Fresh /\ OneByOne /\ Aimed

LEMMA InitSequel == Init => Sequel
BY NoneIsNothing DEF Init, ServiceInit, Sequel, Fresh, OneByOne, Busy, Aimed, Waiting, Asking

\* Which steps change the workload: none.
LEMMA SameLoad == ASSUME [Next]_vars PROVE load' = load
BY DEF Next, HandlerStep, Start, Call, Answer, Sleep, Wake, Disconnected,
       FinishWithoutRollback, Return, RolledBack, RunJob, ThrowJob, Drop, PoolStep,
       vars, handlerVars

\* A step of h is nobody else's, and it makes h busy only if nobody is.
LEMMA HandlerFrame ==
    ASSUME Inv, NEW h \in Callers, HandlerStep(h)
    PROVE  /\ \A g \in Callers \ {h} :
                  /\ phase'[g] = phase[g] /\ op'[g] = op[g] /\ pin'[g] = pin[g]
                  /\ last'[g] = last[g] /\ caller'[g] = caller[g] /\ want'[g] = want[g]
           /\ UNCHANGED <<job, reply, tx, inserted, load>>
           /\ phase'[h] # "idle"
           /\ phase[h] = "idle" => load.together \/ \A g \in Callers : ~Busy(g)
<1> USE DEF Inv, Ranges
<1>1. ASSUME NEW g \in Callers \ {h}
      PROVE  /\ phase'[g] = phase[g] /\ op'[g] = op[g] /\ pin'[g] = pin[g]
             /\ last'[g] = last[g]
    BY DEF HandlerStep, Start, Call, Answer, Sleep, Wake, Disconnected,
           FinishWithoutRollback, Return, RolledBack, Move
<1>2. ASSUME NEW g \in Callers \ {h}
      PROVE  caller'[g] = caller[g] /\ want'[g] = want[g]
    BY DEF HandlerStep, Start, Call, Answer, Sleep, Wake, Disconnected,
           FinishWithoutRollback, Return, RolledBack, Await, Resume, serviceVars
<1>3. UNCHANGED <<job, reply, tx, inserted, load>>
    BY DEF HandlerStep, Start, Call, Answer, Sleep, Wake, Disconnected,
           FinishWithoutRollback, Return, RolledBack, Await, Resume, serviceVars, dbVars
<1>4. /\ phase'[h] # "idle"
      /\ phase[h] = "idle" => load.together \/ \A g \in Callers : ~Busy(g)
    BY DEF HandlerStep, Start, Call, Answer, Sleep, Wake, Disconnected,
           FinishWithoutRollback, Return, RolledBack, Move, Busy
<1> QED BY <1>1, <1>2, <1>3, <1>4

LEMMA HandlerSequel ==
    ASSUME Inv, Sequel, NEW h \in Callers, HandlerStep(h)
    PROVE  Sequel'
<1> USE DEF Inv
<1>1. Fresh'
    BY HandlerFrame DEF Sequel, Fresh
<1>2. OneByOne'
    <2> SUFFICES ASSUME ~load.together, NEW f \in Callers, NEW g \in Callers, Busy(f)', Busy(g)'
                 PROVE  f = g
        BY HandlerFrame DEF OneByOne
    <2>1. phase[h] = "idle" \/ phase[h] = "done" \/ Busy(h)
        BY DEF Busy
    <2>2. phase[h] # "done"
        BY DEF HandlerStep, Start, Call, Answer, Sleep, Wake, Disconnected,
               FinishWithoutRollback, Return, RolledBack, Move
    <2>3. \A k \in Callers \ {h} : Busy(k)' => Busy(k)
        BY HandlerFrame DEF Busy
    <2>4. CASE phase[h] = "idle"
        BY <2>3, <2>4, HandlerFrame
    <2>5. CASE Busy(h)
        BY <2>3, <2>5 DEF Sequel, OneByOne
    <2> QED BY <2>1, <2>2, <2>4, <2>5
<1>3. Aimed'
    <2>1. \A g \in Callers \ {h} : Route(g, op[g])' = Route(g, op[g])
        BY HandlerFrame DEF Route
    <2>2. ASSUME NEW g \in Waiting', phase'[g] = "db"
          PROVE  want'[g] = Route(g, op[g])'
        <3>0. g \in Callers /\ caller'[g] = "queued" /\ \A w \in Workers : job'[w] # g
            BY <2>2 DEF Waiting
        <3>1. CASE g # h
            <4>1. g \in Waiting
                BY <3>0, <3>1, HandlerFrame DEF Waiting
            <4> QED BY <2>1, <2>2, <3>0, <3>1, <4>1, HandlerFrame DEF Sequel, Aimed
        <3>2. CASE g = h
            <4>1. PICK o \in Ops : Call(h, o)
                <5>1. ~(Start(h) \/ Sleep(h) \/ Wake(h) \/ Disconnected(h) \/ FinishWithoutRollback(h))
                    BY <2>2, <3>2 DEF Start, Sleep, Wake, Disconnected, FinishWithoutRollback, Move, Ranges
                <5>2. ~(Answer(h) \/ Return(h) \/ RolledBack(h))
                    BY <2>2, <3>2 DEF Answer, Return, RolledBack, Move, Ranges
                <5> QED BY <5>1, <5>2 DEF HandlerStep
            <4>2. want'[h] = Route(h, o) /\ op'[h] = o /\ pin' = pin /\ last' = last
                BY <3>0, <3>2, <4>1 DEF Call, Await, Ranges
            <4> QED BY <3>2, <4>2 DEF Route
        <3> QED BY <3>1, <3>2
    <2>3. ASSUME NEW w \in Workers, NEW g \in Callers, Asking(g, w)', Route(g, op[g])' # None
          PROVE  w = Route(g, op[g])'
        <3>1. job[w] = g /\ caller[g] = "queued"
            BY <2>3, NoneIsNothing, HandlerFrame DEF Asking, Jobs
        <3>2. g # h
            BY <3>1 DEF InCoAwait, HandlerStep, Start, Call, Answer, Sleep, Wake, Disconnected,
                        FinishWithoutRollback, Return, RolledBack, Move, Await, Resume
        <3> QED BY <2>1, <2>3, <3>2, HandlerFrame DEF Sequel, Aimed, Asking
    <2> QED BY <2>2, <2>3 DEF Aimed
<1> QED BY <1>1, <1>2, <1>3 DEF Sequel

LEMMA SequelStep == ASSUME Inv, Sequel, [Next]_vars PROVE Sequel'
<1> USE DEF Inv
<1>1. CASE \E h \in Callers : HandlerStep(h)
    BY <1>1, HandlerSequel
<1>2. CASE ~\E h \in Callers : HandlerStep(h)
    <2>1. UNCHANGED handlerVars
        BY <1>2 DEF Next, RunJob, ThrowJob, Drop, PoolStep, vars
    <2>2. Fresh' /\ OneByOne'
        BY <2>1 DEF Sequel, Fresh, OneByOne, Busy, handlerVars
    <2>3. \A h \in Callers : Route(h, op[h])' = Route(h, op[h])
        BY <2>1 DEF Route, handlerVars
    <2>4. ASSUME \A h \in Waiting' : h \in Waiting /\ want'[h] = want[h],
                 \A w \in Workers : job'[w] \in {job[w], None}
          PROVE  Aimed'
        BY <2>1, <2>3, <2>4, NoneIsNothing DEF Sequel, Aimed, Asking, Waiting, handlerVars
    <2>5. CASE \E w \in Workers : RunJob(w) \/ ThrowJob(w)
        <3> PICK w \in Workers : RunJob(w) \/ ThrowJob(w)
            BY <2>5
        <3>1. /\ job' = [job EXCEPT ![w] = None] /\ want' = want /\ job[w] \in Callers
              /\ caller'[job[w]] # "queued"
              /\ \A h \in Callers \ {job[w]} : caller'[h] = caller[h]
            BY DEF RunJob, ThrowJob, Finish, Throw, Ranges
        <3>2. \A v \in Workers : job'[v] \in {job[v], None}
            BY <3>1 DEF Ranges
        <3>3. \A h \in Waiting' : h \in Waiting /\ want'[h] = want[h]
            <4> SUFFICES ASSUME NEW h \in Waiting' PROVE h \in Waiting
                BY <3>1
            <4>1. h \in Callers /\ caller'[h] = "queued" /\ \A v \in Workers : job'[v] # h
                BY DEF Waiting
            <4>2. h # job[w] /\ caller[h] = "queued"
                BY <3>1, <4>1
            <4>3. \A v \in Workers : job[v] # h
                BY <3>1, <4>1, <4>2 DEF Ranges
            <4> QED BY <4>1, <4>2, <4>3 DEF Waiting
        <3> QED BY <2>2, <2>4, <3>2, <3>3 DEF Sequel
    <2>6. CASE (\E w \in Workers : Drop(w)) \/ Stop \/ UNCHANGED vars
        <3>1. UNCHANGED <<caller, want, job>>
            BY <2>6 DEF Drop, Stop, vars, serviceVars
        <3> QED BY <2>2, <2>4, <3>1 DEF Sequel, Waiting
    <2>7. CASE \E w \in Workers : Take(w)
        <3> PICK w \in Workers : Take(w)
            BY <2>7
        <3>1. PICK c \in Eligible(w) :
                job' = [job EXCEPT ![w] = c] /\ want' = [want EXCEPT ![c] = None]
            BY DEF Take
        <3>2. c \in Waiting /\ c \in Callers /\ want[c] \in {w, None} /\ caller' = caller
            BY <3>1 DEF Eligible, Waiting, Take
        <3>3. \A v \in Workers : job'[v] = IF v = w THEN c ELSE job[v]
            BY <3>1 DEF Ranges
        <3>4. job[w] = None
            BY DEF Take
        <3>5. \A h \in Waiting' : h \in Waiting /\ h # c /\ want'[h] = want[h]
            BY <3>1, <3>2, <3>3, <3>4, NoneIsNothing DEF Waiting, Ranges
        <3>6. ASSUME NEW h \in Waiting', phase'[h] = "db"
              PROVE  want'[h] = Route(h, op[h])'
            BY <2>1, <2>3, <3>5, <3>6 DEF Sequel, Aimed, Waiting, handlerVars
        <3>7. ASSUME NEW v \in Workers, NEW h \in Callers, Asking(h, v)', Route(h, op[h])' # None
              PROVE  v = Route(h, op[h])'
            <4>1. job'[v] = h /\ phase[h] = "db" /\ Route(h, op[h]) # None
                BY <2>1, <2>3, <3>7 DEF Asking, handlerVars
            <4>2. CASE v = w
                <5>1. h = c
                    BY <3>3, <4>1, <4>2
                <5>2. want[c] = Route(c, op[c])
                    BY <3>2, <4>1, <5>1 DEF Sequel, Aimed
                <5> QED BY <2>3, <3>2, <4>1, <4>2, <5>1, <5>2
            <4>3. CASE v # w
                BY <2>3, <3>3, <4>1, <4>3 DEF Sequel, Aimed, Asking
            <4> QED BY <4>2, <4>3
        <3>8. Aimed'
            BY <3>6, <3>7 DEF Aimed
        <3> QED BY <2>2, <3>8 DEF Sequel
    <2> QED BY <1>2, <2>5, <2>6, <2>7 DEF Next, PoolStep
<1> QED BY <1>1, <1>2

LEMMA SequelHolds == Spec => []Sequel
BY InitSequel, SequelStep, InvHolds, PTL DEF Spec

LEMMA JobIsBusy ==
    ASSUME Inv, NEW w \in Workers, job[w] # None
    PROVE  /\ job[w] \in Callers /\ Busy(job[w])
           /\ phase[job[w]] \in {"db", "rolling"} /\ caller[job[w]] = "queued"
<1>1. job[w] \in Callers /\ caller[job[w]] = "queued"
    BY DEF Inv, Ranges, Jobs
<1> QED BY <1>1 DEF Inv, InCoAwait, Busy

LEMMA NoHeirs ==
    ASSUME Inv, Tidy, Sequel PROVE NothingInherited
<1> SUFFICES ASSUME ~load.together, ~load.abrupt,
                    NEW w \in Workers, job[w] # None, tx[w] # None
             PROVE  tx[w] = job[w]
    BY DEF NothingInherited, Isolated
<1>1. PICK g \in Callers : tx[w] = g
    BY DEF Inv, Ranges
<1>2. Began(g, w) \/ Held(g, w)
    BY <1>1 DEF Tidy, Owners
<1>3. Busy(g)
    BY <1>2, NoneIsNothing DEF Began, Held, Sequel, Fresh, Busy
<1> QED BY <1>1, <1>3, JobIsBusy DEF Sequel, OneByOne

(***************************************************************************)
(* Requests that come one after another find connections without a         *)
(* transaction of a former one (the rollback of project.cpp:501).          *)
(***************************************************************************)
THEOREM NoneInherits == Spec => []NothingInherited
BY NoHeirs, InvHolds, TidyHolds, SequelHolds, PTL

(***************************************************************************)
(* LastIdIsMine. Of a busy handler, what the connection of its last exec() *)
(* reports is its own insert, or in mysql nothing; a reply may announce    *)
(* one more.                                                               *)
(***************************************************************************)
Own(h, g) == g = h \/ (load.engine = "mysql" /\ g = None)

Mine ==
    \A h \in Callers :
        Busy(h) => /\ last[h] # None => Own(h, inserted[last[h]])
                   /\ phase[h] = "db" /\ caller[h] = "posted" /\ op[h] = "exec" /\ reply[h].ok
                          /\ reply[h].used # None => Own(h, inserted[reply[h].used])

Trail == ~load.together => Mine

LEMMA HandlerMine ==
    ASSUME Inv, Sequel, Mine, NEW h \in Callers, HandlerStep(h)
    PROVE  Mine'
<1> USE DEF Inv, Ranges
<1>1. ASSUME NEW g \in Callers \ {h}
      PROVE  /\ Busy(g)' = Busy(g) /\ last'[g] = last[g] /\ phase'[g] = phase[g]
             /\ caller'[g] = caller[g] /\ op'[g] = op[g]
    BY HandlerFrame DEF Busy
<1>2. UNCHANGED <<reply, inserted, load>>
    BY HandlerFrame
<1>3. ASSUME last'[h] # None
      PROVE  Own(h, inserted[last'[h]])
    <2>1. CASE ~Answer(h)
        <3>1. last' = last
            BY <2>1 DEF HandlerStep, Start, Call, Sleep, Wake, Disconnected,
                        FinishWithoutRollback, Return, RolledBack
        <3>2. Busy(h)
            BY <1>3, <2>1, <3>1 DEF Sequel, Fresh, Busy, HandlerStep, Start, Call, Sleep, Wake,
                   Disconnected, FinishWithoutRollback, Return, RolledBack, Move
        <3> QED BY <1>3, <3>1, <3>2 DEF Mine
    <2>2. CASE Answer(h)
        <3>1. phase[h] = "db" /\ caller[h] = "posted" /\ Busy(h)
            BY <2>2 DEF Answer, Move, Resume, Busy
        <3>2. CASE reply[h].ok /\ op[h] = "exec"
            BY <1>3, <2>2, <3>1, <3>2 DEF Answer, Mine
        <3>3. CASE ~(reply[h].ok /\ op[h] = "exec")
            BY <1>3, <2>2, <3>1, <3>3 DEF Answer, Mine
        <3> QED BY <3>2, <3>3
    <2> QED BY <2>1, <2>2
<1>4. ~(phase'[h] = "db" /\ caller'[h] = "posted")
    BY DEF HandlerStep, Start, Call, Answer, Sleep, Wake, Disconnected,
           FinishWithoutRollback, Return, RolledBack, Move, Await, serviceVars
<1> QED BY <1>1, <1>2, <1>3, <1>4 DEF Mine, Own

LEMMA JobMine ==
    ASSUME Inv, Sequel, Mine, ~load.together, NEW w \in Workers, RunJob(w) \/ ThrowJob(w)
    PROVE  Mine'
<1> USE DEF Inv, Ranges
<1> DEFINE h == job[w]
<1>1. job[w] # None
    BY DEF RunJob, ThrowJob, Finish, Throw
<1>2. h \in Callers /\ Busy(h)
    BY <1>1, JobIsBusy
<1>3. UNCHANGED handlerVars
    BY DEF RunJob, ThrowJob
<1>4. ASSUME NEW g \in Callers, Busy(g)'
      PROVE  g = h
    BY <1>2, <1>3, <1>4 DEF Sequel, OneByOne, Busy, handlerVars
<1>5. CASE Perform(w, h)
    <2>1. PICK o : /\ reply' = [reply EXCEPT ![h] = [ok |-> o.ok, used |-> w]]
                   /\ \E g \in Reported(w, h, o.ok) : inserted' = [inserted EXCEPT ![w] = g]
        BY <1>5 DEF Perform
    <2>2. reply'[h].ok = o.ok /\ reply'[h].used = w
        BY <1>2, <2>1
    <2> HIDE DEF h
    <2>3. \A v \in Workers : Own(h, inserted[v]) => Own(h, inserted'[v])
        BY <2>1 DEF Reported, Own
    <2>4. op[h] = "exec" /\ o.ok => Own(h, inserted'[w])
        BY <2>1 DEF Reported, Own
    <2>5. last[h] # None => Own(h, inserted'[last[h]])
        BY <1>2, <2>3 DEF Mine
    <2> QED BY <1>3, <1>4, <2>2, <2>4, <2>5 DEF Mine, Own, handlerVars
<1>6. CASE UNCHANGED dbVars /\ ThrowJob(w)
    <2>1. caller'[h] = "lost"
        BY <1>2, <1>6 DEF ThrowJob, Throw
    <2> HIDE DEF h
    <2> QED BY <1>2, <1>3, <1>4, <1>6, <2>1 DEF Mine, Own, handlerVars, dbVars
<1> QED BY <1>5, <1>6 DEF RunJob, ThrowJob

LEMMA TrailStep == ASSUME Inv, Sequel, Trail, [Next]_vars PROVE Trail'
<1>1. load' = load
    BY SameLoad
<1> SUFFICES ASSUME ~load.together PROVE Mine'
    BY <1>1 DEF Trail
<1>2. Mine
    BY DEF Trail
<1>3. CASE \E h \in Callers : HandlerStep(h)
    BY <1>2, <1>3, HandlerMine
<1>4. CASE \E w \in Workers : RunJob(w) \/ ThrowJob(w)
    BY <1>2, <1>4, JobMine
<1>5. ASSUME NEW w \in Workers, Drop(w) PROVE Mine'
    <2>1. UNCHANGED <<caller, phase, op, last, reply, load>> /\ load.engine = "mysql"
        BY <1>5 DEF Drop, serviceVars, handlerVars
    <2>2. \A v \in Workers : inserted'[v] \in {inserted[v], None}
        BY <1>5 DEF Drop, Inv, Ranges
    <2>3. \A h \in Callers, v \in Workers : Own(h, inserted[v]) => Own(h, inserted'[v])
        BY <2>1, <2>2 DEF Own
    <2>4. \A h \in Callers : last[h] \in Workers \cup {None} /\ reply[h].used \in Workers \cup {None}
        BY ReplyUsed DEF Inv, Ranges
    <2> QED BY <1>2, <2>1, <2>3, <2>4 DEF Mine, Own, Busy
<1>6. CASE PoolStep \/ UNCHANGED vars
    <2>1. UNCHANGED <<caller, phase, op, last, reply, inserted, load>>
        BY <1>6 DEF PoolStep, Take, Stop, vars, serviceVars, handlerVars, dbVars
    <2> QED BY <1>2, <2>1 DEF Mine, Own, Busy
<1> QED BY <1>3, <1>4, <1>5, <1>6 DEF Next

(***************************************************************************)
(* For one request after another, outside of a transaction last_id() goes  *)
(* to the connection of the handler's last exec(), and never finds the     *)
(* insert of another there: its own, or in mysql none (run_db, open).      *)
(***************************************************************************)
THEOREM OwnLastId == Spec => []LastIdIsMine
<1>1. Init => Trail
    BY DEF Init, Trail, Mine, Busy
<1>2. Spec => []Trail
    BY <1>1, TrailStep, InvHolds, SequelHolds, PTL DEF Spec
<1>3. Inv /\ Sequel /\ Trail => LastIdIsMine
    <2> SUFFICES ASSUME Inv, Sequel, Mine, ~load.together, NEW w \in Workers, NEW h \in Callers,
                        Asking(h, w), op[h] = "last_id", pin[h] = None, last[h] # None
                 PROVE  Own(h, inserted[w])
        BY DEF Trail, LastIdIsMine, Own
    <2>1. w = last[h]
        BY DEF Sequel, Aimed, Route
    <2>2. Busy(h)
        BY DEF Asking, Busy
    <2> QED BY <2>1, <2>2 DEF Mine
<1> QED BY <1>2, <1>3, InvHolds, SequelHolds, PTL

(***************************************************************************)
(* WholeTransactions. A handler that has pinned a connection and seen no   *)
(* error has its transaction there, and what a reply is about to pin is    *)
(* right too.                                                              *)
(***************************************************************************)
Pinned(h) ==
    pin[h] # None /\ ~warned[h] /\ phase[h] \notin {"rolling", "done"} /\ caller[h] # "posted"

Pinning(h) ==
    /\ phase[h] = "db" /\ caller[h] = "posted" /\ reply[h].ok
    /\ NewPin(h) # None /\ (op[h] = "begin" \/ ~warned[h])

Covered ==
    \A h \in Callers : /\ Pinned(h) => tx[pin[h]] = h
                       /\ Pinning(h) => tx[NewPin(h)] = h

Quiet == ~load.together /\ ~load.abrupt /\ ~load.drops
Whole == Quiet => Covered

\* On a connection without a transaction of another's, a begin() that is
\* reported as done has opened one, and a statement leaves it as it was.
LEMMA OutcomeOwner ==
    ASSUME load \in Loads, NEW w \in Workers, NEW h \in Callers,
           NEW o \in Outcomes(w, h), tx[w] \in {None, h}, o.ok
    PROVE  /\ op[h] = "begin" => o.tx = h
           /\ op[h] \notin {"begin", "commit", "rollback"} => o.tx = tx[w]
<1>1. h # None
    BY LoadsAssumption
<1>2. load.engine \in {"sqlite", "postgres", "mysql"}
    BY LoadsAssumption, Zenon DEF Workload
<1> DEFINE N(b) == Outcome(b, None)
           S(b) == Outcome(b, tx[w])
<1>3. Failures(w) = {S(FALSE), N(FALSE)}
    BY DEF Failures
<1>4. CASE op[h] = "begin"
    <2>1. o \in Begin(w, h) \cup Failures(w)
        BY <1>4 DEF Outcomes
    <2>2. CASE tx[w] = None
        BY <1>3, <1>4, <2>1, <2>2 DEF Begin, Outcome
    <2>3. CASE tx[w] = h
        <3> DEFINE r == [sqlite |-> S(FALSE), postgres |-> S(TRUE), mysql |-> Outcome(TRUE, h)]
        <3>1. r[load.engine] \in {S(FALSE), S(TRUE), Outcome(TRUE, h)}
            <4>1. r["sqlite"] = S(FALSE) /\ r["postgres"] = S(TRUE) /\ r["mysql"] = Outcome(TRUE, h)
                OBVIOUS
            <4> HIDE DEF r, S
            <4> QED BY <1>2, <4>1
        <3>2. Begin(w, h) = {r[load.engine]}
            BY <1>1, <2>3, Zenon DEF Begin
        <3> HIDE DEF r
        <3> QED BY <1>3, <1>4, <2>1, <2>3, <3>1, <3>2 DEF Outcome
    <2> QED BY <2>2, <2>3
<1>5. CASE op[h] \notin {"begin", "commit", "rollback"}
    <2>1. o \in {S(TRUE)} \cup Failures(w)
        BY <1>5 DEF Outcomes
    <2> QED BY <1>3, <1>5, <2>1 DEF Outcome
<1> QED BY <1>4, <1>5

LEMMA HandlerWhole ==
    ASSUME Inv, Flags, Sequel, Covered, ~load.abrupt, NEW h \in Callers, HandlerStep(h)
    PROVE  Covered'
<1> USE DEF Inv, Ranges, Flags
<1>1. ASSUME NEW g \in Callers \ {h}
      PROVE  /\ Pinned(g)' = Pinned(g) /\ Pinning(g)' = Pinning(g)
             /\ pin'[g] = pin[g] /\ NewPin(g)' = NewPin(g)
    <2>1. warned'[g] = warned[g]
        BY DEF HandlerStep, Start, Call, Answer, Sleep, Wake, Disconnected,
               FinishWithoutRollback, Return, RolledBack
    <2>2. /\ phase'[g] = phase[g] /\ op'[g] = op[g] /\ pin'[g] = pin[g]
          /\ caller'[g] = caller[g] /\ reply' = reply
        BY HandlerFrame
    <2>3. NewPin(g)' = NewPin(g)
        BY <2>2 DEF NewPin
    <2> QED BY <2>1, <2>2, <2>3 DEF Pinned, Pinning
<1>2. tx' = tx
    BY HandlerFrame
<1>3. ~Pinning(h)'
    BY DEF Pinning, HandlerStep, Start, Call, Answer, Sleep, Wake, Disconnected,
           FinishWithoutRollback, Return, RolledBack, Move, Await, serviceVars
<1>4. ASSUME Pinned(h)'
      PROVE  tx[pin'[h]] = h
    <2>1. CASE Start(h) \/ Sleep(h) \/ Wake(h) \/ \E o \in Ops : Call(h, o)
        <3>1. pin' = pin /\ warned' = warned /\ phase[h] \in {"idle", "running", "sleeping"}
            BY <2>1 DEF Start, Sleep, Wake, Call, Move
        <3>2. caller[h] = "running"
            BY <3>1 DEF InCoAwait
        <3> QED BY <1>4, <3>1, <3>2 DEF Pinned, Covered
    <2>2. CASE Return(h) \/ RolledBack(h)
        BY <1>4, <2>2 DEF Return, RolledBack, Move, Pinned
    <2>3. CASE Disconnected(h) \/ FinishWithoutRollback(h)
        BY <2>3 DEF Disconnected, FinishWithoutRollback
    <2>4. CASE Answer(h)
        <3>1. phase[h] = "db" /\ caller[h] = "posted"
            BY <2>4 DEF Answer, Move, Resume
        <3>2. reply[h].ok
            BY <1>4, <2>4 DEF Answer, Pinned
        <3>3. pin'[h] = NewPin(h)
            BY <2>4, <3>2 DEF Answer
        <3>4. op[h] = "begin" \/ ~warned[h]
            BY <1>4, <2>4, <3>2 DEF Answer, Pinned
        <3>5. Pinning(h)
            BY <1>4, <3>1, <3>2, <3>3, <3>4 DEF Pinning, Pinned
        <3> QED BY <3>3, <3>5 DEF Covered
    <2> QED BY <2>1, <2>2, <2>3, <2>4 DEF HandlerStep
<1> QED BY <1>1, <1>2, <1>3, <1>4 DEF Covered

LEMMA RunJobWhole ==
    ASSUME Inv, Tidy, Sequel, Covered, Quiet, NEW w \in Workers, RunJob(w)
    PROVE  Covered'
<1>1. PICK h \in Callers : /\ h = job[w] /\ Busy(h) /\ caller[h] = "queued"
                           /\ phase[h] \in {"db", "rolling"}
    BY JobIsBusy DEF RunJob, Finish
<1>2. UNCHANGED <<phase, op, pin, warned>> /\ caller' = [caller EXCEPT ![h] = "posted"]
    BY <1>1 DEF RunJob, Finish, handlerVars
<1>3. tx[w] \in {None, h}
    BY <1>1, NoHeirs, NoneIsNothing DEF NothingInherited, Isolated, Quiet
<1>4. pin[h] # None => w = pin[h]
    BY <1>1, NoneIsNothing DEF Inv, OnOwnConnection
<1>5. PICK o \in Outcomes(w, h) :
        /\ tx' = [tx EXCEPT ![w] = o.tx]
        /\ reply' = [reply EXCEPT ![h] = [ok |-> o.ok, used |-> w]]
    BY <1>1 DEF RunJob, Perform
<1>6. tx'[w] = o.tx /\ reply'[h].ok = o.ok /\ reply'[h].used = w
    BY <1>1, <1>5 DEF Inv, Ranges
<1>7. ASSUME NEW g \in Callers \ {h}
      PROVE  ~Pinned(g)' /\ ~Pinning(g)'
    <2>1. phase[g] \in {"idle", "done"}
        BY <1>1, <1>7 DEF Sequel, OneByOne, Quiet, Busy
    <2>2. phase[g] = "idle" => pin[g] = None
        BY DEF Sequel, Fresh
    <2> QED BY <1>2, <2>1, <2>2 DEF Pinned, Pinning
<1>8. ~Pinned(h)'
    BY <1>2 DEF Pinned, Inv, Ranges
<1>9. ASSUME Pinning(h)'
      PROVE  tx'[NewPin(h)'] = h
    <2>1. o.ok /\ op[h] \notin {"commit", "rollback"} /\ phase[h] = "db"
        BY <1>2, <1>6, <1>9 DEF Pinning, NewPin
    <2>2. /\ op[h] = "begin" => o.tx = h
          /\ op[h] # "begin" => o.tx = tx[w]
        BY <1>3, <2>1, OutcomeOwner DEF Inv, Ranges
    <2>3. CASE op[h] = "begin"
        BY <1>2, <1>6, <2>2, <2>3 DEF NewPin
    <2>4. CASE op[h] # "begin"
        <3>1. NewPin(h)' = pin[h] /\ pin[h] # None /\ ~warned[h]
            BY <1>2, <1>9, <2>1, <2>4 DEF NewPin, Pinning
        <3>2. Pinned(h)
            BY <1>1, <2>1, <3>1 DEF Pinned
        <3> QED BY <1>4, <1>6, <2>2, <2>4, <3>1, <3>2 DEF Covered
    <2> QED BY <2>3, <2>4
<1> QED BY <1>7, <1>8, <1>9 DEF Covered

LEMMA WholeStep ==
    ASSUME Inv, Flags, Tidy, Sequel, Whole, [Next]_vars PROVE Whole'
<1>1. load' = load
    BY SameLoad
<1> SUFFICES ASSUME Quiet PROVE Covered'
    BY <1>1 DEF Whole, Quiet
<1>2. Covered
    BY DEF Whole
<1>3. CASE \E h \in Callers : HandlerStep(h)
    BY <1>2, <1>3, HandlerWhole DEF Quiet
<1>4. CASE \E w \in Workers : RunJob(w)
    BY <1>2, <1>4, RunJobWhole
<1>5. CASE \E w \in Workers : ThrowJob(w) \/ Drop(w)
    BY <1>5 DEF ThrowJob, Drop, Quiet
<1>6. CASE PoolStep \/ UNCHANGED vars
    <2>1. UNCHANGED <<caller, phase, op, pin, warned, reply, tx>>
        BY <1>6 DEF PoolStep, Take, Stop, vars, serviceVars, handlerVars, dbVars
    <2>2. \A h \in Callers : NewPin(h)' = NewPin(h)
        BY <2>1 DEF NewPin
    <2> QED BY <1>2, <2>1, <2>2 DEF Covered, Pinned, Pinning
<1> QED BY <1>3, <1>4, <1>5, <1>6 DEF Next

(***************************************************************************)
(* From a begin() that succeeds until an error is reported every statement *)
(* of a handler runs inside its transaction, for requests that come one    *)
(* after another on links that stay up.                                    *)
(***************************************************************************)
THEOREM WholeHolds == Spec => []WholeTransactions
<1>1. Init => Whole
    BY DEF Init, ServiceInit, Whole, Covered, Pinned, Pinning
<1>2. Spec => []Flags
    BY InitFlags, NextFlags, PTL DEF Spec
<1>3. Spec => []Whole
    BY <1>1, <1>2, WholeStep, InvHolds, TidyHolds, SequelHolds, PTL DEF Spec
<1>4. Inv /\ Whole => WholeTransactions
    <2> SUFFICES ASSUME Inv, Covered, NEW w \in Workers, NEW h \in Callers,
                        Asking(h, w), pin[h] # None, ~warned[h]
                 PROVE  tx[w] = h
        BY DEF Whole, Quiet, WholeTransactions, InItsTransaction
    <2>1. job[w] = h /\ w = pin[h] /\ caller[h] = "queued" /\ phase[h] = "db"
        BY NoneIsNothing DEF Inv, Asking, OnOwnConnection, Jobs
    <2>2. Pinned(h)
        BY <2>1 DEF Pinned
    <2> QED BY <2>1, <2>2 DEF Covered
<1> QED BY <1>3, <1>4, InvHolds, PTL
=============================================================================
