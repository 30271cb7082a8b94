---------------------------- MODULE DbPoolProofs ----------------------------
(***************************************************************************)
(* Proofs about DbPool, for any number of coroutines and of workers: types, *)
(* no lost wakeup, a stop() that leaves nothing behind and comes to an     *)
(* end, and the implementation of JobService.                              *)
(***************************************************************************)
EXTENDS DbPool, SequenceTheorems, TLAPS

LEMMA NoneIsNothing == None \notin Workers /\ None \notin Callers
BY PoolAssumption

(***************************************************************************)
(* Queues: what push and pop do to the members of a queue without          *)
(* repetitions.                                                            *)
(***************************************************************************)
Distinct(s) == \A i, j \in DOMAIN s : s[i] = s[j] => i = j

LEMMA Push ==
    ASSUME NEW S, NEW s \in Seq(S), NEW c \in S
    PROVE  /\ Append(s, c) \in Seq(S)
           /\ \A x : Queued(Append(s, c), x) <=> Queued(s, x) \/ x = c
           /\ Distinct(s) /\ ~Queued(s, c) => Distinct(Append(s, c))
<1> DEFINE t == Append(s, c)
<1>1. /\ t \in Seq(S)
      /\ Len(s) \in Nat /\ DOMAIN s = 1..Len(s) /\ DOMAIN t = 1..(Len(s) + 1)
      /\ \A i \in 1..Len(s) : t[i] = s[i]
      /\ t[Len(s) + 1] = c
    BY AppendProperties, LenProperties
<1> HIDE DEF t
<1>2. \A x : Queued(t, x) <=> Queued(s, x) \/ x = c
    BY <1>1 DEF Queued
<1>3. Distinct(s) /\ ~Queued(s, c) => Distinct(t)
    BY <1>1 DEF Queued, Distinct
<1> QED BY <1>1, <1>2, <1>3 DEF t

LEMMA Pop ==
    ASSUME NEW S, NEW s \in Seq(S), s # <<>>, Distinct(s)
    PROVE  /\ Head(s) \in S /\ Tail(s) \in Seq(S) /\ Distinct(Tail(s))
           /\ Queued(s, Head(s))
           /\ \A x : Queued(Tail(s), x) <=> Queued(s, x) /\ x # Head(s)
<1> DEFINE t == Tail(s)
<1>1. /\ t \in Seq(S)
      /\ Len(s) \in Nat \ {0} /\ DOMAIN s = 1..Len(s) /\ DOMAIN t = 1..(Len(s) - 1)
      /\ \A i \in 1..(Len(s) - 1) : t[i] = s[i + 1]
      /\ Head(s) = s[1] /\ Head(s) \in S
    <2>1. t \in Seq(S) /\ Head(s) \in S
          /\ Len(t) = Len(s) - 1 /\ \A i \in 1..Len(t) : t[i] = s[i + 1]
        BY HeadTailProperties
    <2>2. DOMAIN s = 1..Len(s) /\ DOMAIN t = 1..Len(t) /\ Len(s) \in Nat /\ Len(t) \in Nat
        BY <2>1, LenProperties
    <2>3. Head(s) = s[1]
        OBVIOUS
    <2> HIDE DEF t
    <2> QED BY <2>1, <2>2, <2>3
<1> HIDE DEF t
<1>2. Distinct(t)
    <2>1. ASSUME NEW i \in 1..(Len(s) - 1), NEW j \in 1..(Len(s) - 1), t[i] = t[j]
          PROVE  i = j
        <3>1. i + 1 \in 1..Len(s) /\ j + 1 \in 1..Len(s) /\ s[i + 1] = s[j + 1]
            BY <1>1, <2>1
        <3>2. i + 1 = j + 1
            BY <1>1, <3>1 DEF Distinct
        <3> QED BY <3>2
    <2> QED BY <1>1, <2>1 DEF Distinct
<1>3. Queued(s, Head(s))
    BY <1>1 DEF Queued
<1>4. ASSUME NEW x, Queued(t, x) PROVE Queued(s, x) /\ x # Head(s)
    BY <1>1, <1>4 DEF Queued, Distinct
<1>5. ASSUME NEW x, Queued(s, x), x # Head(s) PROVE Queued(t, x)
    <2>1. PICK i \in 1..Len(s) : s[i] = x
        BY <1>1, <1>5 DEF Queued
    <2>2. i - 1 \in 1..(Len(s) - 1) /\ t[i - 1] = x
        BY <1>1, <1>5, <2>1
    <2> QED BY <1>1, <2>2 DEF Queued
<1> QED BY <1>1, <1>2, <1>3, <1>4, <1>5 DEF t

(***************************************************************************)
(* The inductive invariant. PoolTypeOK is taken apart: Ranges, and Flag    *)
(* for the Boolean variable.                                               *)
(***************************************************************************)
Threads == {"looking", "asleep", "busy", "gone"}
States  == {"running", "queued", "lost", "posted"}

Ranges ==
    /\ jobs \in Seq(Callers)
    /\ pinned \in [Workers -> Seq(Callers)]
    /\ thread \in [Workers -> Threads]
    /\ job \in [Workers -> Callers \cup {None}]
    /\ stopCall \in {"no", "notify", "join", "returned"}
    /\ caller \in [Callers -> States]
    /\ owed \in [Callers -> {"nothing", "one", "all"}]

Flag == stopping \in BOOLEAN

\* Where the job of a suspended caller is: in one place, once.
InWorker(w, c) == Queued(pinned[w], c) \/ job[w] = c

Places ==
    /\ Distinct(jobs) /\ \A w \in Workers : Distinct(pinned[w])
    /\ \A c \in Callers :
           Queued(jobs, c) => \A w \in Workers : ~InWorker(w, c)
    /\ \A c \in Callers, w \in Workers :
           /\ Queued(pinned[w], c) => job[w] # c
           /\ \A v \in Workers : InWorker(v, c) /\ InWorker(w, c) => v = w
    /\ \A c \in Callers :
           caller[c] = "queued" <=> Queued(jobs, c) \/ \E w \in Workers : InWorker(w, c)

\* A worker is busy with a job, or has none; it returns when nothing is left.
Exits ==
    /\ \A w \in Workers : thread[w] = "busy" <=> job[w] # None
    /\ stopping <=> stopCall # "no"
    /\ \A w \in Workers : thread[w] = "gone" => stopping /\ Idle(w)
    /\ stopCall = "returned" => \A w \in Workers : thread[w] = "gone"

\* A caller that runs has made the notify of its last job.
Paid == \A c \in Callers : caller[c] = "running" => owed[c] = "nothing"

Inv == Ranges /\ Places /\ Exits /\ Paid /\ SomeoneIsComing

LEMMA TypeParts == PoolTypeOK <=> Ranges /\ Flag
BY DEF PoolTypeOK, Ranges, Flag, Threads, States

LEMMA EmptyQueue == <<>> \in Seq(Callers) /\ Distinct(<<>>) /\ \A c : ~Queued(<<>>, c)
BY DEF Distinct, Queued

LEMMA InitInv == PoolInit => Inv
<1> SUFFICES ASSUME PoolInit PROVE Inv
    OBVIOUS
<1> USE NoneIsNothing, EmptyQueue DEF PoolInit
<1>1. Ranges
    BY DEF Ranges, Threads, States
<1>2. Places
    BY DEF Places, InWorker
<1>3. Exits
    BY DEF Exits
<1>4. SomeoneIsComing
    BY DEF SomeoneIsComing, Asleep
<1>5. Paid
    BY DEF Paid
<1> QED BY <1>1, <1>2, <1>3, <1>4, <1>5 DEF Inv

(***************************************************************************)
(* The steps that change a queue.                                          *)
(***************************************************************************)
\* What the arrival of a job needs: its caller has none in the pool.
LEMMA NoJobYet ==
    ASSUME Places, NEW c \in Callers, caller[c] # "queued"
    PROVE  ~Queued(jobs, c) /\ \A w \in Workers : ~InWorker(w, c)
BY DEF Places

LEMMA SubmitPlaces ==
    ASSUME Ranges, Places, NEW c \in Callers, caller[c] # "queued",
           Submit(c), caller' = [caller EXCEPT ![c] = "queued"], UNCHANGED job
    PROVE  jobs' \in Seq(Callers) /\ Places'
<1>1. /\ jobs' \in Seq(Callers) /\ Distinct(jobs')
      /\ \A x : Queued(jobs', x) <=> Queued(jobs, x) \/ x = c
    BY Push, NoJobYet DEF Submit, Ranges, Places
<1>2. /\ pinned' = pinned /\ job' = job
      /\ \A x \in Callers : caller'[x] = IF x = c THEN "queued" ELSE caller[x]
    BY DEF Submit, Ranges
<1>3. \A w \in Workers, x \in Callers : InWorker(w, x)' <=> InWorker(w, x)
    BY <1>2 DEF InWorker
<1> QED BY <1>1, <1>2, <1>3, NoJobYet DEF Places

LEMMA SubmitToPlaces ==
    ASSUME Ranges, Places, NEW c \in Callers, NEW w \in Workers, caller[c] # "queued",
           SubmitTo(w, c), caller' = [caller EXCEPT ![c] = "queued"], UNCHANGED job
    PROVE  /\ pinned' \in [Workers -> Seq(Callers)] /\ Places'
           /\ \A v \in Workers, x \in Callers :
                  Queued(pinned'[v], x) <=> Queued(pinned[v], x) \/ (v = w /\ x = c)
<1>1. pinned[w] \in Seq(Callers) /\ Distinct(pinned[w]) /\ ~Queued(pinned[w], c)
    BY NoJobYet DEF Ranges, Places, InWorker
<1>2. /\ pinned' = [pinned EXCEPT ![w] = Append(pinned[w], c)]
      /\ Append(pinned[w], c) \in Seq(Callers) /\ Distinct(Append(pinned[w], c))
      /\ \A x : Queued(Append(pinned[w], c), x) <=> Queued(pinned[w], x) \/ x = c
    BY <1>1, Push DEF SubmitTo
<1>3. \A v \in Workers : pinned'[v] = IF v = w THEN Append(pinned[w], c) ELSE pinned[v]
    BY <1>2 DEF Ranges
<1>4. \A v \in Workers, x \in Callers : Queued(pinned'[v], x) <=> Queued(pinned[v], x) \/ (v = w /\ x = c)
    BY <1>2, <1>3
<1>5. \A v \in Workers : Distinct(pinned'[v])
    BY <1>2, <1>3 DEF Places
<1>6. /\ jobs' = jobs /\ job' = job
      /\ \A x \in Callers : caller'[x] = IF x = c THEN "queued" ELSE caller[x]
    BY DEF SubmitTo, Ranges
<1>7. \A v \in Workers, x \in Callers : InWorker(v, x)' <=> InWorker(v, x) \/ (v = w /\ x = c)
    BY <1>4, <1>6 DEF InWorker
<1>8. Places'
    <2>1. \A x \in Callers :
              Queued(jobs', x) => \A v \in Workers : ~InWorker(v, x)'
        BY <1>6, <1>7, NoJobYet DEF Places
    <2>2. \A x \in Callers, v \in Workers : Queued(pinned'[v], x) => job'[v] # x
        BY <1>4, <1>6, NoJobYet DEF Places, InWorker
    <2>3. \A x \in Callers, u, v \in Workers : InWorker(u, x)' /\ InWorker(v, x)' => u = v
        BY <1>7, NoJobYet DEF Places
    <2>4. \A x \in Callers :
              caller'[x] = "queued" <=> Queued(jobs', x) \/ \E v \in Workers : InWorker(v, x)'
        BY <1>6, <1>7, NoJobYet DEF Places
    <2>5. Distinct(jobs')
        BY <1>6 DEF Places
    <2> QED BY <1>5, <2>1, <2>2, <2>3, <2>4, <2>5 DEF Places
<1>9. pinned' \in [Workers -> Seq(Callers)]
    BY <1>2 DEF Ranges
<1> QED BY <1>4, <1>8, <1>9

LEMMA TakePinnedPlaces ==
    ASSUME Ranges, Places, Exits, NEW w \in Workers, TakePinned(w)
    PROVE  /\ pinned' \in [Workers -> Seq(Callers)]
           /\ job' \in [Workers -> Callers \cup {None}]
           /\ Places' /\ job'[w] # None
           /\ job[w] = None /\ Head(pinned[w]) \in Callers
           /\ Queued(pinned[w], Head(pinned[w]))
           /\ \A v \in Workers, x \in Callers :
                  Queued(pinned'[v], x) <=> Queued(pinned[v], x) /\ ~(v = w /\ x = Head(pinned[w]))
           /\ \A v \in Workers \ {w} : job'[v] = job[v] /\ pinned'[v] = pinned[v]
<1>1. pinned[w] \in Seq(Callers) /\ pinned[w] # <<>> /\ Distinct(pinned[w])
    BY DEF TakePinned, Ranges, Places
<1>2. PICK c \in Callers : c = Head(pinned[w])
    BY <1>1, Pop
<1>3. PICK t \in Seq(Callers) :
          /\ t = Tail(pinned[w]) /\ Distinct(t)
          /\ \A x : Queued(t, x) <=> Queued(pinned[w], x) /\ x # c
    BY <1>1, <1>2, Pop
<1>4. Queued(pinned[w], c)
    BY <1>1, <1>2, Pop
<1>5. job' = [job EXCEPT ![w] = c] /\ pinned' = [pinned EXCEPT ![w] = t]
    BY <1>2, <1>3 DEF TakePinned
<1>6. /\ \A v \in Workers : pinned'[v] = IF v = w THEN t ELSE pinned[v]
      /\ \A v \in Workers : job'[v] = IF v = w THEN c ELSE job[v]
      /\ jobs' = jobs /\ caller' = caller
    BY <1>5 DEF Ranges, TakePinned
<1>7. job[w] = None
    BY DEF Exits, TakePinned
<1>8. \A v \in Workers, x \in Callers : Queued(pinned'[v], x) <=> Queued(pinned[v], x) /\ ~(v = w /\ x = c)
    BY <1>3, <1>6
<1>9. \A v \in Workers : Distinct(pinned'[v])
    BY <1>3, <1>6 DEF Places
<1>10. \A v \in Workers, x \in Callers : InWorker(v, x)' <=> InWorker(v, x)
    BY <1>4, <1>6, <1>7, <1>8, NoneIsNothing DEF InWorker
<1>11. Places'
    BY <1>4, <1>6, <1>7, <1>8, <1>9, <1>10, NoneIsNothing DEF Places, InWorker
<1>12. pinned' \in [Workers -> Seq(Callers)]
    BY <1>5 DEF Ranges
<1>13. job' \in [Workers -> Callers \cup {None}]
    BY <1>5 DEF Ranges
<1> QED BY <1>2, <1>4, <1>6, <1>7, <1>8, <1>11, <1>12, <1>13, NoneIsNothing

LEMMA TakeFreePlaces ==
    ASSUME Ranges, Places, Exits, NEW w \in Workers, TakeFree(w)
    PROVE  /\ jobs' \in Seq(Callers)
           /\ job' \in [Workers -> Callers \cup {None}]
           /\ Places' /\ job'[w] # None
           /\ job[w] = None /\ Head(jobs) \in Callers /\ Queued(jobs, Head(jobs))
           /\ \A v \in Workers \ {w} : job'[v] = job[v]
<1>1. jobs \in Seq(Callers) /\ jobs # <<>> /\ Distinct(jobs)
    BY DEF TakeFree, Ranges, Places
<1>2. PICK c \in Callers : c = Head(jobs)
    BY <1>1, Pop
<1>3. /\ jobs' \in Seq(Callers) /\ Distinct(jobs') /\ Queued(jobs, c)
      /\ \A x : Queued(jobs', x) <=> Queued(jobs, x) /\ x # c
    BY <1>1, <1>2, Pop DEF TakeFree
<1>4. job' = [job EXCEPT ![w] = c] /\ pinned' = pinned /\ caller' = caller
    BY <1>2 DEF TakeFree
<1>5. \A v \in Workers : job'[v] = IF v = w THEN c ELSE job[v]
    BY <1>4 DEF Ranges
<1>6. job[w] = None
    BY DEF Exits, TakeFree
<1>7. \A v \in Workers, x \in Callers : InWorker(v, x)' <=> InWorker(v, x) \/ (v = w /\ x = c)
    BY <1>4, <1>5, <1>6, NoneIsNothing DEF InWorker
<1>8. Places'
    BY <1>3, <1>4, <1>5, <1>7 DEF Places, InWorker
<1>9. job' \in [Workers -> Callers \cup {None}]
    BY <1>4 DEF Ranges
<1> QED BY <1>2, <1>3, <1>5, <1>6, <1>8, <1>9, NoneIsNothing

\* The end of a job, by its post() or by an exception.
LEMMA EndPlaces ==
    ASSUME Ranges, Places, Exits, NEW w \in Workers, thread[w] = "busy",
           NEW end \in {"posted", "lost"},
           caller' = [caller EXCEPT ![job[w]] = end], job' = [job EXCEPT ![w] = None],
           UNCHANGED <<jobs, pinned>>
    PROVE  /\ job' \in [Workers -> Callers \cup {None}]
           /\ caller' \in [Callers -> States]
           /\ job[w] \in Callers /\ Places'
<1>1. PICK c \in Callers : c = job[w]
    BY DEF Ranges, Exits
<1>2. /\ \A v \in Workers : job'[v] = IF v = w THEN None ELSE job[v]
      /\ \A x \in Callers : caller'[x] = IF x = c THEN end ELSE caller[x]
    BY <1>1 DEF Ranges
<1>3. InWorker(w, c) /\ ~Queued(pinned[w], c) /\ ~Queued(jobs, c)
    BY <1>1 DEF InWorker, Places
<1>4. \A v \in Workers, x \in Callers : InWorker(v, x)' <=> InWorker(v, x) /\ x # c
    BY <1>1, <1>2, <1>3, NoneIsNothing DEF InWorker, Places
<1>5. Places'
    BY <1>1, <1>2, <1>3, <1>4, NoneIsNothing DEF Places
<1>6. job' \in [Workers -> Callers \cup {None}]
    BY DEF Ranges
<1>7. caller' \in [Callers -> States]
    BY <1>1 DEF Ranges, States
<1> QED BY <1>1, <1>5, <1>6, <1>7

(***************************************************************************)
(* The steps that wake workers.                                            *)
(***************************************************************************)
LEMMA WakeAllWakes ==
    ASSUME Ranges, WakeAll
    PROVE  /\ thread' \in [Workers -> Threads]
           /\ Asleep' = {}
           /\ \A w \in Workers : /\ thread'[w] = "busy" <=> thread[w] = "busy"
                                 /\ thread'[w] = "gone" <=> thread[w] = "gone"
BY DEF Ranges, WakeAll, Asleep, Threads

LEMMA WakeOneWakes ==
    ASSUME Ranges, WakeOne
    PROVE  /\ thread' \in [Workers -> Threads]
           /\ Asleep' \subseteq Asleep /\ Asleep' # Workers
           /\ \A w \in Workers : /\ thread'[w] = "busy" <=> thread[w] = "busy"
                                 /\ thread'[w] = "gone" <=> thread[w] = "gone"
<1>1. CASE Asleep = {}
    BY <1>1, PoolAssumption DEF WakeOne, Ranges, Asleep
<1>2. CASE Asleep # {}
    <2>1. PICK v \in Asleep : thread' = [thread EXCEPT ![v] = "looking"]
        BY <1>2 DEF WakeOne
    <2>2. v \in Workers /\ thread[v] = "asleep"
          /\ \A w \in Workers : thread'[w] = IF w = v THEN "looking" ELSE thread[w]
        BY <2>1 DEF Ranges, Asleep
    <2>3. thread' \in [Workers -> Threads]
        BY <2>1, <2>2 DEF Ranges, Threads
    <2> QED BY <2>2, <2>3 DEF Asleep
<1> QED BY <1>1, <1>2

(***************************************************************************)
(* The invariant, one conjunct at a time.                                  *)
(***************************************************************************)
\* Only these steps change what Places is about.
LEMMA PlacesStay ==
    ASSUME Places, UNCHANGED <<jobs, pinned, job, caller>>
    PROVE  Places'
BY DEF Places, InWorker, Queued, Distinct

LEMMA AwaitInv ==
    ASSUME Inv, NEW c \in Callers, NEW pin \in Workers \cup {None}, Await(c, pin)
    PROVE  Inv'
<1> USE DEF Inv
<1>1. /\ caller[c] = "running"
      /\ thread' = thread /\ job' = job /\ stopCall' = stopCall /\ (stopping' <=> stopping)
      /\ Asleep' = Asleep
    BY DEF Await, Asleep
<1>2. CASE stopping
    <2>1. /\ caller' = [caller EXCEPT ![c] = "lost"]
          /\ jobs' = jobs /\ pinned' = pinned /\ owed' = owed
        BY <1>2 DEF Await
    <2>2. \A x \in Callers : caller'[x] = IF x = c THEN "lost" ELSE caller[x]
        BY <2>1 DEF Ranges
    <2>3. Ranges'
        BY <1>1, <2>1 DEF Ranges, States
    <2>4. Places'
        <3>1. \A x \in Callers : caller'[x] = "queued" <=> caller[x] = "queued"
            BY <1>1, <2>2
        <3> QED BY <1>1, <2>1, <3>1 DEF Places, InWorker
    <2>5. Exits'
        BY <1>1, <2>1 DEF Exits, Idle
    <2>6. Paid'
        BY <1>1, <2>1, <2>2 DEF Paid
    <2>7. SomeoneIsComing'
        BY <1>1, <2>1 DEF SomeoneIsComing, Owing
    <2> QED BY <2>3, <2>4, <2>5, <2>6, <2>7
<1>3. CASE ~stopping
    <2>1. caller' = [caller EXCEPT ![c] = "queued"] /\ caller[c] # "queued"
        BY <1>1, <1>3 DEF Await
    <2>2. \A x \in Callers : caller'[x] = IF x = c THEN "queued" ELSE caller[x]
        BY <2>1 DEF Ranges
    <2>3. caller' \in [Callers -> States]
        BY <2>1 DEF Ranges, States
    <2>4. CASE pin = None
        <3>1. Submit(c)
            BY <1>3, <2>4 DEF Await
        <3>2. jobs' \in Seq(Callers) /\ Places' /\ pinned' = pinned
            BY <1>1, <2>1, <3>1, SubmitPlaces DEF Submit
        <3>3. /\ owed' \in [Callers -> {"nothing", "one", "all"}]
              /\ \A x \in Callers : owed'[x] = IF x = c THEN "one" ELSE owed[x]
            BY <3>1 DEF Submit, Ranges
        <3>4. Ranges'
            BY <1>1, <2>3, <3>2, <3>3 DEF Ranges
        <3>5. Exits'
            BY <1>1, <1>3, <3>2 DEF Exits
        <3>6. Paid'
            BY <2>2, <3>3 DEF Paid
        <3>7. owed[c] = "nothing"
            BY <1>1 DEF Paid
        <3>8. c \in Owing("one")' /\ Owing("all") \subseteq Owing("all")'
            BY <3>3, <3>7 DEF Owing
        <3>9. SomeoneIsComing'
            BY <1>1, <3>2, <3>8 DEF SomeoneIsComing
        <3> QED BY <3>2, <3>4, <3>5, <3>6, <3>9
    <2>5. CASE pin # None
        <3>1. pin \in Workers /\ SubmitTo(pin, c) /\ jobs' = jobs
            BY <1>3, <2>5 DEF Await, SubmitTo
        <3>2. pinned' \in [Workers -> Seq(Callers)] /\ Places'
            BY <1>1, <2>1, <3>1, SubmitToPlaces
        <3>3. /\ owed' \in [Callers -> {"nothing", "one", "all"}]
              /\ \A x \in Callers : owed'[x] = IF x = c THEN "all" ELSE owed[x]
            BY <3>1 DEF SubmitTo, Ranges
        <3>4. Ranges'
            BY <1>1, <2>3, <3>1, <3>2, <3>3 DEF Ranges
        <3>5. Exits'
            BY <1>1, <1>3 DEF Exits
        <3>6. Paid'
            BY <2>2, <3>3 DEF Paid
        <3>7. c \in Owing("all")'
            BY <3>3 DEF Owing
        <3>8. SomeoneIsComing'
            BY <3>7 DEF SomeoneIsComing
        <3> QED BY <3>2, <3>4, <3>5, <3>6, <3>8
    <2> QED BY <2>4, <2>5
<1> QED BY <1>2, <1>3

LEMMA NotifyInv ==
    ASSUME Inv, NEW c \in Callers, Notify(c)
    PROVE  Inv'
<1> USE DEF Inv
<1>1. /\ jobs' = jobs /\ pinned' = pinned /\ job' = job /\ caller' = caller
      /\ stopCall' = stopCall /\ (stopping' <=> stopping)
      /\ owed' = [owed EXCEPT ![c] = "nothing"]
    BY DEF Notify
<1>2. /\ owed' \in [Callers -> {"nothing", "one", "all"}]
      /\ \A x \in Callers : owed'[x] = IF x = c THEN "nothing" ELSE owed[x]
    BY <1>1 DEF Ranges
<1>3. (owed[c] = "one" /\ WakeOne) \/ (owed[c] = "all" /\ WakeAll)
    BY DEF Notify
<1>4. /\ thread' \in [Workers -> Threads]
      /\ \A w \in Workers : /\ thread'[w] = "busy" <=> thread[w] = "busy"
                            /\ thread'[w] = "gone" <=> thread[w] = "gone"
    BY <1>3, WakeAllWakes, WakeOneWakes
<1>5. Ranges'
    BY <1>1, <1>2, <1>4 DEF Ranges
<1>6. Places'
    BY <1>1, PlacesStay
<1>7. Exits'
    BY <1>1, <1>4 DEF Exits, Idle
<1>8. Paid'
    BY <1>1, <1>2 DEF Paid
<1>9. SomeoneIsComing'
    <2>1. CASE owed[c] = "all"
        BY <1>3, <2>1, WakeAllWakes, PoolAssumption DEF SomeoneIsComing
    <2>2. CASE owed[c] = "one"
        <3>1. Asleep' \subseteq Asleep /\ Asleep' # Workers
            BY <1>3, <2>2, WakeOneWakes
        <3>2. Owing("all") \subseteq Owing("all")'
            BY <1>2, <2>2 DEF Owing
        <3> QED BY <1>1, <3>1, <3>2 DEF SomeoneIsComing
    <2> QED BY <1>3, <2>1, <2>2
<1> QED BY <1>5, <1>6, <1>7, <1>8, <1>9

LEMMA ResumeInv ==
    ASSUME Inv, NEW c \in Callers, Resume(c)
    PROVE  Inv'
<1> USE DEF Inv
<1>1. /\ jobs' = jobs /\ pinned' = pinned /\ job' = job /\ thread' = thread
      /\ stopCall' = stopCall /\ (stopping' <=> stopping) /\ owed' = owed
      /\ caller' = [caller EXCEPT ![c] = "running"]
      /\ caller[c] = "posted" /\ owed[c] = "nothing"
    BY DEF Resume
<1>2. /\ caller' \in [Callers -> States]
      /\ \A x \in Callers : caller'[x] = IF x = c THEN "running" ELSE caller[x]
    BY <1>1 DEF Ranges, States
<1>3. Ranges'
    BY <1>1, <1>2 DEF Ranges
<1>4. Places'
    <2>1. \A x \in Callers : caller'[x] = "queued" <=> caller[x] = "queued"
        BY <1>1, <1>2
    <2> QED BY <1>1, <2>1 DEF Places, InWorker
<1>5. Exits'
    BY <1>1 DEF Exits, Idle
<1>6. Paid'
    BY <1>1, <1>2 DEF Paid
<1>7. SomeoneIsComing'
    BY <1>1 DEF SomeoneIsComing, Asleep, Owing
<1> QED BY <1>3, <1>4, <1>5, <1>6, <1>7

LEMMA TakeInv ==
    ASSUME Inv, NEW w \in Workers, TakePinned(w) \/ TakeFree(w)
    PROVE  Inv'
<1> USE DEF Inv
<1>1. /\ caller' = caller /\ stopCall' = stopCall /\ (stopping' <=> stopping) /\ owed' = owed
      /\ thread[w] = "looking" /\ thread' = [thread EXCEPT ![w] = "busy"]
    BY DEF TakePinned, TakeFree
<1>2. /\ thread' \in [Workers -> Threads]
      /\ \A v \in Workers : thread'[v] = IF v = w THEN "busy" ELSE thread[v]
    BY <1>1 DEF Ranges, Threads
<1>3. Asleep' = Asleep /\ w \notin Asleep
    BY <1>1, <1>2 DEF Asleep
<1>4. /\ jobs' \in Seq(Callers) /\ pinned' \in [Workers -> Seq(Callers)]
      /\ job' \in [Workers -> Callers \cup {None}]
      /\ Places' /\ job'[w] # None
      /\ \A v \in Workers \ {w} : job'[v] = job[v] /\ pinned'[v] = pinned[v]
      /\ jobs = <<>> => jobs' = <<>>
    <2>1. CASE TakePinned(w)
        <3>1. jobs' = jobs
            BY <2>1 DEF TakePinned
        <3> QED BY <2>1, <3>1, TakePinnedPlaces DEF Ranges
    <2>2. CASE TakeFree(w)
        <3>1. jobs # <<>> /\ pinned' = pinned
            BY <2>2 DEF TakeFree
        <3> QED BY <2>2, <3>1, TakeFreePlaces DEF Ranges
    <2> QED BY <2>1, <2>2
<1>5. Ranges'
    BY <1>1, <1>2, <1>4 DEF Ranges
<1>6. Exits'
    BY <1>1, <1>2, <1>4 DEF Exits, Idle
<1>7. Paid'
    BY <1>1 DEF Paid
<1>8. SomeoneIsComing'
    <2>1. Asleep' # Workers
        BY <1>3
    <2>2. \A v \in Asleep' : v \in Workers \ {w}
        BY <1>3 DEF Asleep
    <2> QED BY <1>1, <1>3, <1>4, <2>1, <2>2 DEF SomeoneIsComing, Owing
<1> QED BY <1>4, <1>5, <1>6, <1>7, <1>8

\* The wait, its return and the end of the thread.
LEMMA WaitInv ==
    ASSUME Inv, NEW w \in Workers, FallAsleep(w) \/ Exit(w) \/ SpuriousWakeup(w)
    PROVE  Inv'
<1> USE DEF Inv
<1>1. /\ jobs' = jobs /\ pinned' = pinned /\ job' = job /\ caller' = caller
      /\ stopCall' = stopCall /\ (stopping' <=> stopping) /\ owed' = owed
    BY DEF FallAsleep, Exit, SpuriousWakeup
<1>2. PICK to \in {"asleep", "gone", "looking"} :
          /\ thread' = [thread EXCEPT ![w] = to]
          /\ to = "asleep" => Idle(w)
          /\ to = "gone" => stopping /\ Idle(w)
          /\ thread[w] \in {"looking", "asleep"}
    BY DEF FallAsleep, Exit, SpuriousWakeup
<1>3. /\ thread' \in [Workers -> Threads]
      /\ \A v \in Workers : thread'[v] = IF v = w THEN to ELSE thread[v]
    BY <1>2 DEF Ranges, Threads
<1>4. Ranges'
    BY <1>1, <1>3 DEF Ranges
<1>5. Places'
    BY <1>1, PlacesStay
<1>6. Exits'
    BY <1>1, <1>2, <1>3 DEF Exits, Idle
<1>7. Paid'
    BY <1>1 DEF Paid
<1>8. SomeoneIsComing'
    <2>1. CASE to = "asleep"
        BY <1>1, <1>2, <1>3, <2>1 DEF SomeoneIsComing, Asleep, Owing, Idle
    <2>2. CASE to # "asleep"
        <3>1. Asleep' \subseteq Asleep /\ w \notin Asleep'
            BY <1>3, <2>2 DEF Asleep
        <3>2. Asleep' # Workers
            BY <3>1
        <3> QED BY <1>1, <3>1, <3>2 DEF SomeoneIsComing, Owing
    <2> QED BY <2>1, <2>2
<1> QED BY <1>4, <1>5, <1>6, <1>7, <1>8

LEMMA EndInv ==
    ASSUME Inv, NEW w \in Workers, Finish(w) \/ Throw(w)
    PROVE  Inv'
<1> USE DEF Inv
<1>1. /\ jobs' = jobs /\ pinned' = pinned
      /\ stopCall' = stopCall /\ (stopping' <=> stopping) /\ owed' = owed
      /\ thread[w] = "busy" /\ thread' = [thread EXCEPT ![w] = "looking"]
      /\ job' = [job EXCEPT ![w] = None]
    BY DEF Finish, Throw
<1>2. PICK end \in {"posted", "lost"} : caller' = [caller EXCEPT ![job[w]] = end]
    BY DEF Finish, Throw
<1>3. /\ job' \in [Workers -> Callers \cup {None}]
      /\ caller' \in [Callers -> States]
      /\ job[w] \in Callers /\ Places'
    BY <1>1, <1>2, EndPlaces
<1>4. /\ thread' \in [Workers -> Threads]
      /\ \A v \in Workers : thread'[v] = IF v = w THEN "looking" ELSE thread[v]
      /\ \A v \in Workers : job'[v] = IF v = w THEN None ELSE job[v]
    BY <1>1 DEF Ranges, Threads
<1>5. Ranges'
    BY <1>1, <1>3, <1>4 DEF Ranges
<1>6. Exits'
    BY <1>1, <1>4 DEF Exits, Idle
<1>7. Paid'
    <2>1. \A x \in Callers : caller'[x] = "running" => caller[x] = "running"
        BY <1>2, <1>3 DEF Ranges
    <2> QED BY <1>1, <2>1 DEF Paid
<1>8. SomeoneIsComing'
    <2>1. Asleep' = Asleep
        BY <1>1, <1>4 DEF Asleep
    <2> QED BY <1>1, <2>1 DEF SomeoneIsComing, Owing
<1> QED BY <1>3, <1>5, <1>6, <1>7, <1>8

LEMMA StopInv ==
    ASSUME Inv, StopStep
    PROVE  Inv'
<1> USE DEF Inv
<1>1. /\ jobs' = jobs /\ pinned' = pinned /\ job' = job /\ caller' = caller /\ owed' = owed
    BY DEF StopStep, Stop, StopNotify, StopJoin
<1>2. /\ stopCall' \in {"no", "notify", "join", "returned"}
      /\ thread' \in [Workers -> Threads]
      /\ \A w \in Workers : /\ thread'[w] = "busy" <=> thread[w] = "busy"
                            /\ thread'[w] = "gone" <=> thread[w] = "gone"
    BY WakeAllWakes DEF StopStep, Stop, StopNotify, StopJoin, Ranges
<1>3. Ranges'
    BY <1>1, <1>2 DEF Ranges
<1>4. Places'
    BY <1>1, PlacesStay
<1>5. /\ stopping' /\ stopCall' # "no"
      /\ stopCall' = "returned" => \A w \in Workers : thread'[w] = "gone"
    BY DEF StopStep, Stop, StopNotify, StopJoin, Exits
<1>6. Exits'
    BY <1>1, <1>2, <1>5 DEF Exits, Idle
<1>7. Paid'
    BY <1>1 DEF Paid
<1>8. SomeoneIsComing'
    <2>1. CASE Stop
        BY <2>1 DEF Stop, SomeoneIsComing
    <2>2. CASE StopNotify
        BY <2>2, WakeAllWakes, PoolAssumption DEF StopNotify, SomeoneIsComing
    <2>3. CASE StopJoin
        <3>1. stopCall # "notify" /\ Asleep' = Asleep
            BY <2>3 DEF StopJoin, Asleep
        <3> QED BY <1>1, <3>1 DEF SomeoneIsComing, Owing
    <2> QED BY <2>1, <2>2, <2>3 DEF StopStep
<1> QED BY <1>3, <1>4, <1>6, <1>7, <1>8

LEMMA StutterInv ==
    ASSUME Inv, UNCHANGED poolVars
    PROVE  Inv'
<1> USE DEF Inv, poolVars
<1>1. Ranges'
    BY DEF Ranges
<1>2. Places'
    BY PlacesStay
<1>3. Exits'
    BY DEF Exits, Idle
<1>4. Paid'
    BY DEF Paid
<1>5. SomeoneIsComing'
    BY DEF SomeoneIsComing, Asleep, Owing
<1> QED BY <1>1, <1>2, <1>3, <1>4, <1>5

LEMMA NextInv == Inv /\ [PoolNext]_poolVars => Inv'
<1> SUFFICES ASSUME Inv, [PoolNext]_poolVars PROVE Inv'
    OBVIOUS
<1>1. ASSUME NEW c \in Callers, NEW pin \in Workers \cup {None}, Await(c, pin) PROVE Inv'
    BY <1>1, AwaitInv
<1>2. ASSUME NEW c \in Callers, Notify(c) PROVE Inv'
    BY <1>2, NotifyInv
<1>3. ASSUME NEW c \in Callers, Resume(c) PROVE Inv'
    BY <1>3, ResumeInv
<1>4. ASSUME NEW w \in Workers, Work(w) PROVE Inv'
    BY <1>4, TakeInv, WaitInv DEF Work
<1>5. ASSUME NEW w \in Workers, Finish(w) \/ Throw(w) PROVE Inv'
    BY <1>5, EndInv
<1>6. CASE StopStep
    BY <1>6, StopInv
<1>7. CASE UNCHANGED poolVars
    BY <1>7, StutterInv
<1> QED BY <1>1, <1>2, <1>3, <1>4, <1>5, <1>6, <1>7 DEF PoolNext

LEMMA Invariant == PoolSpec => []Inv
BY InitInv, NextInv, PTL DEF PoolSpec

(***************************************************************************)
(* The theorems.                                                           *)
(***************************************************************************)
\* A job is always in a queue or with a thread that knows whose it is.
THEOREM PoolTypeCorrect == PoolSpec => []PoolTypeOK
<1>1. PoolInit => Flag
    BY DEF PoolInit, Flag
<1>2. Flag /\ [PoolNext]_poolVars => Flag'
    BY DEF Flag, PoolNext, poolVars, Await, Notify, Resume, Work, TakePinned, TakeFree,
           FallAsleep, Exit, SpuriousWakeup, Finish, Throw, StopStep, Stop, StopNotify, StopJoin
<1>3. Inv => Ranges
    BY DEF Inv
<1> QED BY <1>1, <1>2, <1>3, Invariant, TypeParts, PTL DEF PoolSpec

\* submit(), submit_to() and the wait of a worker lose no wakeup, whatever runs
\* between the unlock of the submitter and its notify.
THEOREM NoWakeupLost == PoolSpec => []SomeoneIsComing
<1>1. Inv => SomeoneIsComing
    BY DEF Inv
<1> QED BY <1>1, Invariant, PTL

\* When stop() returns, every job accepted before it has been run.
THEOREM StopLeavesNothing == PoolSpec => []NothingLeftBehind
<1>1. Inv => NothingLeftBehind
    <2> SUFFICES ASSUME Ranges, Places, Exits, stopCall = "returned"
                 PROVE  /\ jobs = <<>>
                        /\ \A w \in Workers : pinned[w] = <<>>
                        /\ \A c \in Callers : caller[c] # "queued"
        BY DEF Inv, NothingLeftBehind
    <2>1. \A w \in Workers : thread[w] = "gone" /\ jobs = <<>> /\ pinned[w] = <<>> /\ job[w] = None
        BY DEF Exits, Idle
    <2>2. jobs = <<>> /\ \A w \in Workers : pinned[w] = <<>>
        BY <2>1, PoolAssumption
    <2>3. \A c \in Callers, w \in Workers : ~Queued(jobs, c) /\ ~InWorker(w, c)
        BY <2>1, <2>2, NoneIsNothing, EmptyQueue DEF InWorker
    <2>4. \A c \in Callers : caller[c] # "queued"
        BY <2>3, PoolAssumption DEF Places
    <2> QED BY <2>2, <2>4
<1> QED BY <1>1, Invariant, PTL

(***************************************************************************)
(* The pool implements JobService.                                         *)
(***************************************************************************)
\* What Want means, for any queues.
WantIs ==
    /\ Want = [c \in Callers |-> Want[c]]
    /\ \A c \in Callers : \/ Want[c] = None /\ \A w \in Workers : ~Queued(pinned[w], c)
                          \/ Want[c] \in Workers /\ Queued(pinned[Want[c]], c)

LEMMA WantFacts == WantIs
<1>1. ASSUME NEW c \in Callers
      PROVE  \/ Want[c] = None /\ \A w \in Workers : ~Queued(pinned[w], c)
             \/ Want[c] \in Workers /\ Queued(pinned[Want[c]], c)
    <2>1. CASE \E w \in Workers : Queued(pinned[w], c)
        <3>1. Want[c] = CHOOSE w \in Workers : Queued(pinned[w], c)
            BY <2>1 DEF Want
        <3> QED BY <2>1, <3>1
    <2>2. CASE ~\E w \in Workers : Queued(pinned[w], c)
        BY <2>2 DEF Want
    <2> QED BY <2>1, <2>2
<1>2. Want = [c \in Callers |-> Want[c]]
    BY DEF Want
<1> QED BY <1>1, <1>2 DEF WantIs

LEMMA SameWant == UNCHANGED pinned => Want' = Want
BY DEF Want

LEMMA AwaitServes ==
    ASSUME Inv, Inv', NEW c \in Callers, NEW pin \in Workers \cup {None}, Await(c, pin),
           WantIs'
    PROVE  Service!Await(c, pin)
<1> USE DEF Inv
<1>1. caller[c] = "running" /\ job' = job /\ (stopping' = stopping)
    BY DEF Await
<1>2. CASE stopping
    <2>1. caller' = [caller EXCEPT ![c] = "lost"] /\ pinned' = pinned
        BY <1>2 DEF Await
    <2> QED BY <1>1, <1>2, <2>1, SameWant DEF Service!Await
<1>3. CASE ~stopping
    <2>1. caller' = [caller EXCEPT ![c] = "queued"] /\ caller[c] # "queued"
        BY <1>1, <1>3 DEF Await
    <2>2. \A w \in Workers : ~Queued(pinned[w], c)
        BY <2>1, NoJobYet DEF InWorker
    <2>3. Want' = [Want EXCEPT ![c] = pin]
        <3>1. CASE pin = None
            <4>1. pinned' = pinned
                BY <1>3, <3>1 DEF Await, Submit
            <4>2. Want[c] = None
                BY <2>2, WantFacts DEF WantIs
            <4> QED BY <3>1, <4>1, <4>2, SameWant, WantFacts DEF WantIs
        <3>2. CASE pin # None
            <4>1. pin \in Workers /\ SubmitTo(pin, c)
                BY <1>3, <3>2 DEF Await
            <4>2. \A v \in Workers, x \in Callers : Queued(pinned'[v], x) <=> Queued(pinned[v], x) \/ (v = pin /\ x = c)
                BY <1>1, <2>1, <4>1, SubmitToPlaces
            <4>3. Want'[c] = pin
                BY <2>2, <4>1, <4>2, NoneIsNothing DEF WantIs
            <4>4. ASSUME NEW x \in Callers, x # c PROVE Want'[x] = Want[x]
                <5>1. \A v \in Workers : Queued(pinned'[v], x) <=> Queued(pinned[v], x)
                    BY <4>2, <4>4
                <5>2. \A u, v \in Workers : Queued(pinned[u], x) /\ Queued(pinned[v], x) => u = v
                    BY DEF Places, InWorker
                <5> QED BY <5>1, <5>2, WantFacts, NoneIsNothing DEF WantIs
            <4>5. \A x \in Callers : Want'[x] = IF x = c THEN pin ELSE Want[x]
                BY <4>3, <4>4
            <4> QED BY <4>5, WantFacts DEF WantIs
        <3> QED BY <3>1, <3>2
    <2> QED BY <1>1, <1>3, <2>1, <2>3 DEF Service!Await
<1> QED BY <1>2, <1>3

LEMMA TakeServes ==
    ASSUME Inv, Inv', NEW w \in Workers, TakePinned(w) \/ TakeFree(w),
           WantIs'
    PROVE  Service!Take(w)
<1> USE DEF Inv
<1>1. UNCHANGED <<caller, stopping>>
    BY DEF TakePinned, TakeFree
<1>2. CASE TakePinned(w)
    <2>1. /\ Head(pinned[w]) \in Callers /\ job[w] = None
          /\ \A v \in Workers, x \in Callers :
                 Queued(pinned'[v], x) <=> Queued(pinned[v], x) /\ ~(v = w /\ x = Head(pinned[w]))
          /\ Queued(pinned[w], Head(pinned[w]))
        BY <1>2, TakePinnedPlaces
    <2>2. PICK c \in Callers : c = Head(pinned[w])
        BY <2>1
    <2>3. job' = [job EXCEPT ![w] = c]
        BY <1>2, <2>2 DEF TakePinned
    <2>4. /\ caller[c] = "queued" /\ \A v \in Workers : job[v] # c
          /\ \A v \in Workers : Queued(pinned[v], c) => v = w
        BY <2>1, <2>2 DEF Places, InWorker
    <2>5. Want[c] = w
        BY <2>1, <2>2, <2>4, WantFacts DEF WantIs
    <2>6. c \in Service!Eligible(w)
        BY <2>4, <2>5 DEF Service!Eligible, Service!Waiting
    <2>7. \A x \in Callers : Want'[x] = IF x = c THEN None ELSE Want[x]
        <3>1. \A v \in Workers, x \in Callers : Queued(pinned'[v], x) <=> Queued(pinned[v], x) /\ ~(v = w /\ x = c)
            BY <2>1, <2>2
        <3> HIDE <2>1
        <3>2. \A v \in Workers : ~Queued(pinned'[v], c)
            BY <2>4, <3>1
        <3>3. Want'[c] = None
            BY <3>2, NoneIsNothing DEF WantIs
        <3>4. ASSUME NEW x \in Callers, x # c PROVE Want'[x] = Want[x]
            <4>1. \A v \in Workers : Queued(pinned'[v], x) <=> Queued(pinned[v], x)
                BY <3>1, <3>4
            <4>2. \A u, v \in Workers : Queued(pinned[u], x) /\ Queued(pinned[v], x) => u = v
                BY DEF Places, InWorker
            <4> QED BY <4>1, <4>2, WantFacts, NoneIsNothing DEF WantIs
        <3> QED BY <3>3, <3>4
    <2>8. Want' = [Want EXCEPT ![c] = None]
        BY <2>7, WantFacts DEF WantIs
    <2> QED BY <1>1, <2>1, <2>3, <2>6, <2>8 DEF Service!Take
<1>3. CASE TakeFree(w)
    <2>1. Head(jobs) \in Callers /\ job[w] = None /\ Queued(jobs, Head(jobs))
        BY <1>3, TakeFreePlaces
    <2>2. PICK c \in Callers : c = Head(jobs)
        BY <2>1
    <2>3. job' = [job EXCEPT ![w] = c] /\ pinned' = pinned /\ pinned[w] = <<>>
        BY <1>3, <2>2 DEF TakeFree
    <2>4. /\ caller[c] = "queued"
          /\ \A v \in Workers : job[v] # c /\ ~Queued(pinned[v], c)
        BY <2>1, <2>2 DEF Places, InWorker
    <2>5. Want[c] = None
        BY <2>4, WantFacts DEF WantIs
    <2>6. \A x \in Callers : Want[x] # w
        BY <2>3, WantFacts, EmptyQueue, NoneIsNothing DEF WantIs
    <2>7. c \in Service!Eligible(w)
        BY <2>4, <2>5, <2>6 DEF Service!Eligible, Service!Waiting
    <2>8. Want' = [Want EXCEPT ![c] = None]
        BY <2>3, <2>5, SameWant, WantFacts DEF WantIs
    <2> QED BY <1>1, <2>1, <2>3, <2>7, <2>8 DEF Service!Take
<1> QED BY <1>2, <1>3

LEMMA StepServes ==
    ASSUME Inv, Inv', [PoolNext]_poolVars, WantIs'
    PROVE  [Service!ServiceNext]_(Service!serviceVars)
<1> USE DEF Service!ServiceNext
<1>1. ASSUME NEW c \in Callers, NEW pin \in Workers \cup {None}, Await(c, pin)
      PROVE  Service!ServiceNext
    BY <1>1, AwaitServes
<1>2. ASSUME NEW c \in Callers, Resume(c) PROVE Service!ServiceNext
    <2>1. Service!Resume(c)
        BY <1>2, SameWant DEF Resume, Service!Resume
    <2> QED BY <2>1
<1>3. ASSUME NEW w \in Workers, TakePinned(w) \/ TakeFree(w) PROVE Service!ServiceNext
    BY <1>3, TakeServes
<1>4. ASSUME NEW w \in Workers, Finish(w) \/ Throw(w) PROVE Service!ServiceNext
    <2>1. job[w] # None
        BY <1>4 DEF Finish, Throw, Inv, Exits
    <2>2. Service!Finish(w) \/ Service!Throw(w)
        BY <1>4, <2>1, SameWant DEF Finish, Throw, Service!Finish, Service!Throw
    <2> QED BY <2>2
<1>5. CASE Stop
    <2>1. ~stopping
        BY <1>5 DEF Stop, Inv, Exits
    <2>2. Service!Stop
        BY <1>5, <2>1, SameWant DEF Stop, Service!Stop
    <2> QED BY <2>2
<1>6. ASSUME UNCHANGED <<pinned, caller, job, stopping>>
      PROVE  UNCHANGED Service!serviceVars
    BY <1>6, SameWant DEF Service!serviceVars
<1>7. ASSUME NEW c \in Callers, Notify(c) PROVE UNCHANGED Service!serviceVars
    BY <1>6, <1>7 DEF Notify
<1>8. ASSUME NEW w \in Workers, FallAsleep(w) \/ Exit(w) \/ SpuriousWakeup(w)
      PROVE  UNCHANGED Service!serviceVars
    BY <1>6, <1>8 DEF FallAsleep, Exit, SpuriousWakeup
<1>9. ASSUME StopNotify \/ StopJoin PROVE UNCHANGED Service!serviceVars
    BY <1>6, <1>9 DEF StopNotify, StopJoin
<1>10. ASSUME UNCHANGED poolVars PROVE UNCHANGED Service!serviceVars
    BY <1>6, <1>10 DEF poolVars
<1> HIDE DEF Service!ServiceNext
<1> QED
    BY <1>1, <1>2, <1>3, <1>4, <1>5, <1>7, <1>8, <1>9, <1>10 DEF PoolNext, Work, StopStep

\* A job runs once, on the worker it asked for, and what is pinned to a worker
\* goes before what any may do.
THEOREM ServesItsCallers == PoolSpec => Serves
<1>1. PoolInit => Service!ServiceInit
    <2> SUFFICES ASSUME PoolInit PROVE Service!ServiceInit
        OBVIOUS
    <2>1. \A c \in Callers : Want[c] = None
        BY WantFacts, EmptyQueue DEF WantIs, PoolInit
    <2>2. Want = [c \in Callers |-> None]
        BY <2>1, WantFacts DEF WantIs
    <2> QED BY <2>2 DEF PoolInit, Service!ServiceInit
<1>2. Inv /\ Inv' /\ [PoolNext]_poolVars /\ WantIs'
      => [Service!ServiceNext]_(Service!serviceVars)
    BY StepServes
<1>3. WantIs'
    BY WantFacts, PTL
<1> QED BY <1>1, <1>2, <1>3, Invariant, PTL DEF PoolSpec, Serves, Service!ServiceSpec

(***************************************************************************)
(* stop() comes to an end.                                                 *)
(***************************************************************************)
\* While the threads are joined nobody sleeps: cv_.wait() does not begin to
\* wait once stopping_ is set.
Roused == stopCall \in {"join", "returned"} => Asleep = {}

StopInvariant == Inv /\ Flag /\ Roused

LEMMA RousedNext ==
    ASSUME StopInvariant, [PoolNext]_poolVars
    PROVE  Roused'
<1> USE DEF Roused, StopInvariant
<1>1. Ranges /\ Exits
    BY DEF Inv
<1>2. ASSUME UNCHANGED thread, UNCHANGED stopCall PROVE Roused'
    BY <1>2 DEF Asleep
<1>3. ASSUME NEW c \in Callers, (\E pin \in Workers \cup {None} : Await(c, pin)) \/ Resume(c)
      PROVE  Roused'
    BY <1>2, <1>3 DEF Await, Resume
<1>4. ASSUME NEW c \in Callers, Notify(c) PROVE Roused'
    <2>1. stopCall' = stopCall
        BY <1>4 DEF Notify
    <2>2. Asleep' \subseteq Asleep
        BY <1>1, <1>4, WakeOneWakes, WakeAllWakes DEF Notify
    <2> QED BY <2>1, <2>2
<1>5. ASSUME NEW w \in Workers, Work(w) \/ Finish(w) \/ Throw(w) PROVE Roused'
    <2>1. stopCall' = stopCall /\ (stopCall \in {"join", "returned"} => stopping)
        BY <1>1, <1>5 DEF Exits, Work, TakePinned, TakeFree, FallAsleep, Exit, SpuriousWakeup,
                          Finish, Throw
    <2>2. CASE FallAsleep(w)
        BY <2>1, <2>2 DEF FallAsleep
    <2>3. CASE ~FallAsleep(w)
        <3>1. \E end \in {"looking", "busy", "gone"} : thread' = [thread EXCEPT ![w] = end]
            BY <1>5, <2>3 DEF Work, TakePinned, TakeFree, Exit, SpuriousWakeup, Finish, Throw
        <3>2. Asleep' \subseteq Asleep
            BY <1>1, <3>1 DEF Ranges, Asleep
        <3> QED BY <2>1, <3>2
    <2> QED BY <2>2, <2>3
<1>6. CASE Stop
    BY <1>6 DEF Stop
<1>7. CASE StopNotify
    BY <1>1, <1>7, WakeAllWakes DEF StopNotify
<1>8. CASE StopJoin
    BY <1>8 DEF StopJoin, Asleep
<1>9. CASE UNCHANGED poolVars
    BY <1>2, <1>9 DEF poolVars
<1> QED BY <1>3, <1>4, <1>5, <1>6, <1>7, <1>8, <1>9 DEF PoolNext, StopStep

LEMMA StopHolds == PoolSpec => []StopInvariant
<1>1. PoolInit => Flag /\ Roused
    BY DEF PoolInit, Flag, Roused
<1>2. Flag /\ [PoolNext]_poolVars => Flag'
    BY DEF Flag, PoolNext, poolVars, Await, Notify, Resume, Work, TakePinned, TakeFree,
           FallAsleep, Exit, SpuriousWakeup, Finish, Throw, StopStep, Stop, StopNotify, StopJoin
<1>3. StopInvariant /\ [PoolNext]_poolVars => StopInvariant'
    BY <1>2, NextInv, RousedNext DEF StopInvariant
<1> QED BY <1>1, <1>3, InitInv, PTL DEF PoolSpec, StopInvariant

\* What a worker that is joined has before it: a job to take, one to end, or
\* nothing but its return.
CanGoOn(w) ==
    \/ thread[w] = "busy"
    \/ thread[w] = "looking" /\ (Idle(w) => stopping)

\* The call of stop() waits only for threads that can go on, however many jobs
\* and transactions were under way when it was made (db.cpp:65-73).
StopMoves ==
    stopCall = "join" =>
        \/ \A w \in Workers : thread[w] = "gone"
        \/ \E w \in Workers : CanGoOn(w)

\* DbPool::stop() does not wait for a thread that sleeps, nor for one that can
\* neither work nor return.
THEOREM StopNeverStuck == PoolSpec => []StopMoves
<1>1. StopInvariant => StopMoves
    <2> SUFFICES ASSUME StopInvariant, stopCall = "join", NEW w \in Workers, thread[w] # "gone"
                 PROVE  CanGoOn(w)
        BY DEF StopMoves
    <2>1. stopping /\ thread[w] \in Threads /\ thread[w] # "asleep"
        BY DEF StopInvariant, Inv, Ranges, Exits, Flag, Roused, Asleep
    <2>2. thread[w] \in {"looking", "busy"}
        BY <2>1 DEF Threads
    <2> QED BY <2>1, <2>2, Zenon DEF CanGoOn, Idle
<1> QED BY <1>1, StopHolds, PTL

\* The jobs that have not ended, those that no worker has taken, and the
\* workers that have not returned.
Left      == {c \in Callers : caller[c] = "queued"}
Untaken   == {c \in Callers : Queued(jobs, c) \/ \E w \in Workers : Queued(pinned[w], c)}
Remaining == {w \in Workers : thread[w] # "gone"}

\* Once stop() has set stopping_ nothing is queued behind it, and while it
\* joins the threads every step of a worker leaves it less to wait for: it is
\* through after two steps for each job it found and one for each worker.
StopAdvances ==
    /\ stopping => Left' \subseteq Left /\ Untaken' \subseteq Untaken
    /\ Remaining' \subseteq Remaining
    /\ stopCall = "join" =>
           \A w \in Workers : Work(w) \/ Finish(w) \/ Throw(w) =>
               <<Left', Untaken', Remaining'>> # <<Left, Untaken, Remaining>>

LEMMA TakesLess ==
    ASSUME Inv, NEW w \in Workers, TakePinned(w) \/ TakeFree(w)
    PROVE  Left' = Left /\ Untaken' \subseteq Untaken /\ Untaken' # Untaken
           /\ Remaining' \subseteq Remaining
<1>1. Ranges /\ Places /\ Exits
    BY DEF Inv
<1>2. Left' = Left
    BY DEF TakePinned, TakeFree, Left
<1>3. Remaining' \subseteq Remaining
    BY <1>1 DEF TakePinned, TakeFree, Remaining, Ranges
<1>4. CASE TakePinned(w)
    <2>1. pinned[w] \in Seq(Callers) /\ pinned[w] # <<>> /\ Distinct(pinned[w])
        BY <1>1, <1>4 DEF TakePinned, Ranges, Places
    <2>2. PICK c \in Callers : c = Head(pinned[w])
        BY <2>1, Pop
    <2>3. /\ Queued(pinned[w], c)
          /\ \A x : Queued(Tail(pinned[w]), x) <=> Queued(pinned[w], x) /\ x # c
        BY <2>1, <2>2, Pop
    <2>4. /\ jobs' = jobs
          /\ \A v \in Workers : pinned'[v] = IF v = w THEN Tail(pinned[w]) ELSE pinned[v]
        BY <1>1, <1>4 DEF TakePinned, Ranges
    <2>5. ~Queued(jobs, c) /\ \A v \in Workers \ {w} : ~Queued(pinned[v], c)
        BY <1>1, <2>3 DEF Places, InWorker
    <2>6. c \in Untaken /\ c \notin Untaken'
        BY <2>3, <2>4, <2>5 DEF Untaken
    <2>7. Untaken' \subseteq Untaken
        BY <2>3, <2>4 DEF Untaken
    <2> QED BY <1>2, <1>3, <2>6, <2>7
<1>5. CASE TakeFree(w)
    <2>1. jobs \in Seq(Callers) /\ jobs # <<>> /\ Distinct(jobs)
        BY <1>1, <1>5 DEF TakeFree, Ranges, Places
    <2>2. PICK c \in Callers : c = Head(jobs)
        BY <2>1, Pop
    <2>3. /\ Queued(jobs, c)
          /\ \A x : Queued(Tail(jobs), x) <=> Queued(jobs, x) /\ x # c
        BY <2>1, <2>2, Pop
    <2>4. jobs' = Tail(jobs) /\ pinned' = pinned
        BY <1>5 DEF TakeFree
    <2>5. \A v \in Workers : ~Queued(pinned[v], c)
        BY <1>1, <2>3 DEF Places, InWorker
    <2>6. c \in Untaken /\ c \notin Untaken'
        BY <2>3, <2>4, <2>5 DEF Untaken
    <2>7. Untaken' \subseteq Untaken
        BY <2>3, <2>4 DEF Untaken
    <2> QED BY <1>2, <1>3, <2>6, <2>7
<1> QED BY <1>4, <1>5

LEMMA EndsLess ==
    ASSUME Inv, NEW w \in Workers, Finish(w) \/ Throw(w)
    PROVE  Left' \subseteq Left /\ Left' # Left /\ Untaken' = Untaken /\ Remaining' = Remaining
<1>1. Ranges /\ Places /\ Exits
    BY DEF Inv
<1>2. PICK end \in {"posted", "lost"} : caller' = [caller EXCEPT ![job[w]] = end]
    BY DEF Finish, Throw
<1>3. job[w] \in Callers
    BY <1>1 DEF Finish, Throw, Ranges, Exits
<1>4. caller[job[w]] = "queued"
    BY <1>1, <1>3 DEF Places, InWorker
<1>5. \A c \in Callers : caller'[c] = IF c = job[w] THEN end ELSE caller[c]
    BY <1>1, <1>2 DEF Ranges
<1>6. Left' \subseteq Left /\ job[w] \in Left /\ job[w] \notin Left'
    BY <1>3, <1>4, <1>5 DEF Left
<1>7. Untaken' = Untaken
    BY DEF Finish, Throw, Untaken
<1>8. Remaining' = Remaining
    BY <1>1 DEF Finish, Throw, Remaining, Ranges
<1> QED BY <1>6, <1>7, <1>8

LEMMA Advances ==
    ASSUME StopInvariant, [PoolNext]_poolVars
    PROVE  StopAdvances
<1>1. Inv /\ Ranges /\ Roused
    BY DEF StopInvariant, Inv
<1>2. ASSUME NEW w \in Workers, Work(w) \/ Finish(w) \/ Throw(w)
      PROVE  /\ Left' \subseteq Left /\ Untaken' \subseteq Untaken /\ Remaining' \subseteq Remaining
             /\ stopCall = "join" =>
                    <<Left', Untaken', Remaining'>> # <<Left, Untaken, Remaining>>
    <2>1. CASE TakePinned(w) \/ TakeFree(w)
        BY <1>1, <2>1, TakesLess
    <2>2. CASE Finish(w) \/ Throw(w)
        BY <1>1, <2>2, EndsLess
    <2>3. CASE Exit(w)
        <3>1. Left' = Left /\ Untaken' = Untaken
            BY <2>3 DEF Exit, Left, Untaken
        <3>2. Remaining' \subseteq Remaining /\ w \in Remaining /\ w \notin Remaining'
            BY <1>1, <2>3 DEF Exit, Remaining, Ranges
        <3> QED BY <3>1, <3>2
    <2>4. CASE FallAsleep(w) \/ SpuriousWakeup(w)
        <3>1. Left' = Left /\ Untaken' = Untaken
            BY <2>4 DEF FallAsleep, SpuriousWakeup, Left, Untaken
        <3>2. Remaining' \subseteq Remaining
            BY <1>1, <2>4 DEF FallAsleep, SpuriousWakeup, Remaining, Ranges
        <3>3. stopCall # "join"
            <4>1. CASE FallAsleep(w)
                BY <4>1 DEF FallAsleep, StopInvariant, Inv, Exits
            <4>2. CASE SpuriousWakeup(w)
                BY <1>1, <4>2 DEF SpuriousWakeup, Roused, Asleep
            <4> QED BY <2>4, <4>1, <4>2
        <3> QED BY <3>1, <3>2, <3>3
    <2> QED BY <1>2, <2>1, <2>2, <2>3, <2>4 DEF Work
<1>3. ASSUME NEW c \in Callers, NEW pin \in Workers \cup {None}, Await(c, pin), stopping
      PROVE  Left' \subseteq Left /\ Untaken' = Untaken
    BY <1>1, <1>3 DEF Await, Left, Untaken, Ranges
<1>4. ASSUME NEW c \in Callers, Notify(c) \/ Resume(c)
      PROVE  Left' \subseteq Left /\ Untaken' = Untaken
    BY <1>1, <1>4 DEF Notify, Resume, Left, Untaken, Ranges
<1>5. ASSUME StopStep \/ UNCHANGED poolVars
      PROVE  Left' = Left /\ Untaken' = Untaken
    BY <1>5 DEF StopStep, Stop, StopNotify, StopJoin, poolVars, Left, Untaken
<1>6. ASSUME NEW c \in Callers, (\E pin \in Workers \cup {None} : Await(c, pin)) \/ Resume(c)
      PROVE  Remaining' = Remaining
    BY <1>6 DEF Await, Resume, Remaining
<1>7. ASSUME NEW c \in Callers, Notify(c)
      PROVE  Remaining' = Remaining
    BY <1>1, <1>7, WakeOneWakes, WakeAllWakes DEF Notify, Remaining
<1>8. ASSUME StopStep \/ UNCHANGED poolVars
      PROVE  Remaining' = Remaining
    BY <1>1, <1>8, WakeAllWakes DEF StopStep, Stop, StopNotify, StopJoin, poolVars, Remaining
<1>9. Remaining' \subseteq Remaining
    BY <1>2, <1>6, <1>7, <1>8 DEF PoolNext
<1>10. stopping => Left' \subseteq Left /\ Untaken' \subseteq Untaken
    BY <1>2, <1>3, <1>4, <1>5 DEF PoolNext
<1> QED BY <1>2, <1>9, <1>10 DEF StopAdvances

\* What is accepted before DbPool::stop() is all that its join waits for.
THEOREM StopMakesHeadway == PoolSpec => [][StopAdvances]_poolVars
<1>1. StopInvariant /\ [PoolNext]_poolVars => [StopAdvances]_poolVars
    BY Advances
<1> QED BY <1>1, StopHolds, PTL DEF PoolSpec
=============================================================================
