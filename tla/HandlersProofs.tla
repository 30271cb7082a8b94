---------------------------- MODULE HandlersProofs ----------------------------
(***************************************************************************)
(* What is proved of the handlers around the VM: whom a token wakes, that  *)
(* every machine stays where its code says, within its limits and making   *)
(* headway, what a handler finds on its thread, and that no edit is missed. *)
(***************************************************************************)
EXTENDS Handlers, VerifierProofs

-----------------------------------------------------------------------------
(***************************************************************************)
(* Wake functions.  What a step does to the phases and the tokens of the   *)
(* handlers, whatever a machine computes.                                  *)
(***************************************************************************)
Phases == {"new", "run", "wait", "due", "done", "gone"}
wakeVars == <<at, on, open, token, waits, wake, lent>>

Begins(r, l) ==
  /\ at[r] = "new" /\ Idling(l)
  /\ \E phase \in {"run", "done"} : at' = [at EXCEPT ![r] = phase]
  /\ on' = [on EXCEPT ![r] = l]
  /\ token' = [token EXCEPT ![l] = r]
  /\ UNCHANGED <<open, waits, wake, lent>>

\* It answers, goes on, or has been left.
Proceeds(r) ==
  /\ at[r] \in {"run", "due"}
  /\ \E phase \in {"run", "done", "gone"} : at' = [at EXCEPT ![r] = phase]
  /\ UNCHANGED <<on, open, token, waits, wake, lent>>

\* It awaits something under a token, its own or the one of its thread.
Awaits(r, t) ==
  /\ at[r] = "run" /\ t \in {r, token[on[r]]}
  /\ \E for : waits' = [waits EXCEPT ![r] = [for |-> for, token |-> t]]
  /\ lent' = IF t = r THEN lent ELSE lent \cup {t}
  /\ \/ /\ at' = [at EXCEPT ![r] = "due"]
        /\ wake' = wake
     \/ /\ ~Cancelled(t)
        /\ at' = [at EXCEPT ![r] = "wait"]
        /\ SetWake(r, t)
  /\ UNCHANGED <<on, open, token>>

LEMMA Settling ==
  ASSUME NEW r, NEW w, NEW told, Settle(r, w, told)
  PROVE  at' = [at EXCEPT ![r] = "done"]
BY DEF Settle, Closed

LEMMA DispatchBegins ==
  ASSUME NEW r \in Requests, NEW l \in Loops, NEW in, Dispatch(r, l, in)
  PROVE  Begins(r, l)
<1> DEFINE found == Lookup(ModuleOf(live).router, in.method, in.url)
<1>1. at[r] = "new" /\ Idling(l) /\ DispatchTo(r, l, in, found)
  BY DEF Dispatch
<1> HIDE DEF found
<1> DEFINE mod == ModuleOf(live)
           route == RouteOf(mod, in, found)
           bound == Prepare(mod, Authenticate(mod, World(r), in), route.binds, in @@ [path |-> found.path])
<1>2. /\ on' = [on EXCEPT ![r] = l] /\ token' = [token EXCEPT ![l] = r]
      /\ Enter(r, l, mod, route, bound)
      /\ UNCHANGED <<open, waits, wake, lent>>
  BY <1>1 DEF DispatchTo
<1>3. \E phase \in {"run", "done"} : at' = [at EXCEPT ![r] = phase]
  <2> HIDE DEF mod, route, bound
  <2>1. ASSUME NEW w, NEW told, AtOnce(r, w, told) PROVE at' = [at EXCEPT ![r] = "done"]
    BY <2>1, Settling DEF AtOnce
  <2>2. ASSUME Launch(r, l, mod, route, bound) PROVE at' = [at EXCEPT ![r] = "run"]
    BY <2>2 DEF Launch
  <2>3. \/ \E w, told : AtOnce(r, w, told)
        \/ Launch(r, l, mod, route, bound)
    BY <1>2 DEF Enter
  <2> QED
    BY <2>1, <2>2, <2>3
<1> QED
  BY <1>1, <1>2, <1>3 DEF Begins

LEMMA ExecutedSteps ==
  ASSUME NEW r \in Requests, at[r] = "run", NEW m, Executed(r, m), UNCHANGED <<on, open>>
  PROVE  \/ UNCHANGED wakeVars
         \/ Proceeds(r)
         \/ \E t : Awaits(r, t)
<1>1. CASE m.status \in {"done", "error"}
  <2>1. Finish(r, m) /\ UNCHANGED tokens
    BY <1>1 DEF Executed
  <2>2. at' = [at EXCEPT ![r] = "done"]
    BY <2>1, Settling DEF Finish
  <2> QED
    BY <2>1, <2>2 DEF Proceeds, tokens
<1>2. CASE m.status = "await"
  <2> DEFINE recv == m.value[1] = "__ws_recv"
             t == IF recv THEN r ELSE token[on[r]]
  <2>1. Suspend(r, m)
    BY <1>2 DEF Executed
  <2>2. /\ waits' = [waits EXCEPT ![r] = [for |-> m.value[1], token |-> t]]
        /\ IF recv THEN Receive(r) ELSE Sleep(r, t)
        /\ lent' = IF t = r THEN lent ELSE lent \cup {t}
        /\ token' = token
    BY <2>1 DEF Suspend
  <2>3. t \in {r, token[on[r]]} /\ (recv => t = r)
    OBVIOUS
  <2>4. \/ at' = [at EXCEPT ![r] = "due"] /\ wake' = wake
        \/ ~Cancelled(t) /\ at' = [at EXCEPT ![r] = "wait"] /\ SetWake(r, t)
    <3>1. CASE recv
      <4>1. Receive(r) /\ t = r
        BY <2>2, <2>3, <3>1
      <4> HIDE DEF t, recv
      <4> QED
        BY <4>1 DEF Receive, Cancelled
    <3>2. CASE ~recv
      <4>1. Sleep(r, t)
        BY <2>2, <3>2
      <4> HIDE DEF t, recv
      <4> QED
        BY <4>1 DEF Sleep, Cancelled, SetWake
    <3> QED
      BY <3>1, <3>2
  <2> HIDE DEF t
  <2>5. Awaits(r, t)
    BY <2>2, <2>3, <2>4 DEF Awaits
  <2> QED
    BY <2>5
<1>3. CASE m.status \notin {"done", "error", "await"}
  BY <1>3 DEF Executed, wakeVars, tokens
<1> QED
  BY <1>1, <1>2, <1>3

LEMMA ResumeProceeds ==
  ASSUME NEW r \in Requests, Resume(r)
  PROVE  Proceeds(r)
<1> DEFINE m == InWorld(r, ResumeVM(MachineOf(r).vm, Produced(r)))
<1>1. /\ at[r] = "due"
      /\ \/ at' = [at EXCEPT ![r] = "gone"]
         \/ Finish(r, m)
         \/ at' = [at EXCEPT ![r] = "run"]
      /\ UNCHANGED <<on, open, tokens>>
  BY DEF Resume
<1> HIDE DEF m
<1>2. Finish(r, m) => at' = [at EXCEPT ![r] = "done"]
  BY Settling DEF Finish
<1> QED
  BY <1>1, <1>2 DEF Proceeds, tokens

\* Every step is one of these.
LEMMA WakeSteps ==
  ASSUME [Next]_vars
  PROVE  \/ UNCHANGED wakeVars
         \/ \E r \in Requests :
              \/ \E l \in Loops : Begins(r, l)
              \/ Proceeds(r)
              \/ \E t : Awaits(r, t)
              \/ Wake(r)
              \/ Disconnect(r)
<1>1. ASSUME NEW r \in Requests, NEW l \in Loops, NEW in, Dispatch(r, l, in)
      PROVE  Begins(r, l)
  BY <1>1, DispatchBegins
<1>2. ASSUME NEW r \in Requests, Execute(r)
      PROVE  UNCHANGED wakeVars \/ Proceeds(r) \/ \E t : Awaits(r, t)
  <2> DEFINE m == Step(CodeOf(r), InWorld(r, MachineOf(r).vm))
  <2>1. at[r] = "run" /\ Executed(r, m) /\ UNCHANGED <<on, open>>
    BY <1>2 DEF Execute
  <2> HIDE DEF m
  <2> QED
    BY <2>1, ExecutedSteps
<1>3. ASSUME NEW r \in Requests, Resume(r)
      PROVE  Proceeds(r)
  BY <1>3, ResumeProceeds
<1>4. CASE Reload
  BY <1>4 DEF Reload, wakeVars, tokens
<1>5. CASE UNCHANGED vars
  BY <1>5 DEF vars, wakeVars, tokens
<1> QED
  BY <1>1, <1>2, <1>3, <1>4, <1>5 DEF Next

\* The inductive invariant: NoStaleWake and WokenByItsClient, with a thread
\* that has a token as soon as it has a request, and every token under which
\* another handler waits among the lent.
WakeTypes ==
  /\ at \in [Requests -> Phases] /\ on \in [Requests -> Loops \cup {NoLoop}]
  /\ token \in [Loops -> Requests \cup {Nobody}] /\ wake \in [Requests -> Requests \cup {Nobody}]
  /\ open \in [Requests -> BOOLEAN] /\ DOMAIN waits = Requests
Tokened == \A r \in Requests : at[r] # "new" => on[r] \in Loops /\ token[on[r]] # Nobody
Lends == \A r \in Requests : at[r] = "wait" => waits[r].token \in {r} \cup lent
WakeInv == WakeTypes /\ Tokened /\ Lends /\ NoStaleWake /\ WokenByItsClient

LEMMA WakeInit == Init => WakeInv
<1> SUFFICES ASSUME Init PROVE WakeInv
  OBVIOUS
<1>1. WakeTypes
  BY DEF Init, WakeTypes, Phases
<1>2. Tokened /\ Lends /\ NoStaleWake /\ WokenByItsClient
  BY DEF Init, Tokened, Lends, NoStaleWake, WokenByItsClient
<1> QED
  BY <1>1, <1>2 DEF WakeInv

LEMMA WakeBegins ==
  ASSUME WakeInv, NEW r \in Requests, NEW l \in Loops, Begins(r, l)
  PROVE  WakeInv'
<1> USE DEF WakeInv, WakeTypes
<1>1. PICK phase \in {"run", "done"} : at' = [at EXCEPT ![r] = phase]
  BY DEF Begins
<1>2. /\ on' = [on EXCEPT ![r] = l] /\ token' = [token EXCEPT ![l] = r] /\ at[r] = "new"
      /\ UNCHANGED <<open, waits, wake, lent>>
  BY DEF Begins
<1>3. at'[r] = phase /\ phase # "wait" /\ \A q \in Requests : q # r => at'[q] = at[q]
  BY <1>1
<1>4. WakeTypes'
  BY <1>1, <1>2 DEF Phases
<1>5. Tokened'
  <2> SUFFICES ASSUME NEW q \in Requests, at'[q] # "new" PROVE on'[q] \in Loops /\ token'[on'[q]] # Nobody
    BY DEF Tokened
  <2>1. CASE q = r
    BY <1>2, <2>1, NamesAssumption
  <2>2. CASE q # r
    <3>1. on'[q] = on[q] /\ on[q] \in Loops /\ token[on[q]] # Nobody
      BY <1>2, <1>3, <2>2 DEF Tokened
    <3> QED
      BY <1>2, <3>1, NamesAssumption
  <2> QED
    BY <2>1, <2>2
<1>6. Lends'
  BY <1>2, <1>3 DEF Lends
<1>7. NoStaleWake'
  BY <1>2, <1>3 DEF NoStaleWake
<1>8. WokenByItsClient'
  BY <1>2, <1>3 DEF WokenByItsClient
<1> QED
  BY <1>4, <1>5, <1>6, <1>7, <1>8

LEMMA WakeProceeds ==
  ASSUME WakeInv, NEW r \in Requests, Proceeds(r)
  PROVE  WakeInv'
<1> USE DEF WakeInv, WakeTypes
<1>1. PICK phase \in {"run", "done", "gone"} : at' = [at EXCEPT ![r] = phase]
  BY DEF Proceeds
<1>2. at[r] \in {"run", "due"} /\ UNCHANGED <<on, open, token, waits, wake, lent>>
  BY DEF Proceeds
<1>3. at'[r] = phase /\ phase # "wait" /\ \A q \in Requests : q # r => at'[q] = at[q]
  BY <1>1
<1>4. WakeTypes'
  BY <1>1, <1>2 DEF Phases
<1>5. Tokened'
  BY <1>2, <1>3 DEF Tokened
<1>6. Lends'
  BY <1>2, <1>3 DEF Lends
<1>7. NoStaleWake'
  BY <1>2, <1>3 DEF NoStaleWake
<1>8. WokenByItsClient'
  BY <1>2, <1>3 DEF WokenByItsClient
<1> QED
  BY <1>4, <1>5, <1>6, <1>7, <1>8

LEMMA WakeAwaits ==
  ASSUME WakeInv, NEW r \in Requests, NEW t, Awaits(r, t)
  PROVE  WakeInv'
<1> USE DEF WakeInv, WakeTypes
<1>1. at[r] = "run" /\ t \in {r, token[on[r]]} /\ UNCHANGED <<on, open, token>>
  BY DEF Awaits
<1>2. PICK for : waits' = [waits EXCEPT ![r] = [for |-> for, token |-> t]]
  BY DEF Awaits
<1>3. lent' = IF t = r THEN lent ELSE lent \cup {t}
  BY DEF Awaits
<1>4. t \in Requests
  BY <1>1 DEF Tokened
<1>5. waits'[r].token = t /\ \A q \in Requests : q # r => waits'[q] = waits[q]
  BY <1>2
<1>6. CASE at' = [at EXCEPT ![r] = "due"] /\ wake' = wake
  <2>1. at'[r] = "due" /\ \A q \in Requests : q # r => at'[q] = at[q]
    BY <1>6
  <2>2. WakeTypes'
    BY <1>1, <1>2, <1>6 DEF Phases
  <2>3. Tokened'
    BY <1>1, <2>1 DEF Tokened
  <2>4. Lends'
    BY <1>3, <1>5, <2>1 DEF Lends
  <2>5. NoStaleWake'
    BY <1>1, <1>5, <1>6, <2>1 DEF NoStaleWake
  <2>6. WokenByItsClient'
    BY <1>1, <1>3, <1>5, <1>6, <2>1 DEF WokenByItsClient
  <2> QED
    BY <2>2, <2>3, <2>4, <2>5, <2>6
<1>7. CASE ~Cancelled(t) /\ at' = [at EXCEPT ![r] = "wait"] /\ SetWake(r, t)
  <2>1. at'[r] = "wait" /\ \A q \in Requests : q # r => at'[q] = at[q]
    BY <1>7
  <2>2. wake' = IF open[t] THEN [wake EXCEPT ![t] = r] ELSE wake
    BY <1>7 DEF SetWake
  <2>3. WakeTypes'
    BY <1>1, <1>2, <1>7, <2>2 DEF Phases
  <2>4. Tokened'
    BY <1>1, <2>1 DEF Tokened
  <2>5. Lends'
    BY <1>3, <1>5, <2>1 DEF Lends
  <2>6. NoStaleWake'
    <3> SUFFICES ASSUME NEW x \in Requests, wake'[x] # Nobody
                 PROVE  at'[wake'[x]] = "wait" /\ waits'[wake'[x]].token = x /\ open'[x]
      BY DEF NoStaleWake
    <3>1. CASE x = t /\ open[t]
      <4>1. wake'[x] = r
        BY <1>4, <2>2, <3>1
      <4> QED
        BY <1>1, <1>5, <2>1, <3>1, <4>1
    <3>2. CASE ~(x = t /\ open[t])
      <4>1. wake'[x] = wake[x]
        BY <1>4, <2>2, <3>2
      <4>2. at[wake[x]] = "wait" /\ waits[wake[x]].token = x /\ open[x]
        BY <4>1 DEF NoStaleWake
      <4>3. wake[x] \in Requests /\ wake[x] # r
        BY <1>1, <4>1, <4>2
      <4> QED
        BY <1>1, <1>5, <2>1, <4>1, <4>2, <4>3
    <3> QED
      BY <3>1, <3>2
  <2>7. WokenByItsClient'
    <3> SUFFICES ASSUME NEW q \in Requests, at'[q] = "wait", waits'[q].token = q, q \notin lent'
                 PROVE  open'[q] /\ wake'[q] = q
      BY DEF WokenByItsClient
    <3>1. CASE q = r
      <4>1. t = r
        BY <1>5, <3>1
      <4>2. open[r]
        BY <1>1, <1>7, <4>1 DEF Cancelled, Expired
      <4> QED
        BY <1>1, <2>2, <3>1, <4>1, <4>2
    <3>2. CASE q # r
      <4>1. at[q] = "wait" /\ waits[q].token = q /\ q \notin lent /\ q # t
        BY <1>3, <1>5, <2>1, <3>2
      <4>2. open[q] /\ wake[q] = q
        BY <4>1 DEF WokenByItsClient
      <4> QED
        BY <1>1, <2>2, <4>1, <4>2
    <3> QED
      BY <3>1, <3>2
  <2> QED
    BY <2>3, <2>4, <2>5, <2>6, <2>7
<1> QED
  BY <1>6, <1>7 DEF Awaits

LEMMA WakeWakes ==
  ASSUME WakeInv, NEW r \in Requests, Wake(r)
  PROVE  WakeInv'
<1> USE DEF WakeInv, WakeTypes
<1> DEFINE t == waits[r].token
<1>1. /\ at[r] = "wait" /\ at' = [at EXCEPT ![r] = "due"] /\ wake' = [wake EXCEPT ![t] = Nobody]
      /\ UNCHANGED <<on, open, token, waits, lent>>
  BY DEF Wake, ClearWake
<1>2. at'[r] = "due" /\ \A q \in Requests : q # r => at'[q] = at[q]
  BY <1>1
<1>3. WakeTypes'
  BY <1>1 DEF Phases
<1>4. Tokened'
  BY <1>1, <1>2 DEF Tokened
<1>5. Lends'
  BY <1>1, <1>2 DEF Lends
<1>6. NoStaleWake'
  <2> SUFFICES ASSUME NEW x \in Requests, wake'[x] # Nobody
               PROVE  at'[wake'[x]] = "wait" /\ waits'[wake'[x]].token = x /\ open'[x]
    BY DEF NoStaleWake
  <2>1. x # t /\ wake'[x] = wake[x]
    BY <1>1
  <2>2. at[wake[x]] = "wait" /\ waits[wake[x]].token = x /\ open[x] /\ wake[x] \in Requests
    BY <2>1 DEF NoStaleWake
  <2>3. wake[x] # r
    BY <2>1, <2>2
  <2> QED
    BY <1>1, <1>2, <2>1, <2>2, <2>3
<1>7. WokenByItsClient'
  <2> SUFFICES ASSUME NEW q \in Requests, at'[q] = "wait", waits'[q].token = q, q \notin lent'
               PROVE  open'[q] /\ wake'[q] = q
    BY DEF WokenByItsClient
  <2>1. q # r /\ at[q] = "wait" /\ waits[q].token = q /\ q \notin lent
    BY <1>1, <1>2
  <2>2. open[q] /\ wake[q] = q
    BY <2>1 DEF WokenByItsClient
  <2>3. q # t
    BY <1>1, <2>1 DEF Lends
  <2> QED
    BY <1>1, <2>2, <2>3
<1> QED
  BY <1>3, <1>4, <1>5, <1>6, <1>7

LEMMA WakeDisconnects ==
  ASSUME WakeInv, NEW r \in Requests, Disconnect(r)
  PROVE  WakeInv'
<1> USE DEF WakeInv, WakeTypes
<1>1. /\ at[r] \in {"wait", "done"}
      /\ open' = [open EXCEPT ![r] = FALSE]
      /\ at' = [q \in Requests |-> IF q = wake[r] THEN "due" ELSE at[q]]
      /\ wake' = [wake EXCEPT ![r] = Nobody]
      /\ UNCHANGED <<on, token, waits, lent>>
  BY DEF Disconnect, ClearWake
<1>2. WakeTypes'
  BY <1>1 DEF Phases
<1>3. Tokened'
  <2> SUFFICES ASSUME NEW q \in Requests, at'[q] # "new" PROVE on[q] \in Loops /\ token[on[q]] # Nobody
    BY <1>1 DEF Tokened
  <2>1. at[q] # "new"
    <3>1. CASE q = wake[r]
      BY <3>1, NamesAssumption DEF NoStaleWake
    <3>2. CASE q # wake[r]
      BY <1>1, <3>2
    <3> QED
      BY <3>1, <3>2
  <2> QED
    BY <2>1 DEF Tokened
<1>4. Lends'
  BY <1>1 DEF Lends
<1>5. NoStaleWake'
  <2> SUFFICES ASSUME NEW x \in Requests, wake'[x] # Nobody
               PROVE  at'[wake'[x]] = "wait" /\ waits'[wake'[x]].token = x /\ open'[x]
    BY DEF NoStaleWake
  <2>1. x # r /\ wake'[x] = wake[x]
    BY <1>1
  <2>2. at[wake[x]] = "wait" /\ waits[wake[x]].token = x /\ open[x] /\ wake[x] \in Requests
    BY <2>1 DEF NoStaleWake
  <2>3. wake[x] # wake[r]
    <3>1. CASE wake[r] = Nobody
      BY <2>1, <3>1
    <3>2. CASE wake[r] # Nobody
      BY <2>1, <2>2, <3>2 DEF NoStaleWake
    <3> QED
      BY <3>1, <3>2
  <2> QED
    BY <1>1, <2>1, <2>2, <2>3
<1>6. WokenByItsClient'
  <2> SUFFICES ASSUME NEW q \in Requests, at'[q] = "wait", waits'[q].token = q, q \notin lent'
               PROVE  open'[q] /\ wake'[q] = q
    BY DEF WokenByItsClient
  <2>1. q # wake[r] /\ at[q] = "wait" /\ waits[q].token = q /\ q \notin lent
    BY <1>1
  <2>2. open[q] /\ wake[q] = q
    BY <2>1 DEF WokenByItsClient
  <2>3. q # r
    BY <2>1, <2>2
  <2> QED
    BY <1>1, <2>2, <2>3
<1> QED
  BY <1>2, <1>3, <1>4, <1>5, <1>6

LEMMA WakeNext == WakeInv /\ [Next]_vars => WakeInv'
<1> SUFFICES ASSUME WakeInv, [Next]_vars PROVE WakeInv'
  OBVIOUS
<1>1. CASE UNCHANGED wakeVars
  <2>1. UNCHANGED <<at, on, open, token, waits, wake, lent>>
    BY <1>1 DEF wakeVars
  <2> QED
    BY <2>1 DEF WakeInv, WakeTypes, Tokened, Lends, NoStaleWake, WokenByItsClient
<1> QED
  BY <1>1, WakeSteps, WakeBegins, WakeProceeds, WakeAwaits, WakeWakes, WakeDisconnects

\* Which token a handler waits under, and whom that token wakes, agree with
\* its phase (cancel.hpp, sleep.hpp): the invariant that the next two rest on.
THEOREM WakeInvariant == Spec => []WakeInv
BY WakeInit, WakeNext, PTL DEF Spec

\* cancel() resumes nobody but a handler that waits, under the token that is
\* cancelled, whatever the handlers do and however many there are
\* (task.hpp:203-214).
THEOREM NoStaleWakeHolds == Spec => []NoStaleWake
<1>1. WakeInv => NoStaleWake
  BY DEF WakeInv
<1> QED
  BY <1>1, WakeInvariant, PTL

\* A handler that waits under a token nobody else has slept under is woken by
\* its own client, who has not left (GUIDE.md:465).
THEOREM WokenByItsClientHolds == Spec => []WokenByItsClient
<1>1. WakeInv => WokenByItsClient
  BY DEF WakeInv
<1> QED
  BY <1>1, WakeInvariant, PTL

-----------------------------------------------------------------------------
(***************************************************************************)
(* Loops.  A loop has one handler that runs or is due at most: whoever is  *)
(* resumed by cancel() is on the loop of the connection that closes.       *)
(***************************************************************************)
Busy(r) == at[r] \in {"run", "due"}
OneBusy == \A q, r \in Requests : on[q] = on[r] /\ Busy(q) /\ Busy(r) => q = r
Homes == \A l \in Loops : token[l] # Nobody => on[token[l]] = l /\ at[token[l]] # "new"
Nearby == \A t \in Requests : wake[t] # Nobody => on[wake[t]] = on[t] /\ at[t] # "new"
LoopInv == WakeInv /\ OneBusy /\ Homes /\ Nearby

LEMMA LoopInit == Init => LoopInv
BY WakeInit DEF Init, LoopInv, OneBusy, Busy, Homes, Nearby

LEMMA LoopNext == LoopInv /\ [Next]_vars => LoopInv'
<1> SUFFICES ASSUME LoopInv, [Next]_vars PROVE LoopInv'
  OBVIOUS
<1>1. WakeInv /\ OneBusy /\ Homes /\ Nearby /\ WakeTypes /\ NoStaleWake /\ Tokened
  BY DEF LoopInv, WakeInv
<1>2. WakeInv'
  BY <1>1, WakeNext
<1>3. CASE UNCHANGED wakeVars
  <2>1. UNCHANGED <<at, on, token, wake>>
    BY <1>3 DEF wakeVars
  <2> QED
    BY <1>1, <1>2, <2>1 DEF LoopInv, OneBusy, Busy, Homes, Nearby
<1>4. ASSUME NEW r \in Requests, NEW l \in Loops, Begins(r, l)
      PROVE  LoopInv'
  <2>1. PICK phase \in {"run", "done"} : at' = [at EXCEPT ![r] = phase]
    BY <1>4 DEF Begins
  <2>2. /\ at[r] = "new" /\ Idling(l)
        /\ on' = [on EXCEPT ![r] = l] /\ token' = [token EXCEPT ![l] = r] /\ wake' = wake
    BY <1>4 DEF Begins
  <2>3. /\ at'[r] = phase /\ on'[r] = l
        /\ \A q \in Requests : q # r => at'[q] = at[q] /\ on'[q] = on[q]
    BY <1>1, <2>1, <2>2 DEF WakeTypes
  <2>4. OneBusy'
    BY <1>1, <2>3, <2>2 DEF OneBusy, Busy, Idling
  <2>5. Homes'
    <3> SUFFICES ASSUME NEW k \in Loops, token'[k] # Nobody PROVE on'[token'[k]] = k /\ at'[token'[k]] # "new"
      BY DEF Homes
    <3>1. CASE k = l
      BY <1>1, <2>2, <2>3, <3>1 DEF WakeTypes
    <3>2. CASE k # l
      <4>1. token'[k] = token[k] /\ token[k] \in Requests /\ on[token[k]] = k /\ at[token[k]] # "new"
        BY <1>1, <2>2, <3>2 DEF Homes, WakeTypes
      <4> QED
        BY <2>2, <2>3, <4>1
    <3> QED
      BY <3>1, <3>2
  <2>6. Nearby'
    <3> SUFFICES ASSUME NEW t \in Requests, wake'[t] # Nobody PROVE on'[wake'[t]] = on'[t] /\ at'[t] # "new"
      BY DEF Nearby
    <3>1. on[wake[t]] = on[t] /\ at[t] # "new" /\ at[wake[t]] = "wait" /\ wake[t] \in Requests
      BY <1>1, <2>2 DEF Nearby, NoStaleWake, WakeTypes
    <3> QED
      BY <2>2, <2>3, <3>1
  <2> QED
    BY <1>2, <2>4, <2>5, <2>6 DEF LoopInv
<1>5. ASSUME NEW r \in Requests, Proceeds(r)
      PROVE  LoopInv'
  <2>1. PICK phase \in {"run", "done", "gone"} : at' = [at EXCEPT ![r] = phase]
    BY <1>5 DEF Proceeds
  <2>2. Busy(r) /\ UNCHANGED <<on, token, wake>>
    BY <1>5 DEF Proceeds, Busy
  <2>3. at'[r] = phase /\ at'[r] # "new" /\ \A q \in Requests : q # r => at'[q] = at[q]
    BY <1>1, <2>1 DEF WakeTypes
  <2>4. OneBusy'
    BY <1>1, <2>2, <2>3 DEF OneBusy, Busy
  <2>5. Homes'
    BY <1>1, <2>2, <2>3 DEF Homes, WakeTypes
  <2>6. Nearby'
    BY <1>1, <2>2, <2>3 DEF Nearby
  <2> QED
    BY <1>2, <2>4, <2>5, <2>6 DEF LoopInv
<1>6. ASSUME NEW r \in Requests, NEW t, Awaits(r, t)
      PROVE  LoopInv'
  <2>1. /\ at[r] = "run" /\ t \in {r, token[on[r]]} /\ UNCHANGED <<on, token>>
        /\ wake' = wake \/ wake' = [wake EXCEPT ![t] = r]
    BY <1>6 DEF Awaits, SetWake
  <2>2. PICK phase \in {"due", "wait"} : at' = [at EXCEPT ![r] = phase]
    BY <1>6 DEF Awaits
  <2>3. at'[r] = phase /\ at'[r] # "new" /\ \A q \in Requests : q # r => at'[q] = at[q]
    BY <1>1, <2>2 DEF WakeTypes
  <2>4. on[r] \in Loops /\ token[on[r]] # Nobody
    BY <1>1, <2>1 DEF Tokened
  <2>5. on[t] = on[r] /\ at[t] # "new" /\ t \in Requests
    BY <1>1, <2>1, <2>4 DEF Homes, WakeTypes
  <2>6. OneBusy'
    BY <1>1, <2>1, <2>3 DEF OneBusy, Busy
  <2>7. Homes'
    BY <1>1, <2>1, <2>3 DEF Homes, WakeTypes
  <2>8. Nearby'
    <3> SUFFICES ASSUME NEW x \in Requests, wake'[x] # Nobody PROVE on[wake'[x]] = on[x] /\ at'[x] # "new"
      BY <2>1 DEF Nearby
    <3>1. CASE wake'[x] = wake[x]
      BY <1>1, <2>3, <3>1 DEF Nearby
    <3>2. CASE wake'[x] # wake[x]
      <4>1. x = t /\ wake'[x] = r
        BY <1>1, <2>1, <3>2 DEF WakeTypes
      <4> QED
        BY <2>3, <2>5, <4>1
    <3> QED
      BY <3>1, <3>2
  <2> QED
    BY <1>2, <2>6, <2>7, <2>8 DEF LoopInv
<1>7. ASSUME NEW r \in Requests, Wake(r)
      PROVE  LoopInv'
  <2>1. /\ at[r] = "wait" /\ Idling(on[r]) /\ at' = [at EXCEPT ![r] = "due"]
        /\ wake' = [wake EXCEPT ![waits[r].token] = Nobody] /\ UNCHANGED <<on, token>>
    BY <1>7 DEF Wake, ClearWake
  <2>2. at'[r] = "due" /\ \A q \in Requests : q # r => at'[q] = at[q]
    BY <1>1, <2>1 DEF WakeTypes
  <2>3. OneBusy'
    BY <1>1, <2>1, <2>2 DEF OneBusy, Busy, Idling
  <2>4. Homes'
    BY <1>1, <2>1, <2>2 DEF Homes, WakeTypes
  <2>5. \A x \in Requests : wake'[x] # Nobody => wake'[x] = wake[x]
    BY <1>1, <2>1 DEF WakeTypes
  <2>6. Nearby'
    BY <1>1, <2>1, <2>2, <2>5 DEF Nearby
  <2> QED
    BY <1>2, <2>3, <2>4, <2>6 DEF LoopInv
<1>8. ASSUME NEW r \in Requests, Disconnect(r)
      PROVE  LoopInv'
  <2>1. /\ at[r] \in {"wait", "done"} /\ Idling(on[r])
        /\ at' = [q \in Requests |-> IF q = wake[r] THEN "due" ELSE at[q]]
        /\ wake' = [wake EXCEPT ![r] = Nobody] /\ UNCHANGED <<on, token>>
    BY <1>8 DEF Disconnect, ClearWake
  <2>2. \A q \in Requests : at'[q] = IF q = wake[r] THEN "due" ELSE at[q]
    BY <2>1
  <2>3. wake[r] \in Requests => on[wake[r]] = on[r] /\ at[wake[r]] = "wait"
    BY <1>1, NamesAssumption DEF Nearby, NoStaleWake
  <2>4. OneBusy'
    BY <1>1, <2>1, <2>2, <2>3 DEF OneBusy, Busy, Idling
  <2>5. \A q \in Requests : at[q] # "new" => at'[q] # "new"
    BY <2>2
  <2>6. Homes'
    BY <1>1, <2>1, <2>5 DEF Homes, WakeTypes
  <2>7. \A x \in Requests : wake'[x] # Nobody => wake'[x] = wake[x]
    BY <1>1, <2>1 DEF WakeTypes
  <2>8. Nearby'
    BY <1>1, <2>1, <2>5, <2>7 DEF Nearby
  <2> QED
    BY <1>2, <2>4, <2>6, <2>8 DEF LoopInv
<1> QED
  BY <1>3, <1>4, <1>5, <1>6, <1>7, <1>8, WakeSteps

\* Handlers, connections and tokens of a loop stay on it: the invariant that
\* the next theorem rests on.
THEOREM LoopInvariant == Spec => []LoopInv
BY LoopInit, LoopNext, PTL DEF Spec

\* A token and its wake function have no lock (task.hpp:203-214): whoever is
\* resumed by cancel() is a handler of the very loop whose connection closes,
\* and no two handlers of a loop are ever at it together.
OneThread ==
  /\ \A q, r \in Requests : on[q] = on[r] /\ at[q] \in {"run", "due"} /\ at[r] \in {"run", "due"} => q = r
  /\ \A t \in Requests : wake[t] # Nobody => on[wake[t]] = on[t]
\* Coroutines of a loop are resumed one at a time, by that loop.
THEOREM OneThreadHolds == Spec => []OneThread
<1>1. LoopInv => OneThread
  BY DEF LoopInv, OneBusy, Busy, Nearby, OneThread
<1> QED
  BY <1>1, LoopInvariant, PTL

-----------------------------------------------------------------------------
(***************************************************************************)
(* Machines.  A version that has been dispatched to is one that compiled;  *)
(* its code and its places are those of its project.                       *)
(***************************************************************************)
ProjectOf(s, v) == Compiled[Stories[s][v]]
CodeAt(s, v)    == ProjectOf(s, v).chunks
PlacesAt(s, v)  == Depths[Stories[s][v]]
Fine(s, v)      == v \in DOMAIN Stories[s] /\ ProjectOf(s, v).ok
Routed(s, v, i) == i # 0 /\ i \in DOMAIN ProjectOf(s, v).routes /\ ProjectOf(s, v).routes[i].chunk \in DOMAIN CodeAt(s, v)
Shares(s, v, i) == LET route == ProjectOf(s, v).routes[i]
                   IN route.method \notin Streams /\ ~CodeAt(s, v)[route.chunk].await

\* A machine, loaded with nothing or laid out for the version it is loaded with.
Sound(s, a) ==
  /\ a = Loaded(a.version, a.vm)
  /\ a.version # 0 => Fine(s, a.version) /\ Laid(CodeAt(s, a.version), PlacesAt(s, a.version), a.vm)

\* The handlers that are under way, and the machine each of them has.
Active(r) == at[r] \in {"run", "wait", "due"}
Shared(r) == Shares(story, under[r].version, under[r].route)
Machine(r) == IF Shared(r) THEN shared[on[r]] ELSE own[r]

Published ==
  /\ story \in DOMAIN Stories /\ saved \in DOMAIN Stories[story] /\ Fine(story, live)
  /\ {"at", "read", "seen"} \subseteq DOMAIN watcher /\ watcher.read \in DOMAIN Stories[story]
Placements ==
  /\ DOMAIN under = Requests /\ DOMAIN own = Requests /\ DOMAIN shared = Loops
  /\ \A r \in Requests : {"version", "route"} \subseteq DOMAIN under[r]
  /\ \A r \in Requests : Active(r) =>
       Fine(story, under[r].version) /\ Routed(story, under[r].version, under[r].route)
Layouts ==
  /\ \A r \in Requests : Sound(story, own[r])
  /\ \A l \in Loops : Sound(story, shared[l])
\* Who runs has a machine that runs, and nobody else has.
Turns ==
  /\ \A r \in Requests : Active(r) => Machine(r).version # 0
  /\ \A r \in Requests : at[r] = "run" => Machine(r).vm.status = "run"
  /\ \A r \in Requests : at[r] \in {"wait", "due"} /\ ~Shared(r) => own[r].vm.status # "run"
  /\ \A l \in Loops : shared[l].vm.status = "run" => \E r \in Requests : at[r] = "run" /\ on[r] = l /\ Shared(r)
LayoutInv == LoopInv /\ Published /\ Placements /\ Layouts /\ Turns

LEMMA FineFacts ==
  ASSUME NEW s \in DOMAIN Stories, NEW v, Fine(s, v)
  PROVE  /\ v # 0 /\ Stories[s][v] \in DOMAIN Compiled
         /\ Verified(CodeAt(s, v), PlacesAt(s, v)) /\ OnlyJumpsGoBack(CodeAt(s, v))
<1>1. Stories[s] \in Seq(DOMAIN Compiled)
  BY StoriesAssumption
<1>2. DOMAIN Stories[s] = 1..Len(Stories[s]) /\ Len(Stories[s]) \in Nat
  BY <1>1, LenProperties
<1>3. v \in 1..Len(Stories[s])
  BY <1>2 DEF Fine
<1>4. Stories[s][v] \in DOMAIN Compiled
  BY <1>1, <1>3, ElementOfSeq
<1> QED
  BY <1>2, <1>3, <1>4, CodeAssumption DEF Fine, ProjectOf, CodeAt, PlacesAt

\* What the handlers say of their machine is what the invariant says.
LEMMA MachineFacts ==
  ASSUME LayoutInv, NEW r \in Requests, Active(r)
  PROVE  /\ Borrows(r) <=> Shared(r)
         /\ MachineOf(r) = Machine(r)
         /\ CodeOf(r) = CodeAt(story, Machine(r).version)
         /\ Sound(story, Machine(r)) /\ Machine(r).version # 0
         /\ on[r] \in Loops
<1>1. Routed(story, under[r].version, under[r].route)
  BY DEF LayoutInv, Placements
<1>2. Route(r) = ModuleOf(under[r].version).routes[under[r].route]
  BY <1>1 DEF Routed, Route, RouteOf
<1>3. Borrows(r) <=> Shared(r)
  BY <1>2 DEF Borrows, Shared, Shares, Chunks, CodeAt, ProjectOf, ModuleOf
<1>4. MachineOf(r) = Machine(r)
  BY <1>3 DEF MachineOf, Machine
<1>5. CodeOf(r) = CodeAt(story, Machine(r).version)
  BY <1>4 DEF CodeOf, CodeAt, ProjectOf, ModuleOf
<1>6. on[r] \in Loops
  BY DEF LayoutInv, LoopInv, WakeInv, Tokened, Active
<1>7. Sound(story, Machine(r)) /\ Machine(r).version # 0
  BY <1>6 DEF LayoutInv, Layouts, Machine, Turns
<1> QED
  BY <1>3, <1>4, <1>5, <1>6, <1>7

-----------------------------------------------------------------------------
(***************************************************************************)
(* What a step does to the machines.                                       *)
(***************************************************************************)
Refused(r, l) ==
  /\ at[r] = "new"
  /\ at' = [at EXCEPT ![r] = "done"]
  /\ \E u : {"version", "route"} \subseteq DOMAIN u /\ under' = [under EXCEPT ![r] = u]
  /\ on' = [on EXCEPT ![r] = l]
  /\ UNCHANGED <<hotVars, own, shared>>

Launched(r, l, u, vm) ==
  /\ at[r] = "new" /\ Idling(l)
  /\ at' = [at EXCEPT ![r] = "run"]
  /\ {"version", "route"} \subseteq DOMAIN u /\ u.version = live /\ Routed(story, live, u.route)
  /\ under' = [under EXCEPT ![r] = u]
  /\ on' = [on EXCEPT ![r] = l]
  /\ Laid(CodeAt(story, live), PlacesAt(story, live), vm) /\ vm.status = "run"
  /\ IF Shares(story, live, u.route) THEN shared' = [shared EXCEPT ![l] = Loaded(live, vm)] /\ UNCHANGED own
     ELSE own' = [own EXCEPT ![r] = Loaded(live, vm)] /\ UNCHANGED shared
  /\ UNCHANGED hotVars

Moves(r, vm, phase) ==
  /\ at[r] \in {"run", "due"} /\ phase \in Phases
  /\ at' = [at EXCEPT ![r] = phase]
  /\ Laid(CodeAt(story, Machine(r).version), PlacesAt(story, Machine(r).version), vm)
  /\ phase = "run" <=> vm.status = "run"
  /\ under' = under \/ under' = [under EXCEPT ![r].fixed = live]
  /\ IF Shared(r) THEN shared' = [shared EXCEPT ![on[r]].vm = vm] /\ UNCHANGED own
     ELSE own' = [own EXCEPT ![r].vm = vm] /\ UNCHANGED shared
  /\ UNCHANGED <<hotVars, on>>

Drifts ==
  /\ \A q \in Requests : \/ at'[q] = at[q]
                         \/ at[q] = "wait" /\ at'[q] = "due"
                         \/ at[q] = "due" /\ at'[q] = "gone"
  /\ UNCHANGED <<hotVars, on, under, own, shared>>

\* The registers of a machine in the world of its handler, and bare again.
LEMMA InWorldIsLaid ==
  ASSUME NEW chunks, NEW places, NEW r, NEW vm, Laid(chunks, places, vm)
  PROVE  Laid(chunks, places, InWorld(r, vm)) /\ InWorld(r, vm).status = vm.status
<1>1. Registers \subseteq DOMAIN vm
  BY DEF Laid
<1>2. Registers \subseteq DOMAIN InWorld(r, vm) /\ \A x \in Registers : InWorld(r, vm)[x] = vm[x]
  BY <1>1 DEF InWorld, Registers
<1> QED
  BY <1>2, SameLayout DEF Registers

LEMMA BareIsLaid ==
  ASSUME NEW chunks, NEW places, NEW m, Laid(chunks, places, m)
  PROVE  Laid(chunks, places, Bare(m)) /\ Bare(m).status = m.status
<1>1. Registers \subseteq DOMAIN m
  BY DEF Laid
<1>2. Registers \subseteq DOMAIN Bare(m) /\ \A x \in Registers : Bare(m)[x] = m[x]
  BY <1>1 DEF Bare, Registers
<1> QED
  BY <1>2, SameLayout DEF Registers

LEMMA DispatchLaunches ==
  ASSUME LayoutInv, NEW r \in Requests, NEW l \in Loops, NEW in \in Arrivals[story][r], Dispatch(r, l, in)
  PROVE  Refused(r, l) \/ \E u, vm : Launched(r, l, u, vm)
<1> DEFINE found == Lookup(ModuleOf(live).router, in.method, in.url)
           mod == ModuleOf(live)
           route == RouteOf(mod, in, found)
           bound == Prepare(mod, Authenticate(mod, World(r), in), route.binds, in @@ [path |-> found.path])
           u == [version |-> live, route |-> found.route, path |-> found.path, fixed |-> live]
           vm == StartVM(mod.chunks, route.chunk, bound.args)
<1>1. /\ at[r] = "new" /\ Idling(l)
      /\ on' = [on EXCEPT ![r] = l] /\ under' = [under EXCEPT ![r] = u]
      /\ Enter(r, l, mod, route, bound)
      /\ UNCHANGED hotVars
  BY DEF Dispatch, DispatchTo
<1>2. story \in DOMAIN Stories /\ Fine(story, live) /\ mod = ProjectOf(story, live) /\ mod.ok
  BY DEF LayoutInv, Published, Fine, ModuleOf, ProjectOf
<1>3. found.route \in {0} \cup DOMAIN mod.routes
  BY <1>2, RouteAssumption DEF Fine, ModuleOf
<1>4. Stories[story][live] \in DOMAIN Compiled /\ Verified(CodeAt(story, live), PlacesAt(story, live))
  BY <1>2, FineFacts
<1>5. {"version", "route"} \subseteq DOMAIN u /\ u.version = live /\ u.route = found.route
  OBVIOUS
<1>6. ASSUME NEW w, NEW told, AtOnce(r, w, told)
      PROVE  Refused(r, l)
  <2>1. at' = [at EXCEPT ![r] = "done"] /\ UNCHANGED <<own, shared>>
    BY <1>6, Settling DEF AtOnce
  <2> HIDE DEF u
  <2> QED
    BY <1>1, <1>5, <2>1 DEF Refused
<1>7. ASSUME Launch(r, l, mod, route, bound), route.chunk # 0
      PROVE  Launched(r, l, u, vm)
  <2>1. found.route # 0 /\ route = mod.routes[found.route]
    BY <1>7 DEF RouteOf, NotFound
  <2>2. route.chunk \in DOMAIN mod.chunks
    BY <1>2, <1>3, <1>4, <1>7, <2>1, CodeAssumption DEF ProjectOf
  <2>3. Routed(story, live, u.route)
    BY <1>2, <1>3, <1>5, <2>1, <2>2 DEF Routed, CodeAt
  <2>4. Laid(CodeAt(story, live), PlacesAt(story, live), vm) /\ vm.status = "run"
    <3>1. CodeAt(story, live) = mod.chunks
      BY <1>2 DEF CodeAt
    <3> HIDE DEF mod, route, bound
    <3> QED
      BY <1>4, <2>2, <3>1, StartIsLaid
  <2>5. Shares(story, live, u.route) <=> (route.method \notin Streams /\ ~mod.chunks[route.chunk].await)
    BY <1>2, <1>5, <2>1 DEF Shares, CodeAt
  <2> DEFINE start == Loaded(live, vm)
  <2>6. /\ at' = [at EXCEPT ![r] = "run"]
        /\ IF route.method \notin Streams /\ ~mod.chunks[route.chunk].await
           THEN shared' = [shared EXCEPT ![l] = start] /\ UNCHANGED own
           ELSE own' = [own EXCEPT ![r] = start] /\ UNCHANGED shared
    <3> HIDE DEF mod, route, bound
    <3> QED
      BY <1>7 DEF Launch
  <2> HIDE DEF mod, route, bound, u, vm
  <2> QED
    BY <1>1, <1>5, <2>3, <2>4, <2>5, <2>6 DEF Launched
<1>8. (\E w, told : AtOnce(r, w, told)) \/ (route.chunk # 0 /\ Launch(r, l, mod, route, bound))
  <2> HIDE DEF mod, route, bound
  <2> QED
    BY <1>1 DEF Enter
<1> HIDE DEF mod, route, bound, u, vm
<1> QED
  BY <1>6, <1>7, <1>8

\* The machine that a handler leaves behind.
LEMMA MachineSet ==
  ASSUME LayoutInv, NEW r \in Requests, Active(r), NEW m, SetMachine(r, m)
  PROVE  IF Shared(r) THEN shared' = [shared EXCEPT ![on[r]].vm = Bare(m)] /\ UNCHANGED own
         ELSE own' = [own EXCEPT ![r].vm = Bare(m)] /\ UNCHANGED shared
BY MachineFacts DEF SetMachine

LEMMA ExecuteMoves ==
  ASSUME LayoutInv, NEW r \in Requests, Execute(r)
  PROVE  \E vm, phase : Moves(r, vm, phase)
<1> DEFINE vm0 == Machine(r).vm
           chunks == CodeAt(story, Machine(r).version)
           places == PlacesAt(story, Machine(r).version)
           m == Step(chunks, InWorld(r, vm0))
           vm == Bare(m)
<1>1. at[r] = "run" /\ Active(r)
  BY DEF Execute, Active
<1>2. /\ MachineOf(r) = Machine(r) /\ CodeOf(r) = chunks
      /\ Sound(story, Machine(r)) /\ Machine(r).version # 0
  BY <1>1, MachineFacts
<1>3. /\ Executed(r, m)
      /\ UNCHANGED <<hotVars, on>>
  BY <1>2 DEF Execute
<1>4. story \in DOMAIN Stories /\ Fine(story, Machine(r).version) /\ Laid(chunks, places, vm0) /\ vm0.status = "run"
  BY <1>1, <1>2 DEF Sound, LayoutInv, Published, Turns
<1>5. Verified(chunks, places)
  BY <1>4, FineFacts
<1>6. Laid(chunks, places, InWorld(r, vm0)) /\ InWorld(r, vm0).status = "run"
  <2> HIDE DEF chunks, places, vm0
  <2> QED
    BY <1>4, InWorldIsLaid
<1>7. Laid(chunks, places, m)
  <2> DEFINE n == InWorld(r, vm0)
  <2>1. Laid(chunks, places, n) /\ n.status = "run"
    BY <1>6
  <2> HIDE DEF chunks, places, n
  <2> QED
    BY <1>5, <2>1, StepKeepsLayout DEF n
<1>8. Laid(chunks, places, vm) /\ vm.status = m.status /\ m.status \in {"run", "await", "done", "error"}
  <2> HIDE DEF chunks, places, m
  <2> QED
    BY <1>7, BareIsLaid DEF Laid
<1>9. SetMachine(r, m)
  <2> HIDE DEF m
  <2> QED
    BY <1>3 DEF Executed
<1>10. IF Shared(r) THEN shared' = [shared EXCEPT ![on[r]].vm = vm] /\ UNCHANGED own
       ELSE own' = [own EXCEPT ![r].vm = vm] /\ UNCHANGED shared
  <2> HIDE DEF m
  <2> QED
    BY <1>1, <1>9, MachineSet
<1> HIDE DEF m, vm, chunks, places
<1>11. \E phase \in Phases : /\ at' = [at EXCEPT ![r] = phase]
                             /\ phase = "run" <=> vm.status = "run"
                             /\ under' = under \/ under' = [under EXCEPT ![r].fixed = live]
  <2>1. CASE m.status \in {"done", "error"}
    <3>1. Finish(r, m)
      BY <1>3, <2>1 DEF Executed
    <3>2. at' = [at EXCEPT ![r] = "done"] /\ under' = [under EXCEPT ![r].fixed = live]
      BY <3>1, Settling DEF Finish
    <3> QED
      BY <1>8, <2>1, <3>2 DEF Phases
  <2>2. CASE m.status = "await"
    <3>1. Suspend(r, m) /\ under' = under
      BY <1>3, <2>2 DEF Executed
    <3>2. \E phase \in {"wait", "due"} : at' = [at EXCEPT ![r] = phase]
      BY <3>1 DEF Suspend, Receive, Sleep
    <3> QED
      BY <1>8, <2>2, <3>1, <3>2 DEF Phases
  <2>3. CASE m.status = "run"
    <3>1. at' = at /\ under' = under
      BY <1>3, <2>3 DEF Executed
    <3>2. at \in [Requests -> Phases]
      BY DEF LayoutInv, LoopInv, WakeInv, WakeTypes
    <3>3. at' = [at EXCEPT ![r] = "run"]
      BY <1>1, <3>1, <3>2
    <3> QED
      BY <1>8, <2>3, <3>1, <3>3 DEF Phases
  <2> QED
    BY <1>8, <2>1, <2>2, <2>3
<1>12. PICK phase \in Phases : /\ at' = [at EXCEPT ![r] = phase]
                               /\ phase = "run" <=> vm.status = "run"
                               /\ under' = under \/ under' = [under EXCEPT ![r].fixed = live]
  BY <1>11
<1>13. Moves(r, vm, phase)
  BY <1>1, <1>3, <1>8, <1>10, <1>12 DEF Moves, chunks, places
<1> QED
  BY <1>13

\* Nobody else runs on the loop of a handler that is due, so its machine rests.
LEMMA DueRests ==
  ASSUME LayoutInv, NEW r \in Requests, at[r] = "due"
  PROVE  Machine(r).vm.status # "run"
<1>1. Active(r)
  BY DEF Active
<1>2. on[r] \in Loops
  BY <1>1, MachineFacts
<1>3. CASE Shared(r)
  <2> SUFFICES ASSUME shared[on[r]].vm.status = "run" PROVE FALSE
    BY <1>3 DEF Machine
  <2>1. PICK q \in Requests : at[q] = "run" /\ on[q] = on[r]
    BY <1>2 DEF LayoutInv, Turns
  <2>2. q = r
    BY <2>1 DEF LayoutInv, LoopInv, OneBusy, Busy
  <2> QED
    BY <2>1, <2>2
<1>4. CASE ~Shared(r)
  BY <1>4 DEF Machine, LayoutInv, Turns
<1> QED
  BY <1>3, <1>4

LEMMA ResumeMoves ==
  ASSUME LayoutInv, NEW r \in Requests, Resume(r)
  PROVE  Drifts \/ \E vm, phase : Moves(r, vm, phase)
<1> DEFINE vm0 == Machine(r).vm
           chunks == CodeAt(story, Machine(r).version)
           places == PlacesAt(story, Machine(r).version)
           n == ResumeVM(vm0, Produced(r))
           m == InWorld(r, n)
           vm == Bare(m)
           Left1 == waits[r].for = "sleep" /\ ~open[r]
<1>1. at[r] = "due" /\ Active(r)
  BY DEF Resume, Active
<1>2. /\ MachineOf(r) = Machine(r)
      /\ Sound(story, Machine(r)) /\ Machine(r).version # 0
  BY <1>1, MachineFacts
<1>3. UNCHANGED <<hotVars, on>>
  BY DEF Resume
<1>4. CASE Left1
  <2>1. at' = [at EXCEPT ![r] = "gone"] /\ UNCHANGED <<under, own, shared>>
    BY <1>4 DEF Resume
  <2>2. \A q \in Requests : at'[q] = IF q = r THEN "gone" ELSE at[q]
    BY <2>1 DEF LayoutInv, LoopInv, WakeInv, WakeTypes
  <2>3. Drifts
    BY <1>1, <1>3, <2>1, <2>2 DEF Drifts
  <2> QED
    BY <2>3
<1>5. CASE ~Left1
  <2>1. /\ SetMachine(r, m)
        /\ IF m.status = "done" THEN Finish(r, m)
           ELSE at' = [at EXCEPT ![r] = "run"] /\ under' = under
    BY <1>2, <1>5 DEF Resume
  <2>2. story \in DOMAIN Stories /\ Fine(story, Machine(r).version) /\ Laid(chunks, places, vm0) /\ vm0.status # "run"
    BY <1>1, <1>2, DueRests DEF Sound, LayoutInv, Published
  <2>3. Verified(chunks, places)
    BY <2>2, FineFacts
  <2>4. Laid(chunks, places, n) /\ n.status \in {"run", "done"}
    <3> HIDE DEF chunks, places, vm0
    <3> QED
      BY <2>2, <2>3, ResumeIsLaid
  <2>5. Laid(chunks, places, m) /\ m.status = n.status
    <3> HIDE DEF chunks, places, n
    <3> QED
      BY <2>4, InWorldIsLaid
  <2>6. Laid(chunks, places, vm) /\ vm.status = m.status
    <3> HIDE DEF chunks, places, m
    <3> QED
      BY <2>5, BareIsLaid
  <2>7. IF Shared(r) THEN shared' = [shared EXCEPT ![on[r]].vm = vm] /\ UNCHANGED own
        ELSE own' = [own EXCEPT ![r].vm = vm] /\ UNCHANGED shared
    <3> HIDE DEF m
    <3> QED
      BY <1>1, <2>1, MachineSet
  <2> HIDE DEF m, n, vm, chunks, places
  <2>8. CASE m.status = "done"
    <3>1. at' = [at EXCEPT ![r] = "done"] /\ under' = [under EXCEPT ![r].fixed = live]
      BY <2>1, <2>8, Settling DEF Finish
    <3>2. Moves(r, vm, "done")
      BY <1>1, <1>3, <2>6, <2>7, <2>8, <3>1 DEF Moves, Phases, chunks, places
    <3> QED
      BY <3>2
  <2>9. CASE m.status = "run"
    <3>1. Moves(r, vm, "run")
      BY <1>1, <1>3, <2>1, <2>6, <2>7, <2>9 DEF Moves, Phases, chunks, places
    <3> QED
      BY <3>1
  <2> QED
    BY <2>4, <2>5, <2>8, <2>9
<1> QED
  BY <1>4, <1>5

LEMMA WakeDrifts ==
  ASSUME LayoutInv, NEW r \in Requests, Wake(r) \/ Disconnect(r)
  PROVE  Drifts
<1>1. at \in [Requests -> Phases]
  BY DEF LayoutInv, LoopInv, WakeInv, WakeTypes
<1>2. CASE Wake(r)
  BY <1>1, <1>2 DEF Wake, Drifts
<1>3. CASE Disconnect(r)
  <2>1. /\ at' = [q \in Requests |-> IF q = wake[r] THEN "due" ELSE at[q]]
        /\ UNCHANGED <<hotVars, on, under, own, shared>>
    BY <1>3 DEF Disconnect
  <2>2. wake[r] \in Requests => at[wake[r]] = "wait"
    BY NamesAssumption DEF LayoutInv, LoopInv, WakeInv, NoStaleWake
  <2> QED
    BY <2>1, <2>2 DEF Drifts
<1> QED
  BY <1>2, <1>3

-----------------------------------------------------------------------------
\* The watcher publishes what it has read, if that compiles.
LEMMA PublishedNext ==
  ASSUME Published, Save \/ Watch
  PROVE  Published' /\ story' = story
<1>1. story \in DOMAIN Stories
  BY DEF Published
<1>2. Stories[story] \in Seq(DOMAIN Compiled)
  BY <1>1, StoriesAssumption
<1>3. DOMAIN Stories[story] = 1..Len(Stories[story]) /\ Len(Stories[story]) \in Nat
  BY <1>2, LenProperties
<1>4. CASE Save
  <2>1. saved \in 1..Len(Stories[story]) /\ saved < Len(Stories[story]) /\ saved' = saved + 1
    BY <1>3, <1>4 DEF Save, Latest, Published
  <2>2. saved' \in DOMAIN Stories[story]
    BY <1>3, <2>1
  <2> QED
    BY <1>4, <2>2 DEF Save, Published, Fine, ProjectOf
<1>5. CASE Look
  BY <1>5 DEF Look, Published, Fine, ProjectOf
<1>6. CASE Read
  BY <1>6 DEF Read, Published, Fine, ProjectOf
<1>7. CASE Stamp
  BY <1>7 DEF Stamp, Published, Fine, ProjectOf
<1>8. CASE PublishModule
  BY <1>8 DEF PublishModule, Published, Fine, ProjectOf, ModuleOf
<1> QED
  BY <1>4, <1>5, <1>6, <1>7, <1>8 DEF Watch

LEMMA LayoutInit == Init => LayoutInv
<1> SUFFICES ASSUME Init PROVE LayoutInv
  OBVIOUS
<1>1. story \in DOMAIN Stories /\ saved = 1 /\ live = 1 /\ watcher = [at |-> "asleep", read |-> 1, seen |-> 1]
  BY DEF Init, HotInit
<1>2. Stories[story] \in Seq(DOMAIN Compiled) /\ Stories[story] # <<>> /\ Compiled[Stories[story][1]].ok
  BY <1>1, StoriesAssumption
<1>3. 1 \in DOMAIN Stories[story]
  <2>1. DOMAIN Stories[story] = 1..Len(Stories[story]) /\ Len(Stories[story]) \in Nat /\ Len(Stories[story]) # 0
    BY <1>2, LenProperties, EmptySeq
  <2> QED
    BY <2>1
<1>4. Published
  BY <1>1, <1>2, <1>3 DEF Published, Fine, ProjectOf
<1>5. Placements
  BY DEF Init, Placements, Active, Nowhere
<1>6. Layouts
  BY DEF Init, Layouts, Sound, Loaded
<1>7. Turns
  BY DEF Init, Turns, Active, Loaded, Idle
<1> QED
  BY <1>4, <1>5, <1>6, <1>7, LoopInit DEF LayoutInv

LEMMA LayoutReloads ==
  ASSUME LayoutInv, LoopInv', Reload
  PROVE  LayoutInv'
<1>1. Published' /\ story' = story
  BY PublishedNext DEF LayoutInv, Reload
<1>2. UNCHANGED <<at, on, under, own, shared>>
  BY DEF Reload
<1>3. Placements' /\ Layouts' /\ Turns'
  BY <1>1, <1>2 DEF LayoutInv, Placements, Layouts, Turns, Active, Machine, Shared
<1> QED
  BY <1>1, <1>3 DEF LayoutInv

LEMMA LayoutDrifts ==
  ASSUME LayoutInv, LoopInv', Drifts
  PROVE  LayoutInv'
<1>1. /\ \A q \in Requests : \/ at'[q] = at[q]
                             \/ at[q] = "wait" /\ at'[q] = "due"
                             \/ at[q] = "due" /\ at'[q] = "gone"
      /\ UNCHANGED <<hotVars, on, under, own, shared>>
  BY DEF Drifts
<1>2. UNCHANGED <<story, saved, live, watcher>>
  BY <1>1 DEF hotVars
<1>3. Published'
  BY <1>2 DEF LayoutInv, Published, Fine, ProjectOf
<1>4. \A q \in Requests : (Active(q)' => Active(q)) /\ (at'[q] = "run" <=> at[q] = "run")
                          /\ (at'[q] \in {"wait", "due"} => at[q] \in {"wait", "due"})
                          /\ (Shared(q)' <=> Shared(q)) /\ Machine(q)' = Machine(q)
  BY <1>1, <1>2 DEF Active, Shared, Machine
<1>5. Placements'
  BY <1>1, <1>2, <1>4 DEF LayoutInv, Placements
<1>6. Layouts'
  BY <1>1, <1>2 DEF LayoutInv, Layouts
<1>7. Turns'
  <2>1. \A q \in Requests : Active(q)' => Machine(q)'.version # 0
    BY <1>4 DEF LayoutInv, Turns
  <2>2. \A q \in Requests : at'[q] = "run" => Machine(q)'.vm.status = "run"
    BY <1>4 DEF LayoutInv, Turns
  <2>3. \A q \in Requests : at'[q] \in {"wait", "due"} /\ ~Shared(q)' => own'[q].vm.status # "run"
    BY <1>1, <1>4 DEF LayoutInv, Turns
  <2>4. \A l \in Loops : shared'[l].vm.status = "run" => \E q \in Requests : at'[q] = "run" /\ on'[q] = l /\ Shared(q)'
    BY <1>1, <1>4 DEF LayoutInv, Turns
  <2> QED
    BY <2>1, <2>2, <2>3, <2>4 DEF Turns
<1> QED
  BY <1>3, <1>5, <1>6, <1>7 DEF LayoutInv

\* A request that comes leaves the handlers of the others as they are.
LEMMA OthersKept ==
  ASSUME LayoutInv, NEW r \in Requests, at[r] = "new", NEW l \in Loops,
         NEW phase, at' = [at EXCEPT ![r] = phase], on' = [on EXCEPT ![r] = l],
         NEW u, under' = [under EXCEPT ![r] = u], story' = story
  PROVE  /\ at'[r] = phase /\ on'[r] = l /\ under'[r] = u
         /\ \A q \in Requests \ {r} : /\ at'[q] = at[q] /\ on'[q] = on[q] /\ under'[q] = under[q]
                                      /\ Active(q)' <=> Active(q)
                                      /\ Shared(q)' <=> Shared(q)
<1>1. at \in [Requests -> Phases] /\ DOMAIN on = Requests /\ DOMAIN under = Requests
  BY DEF LayoutInv, LoopInv, WakeInv, WakeTypes, Placements
<1>2. at'[r] = phase /\ on'[r] = l /\ under'[r] = u
  BY <1>1
<1>3. \A q \in Requests \ {r} : at'[q] = at[q] /\ on'[q] = on[q] /\ under'[q] = under[q]
  BY <1>1
<1> QED
  BY <1>2, <1>3 DEF Active, Shared

LEMMA LayoutRefused ==
  ASSUME LayoutInv, LoopInv', NEW r \in Requests, NEW l \in Loops, Refused(r, l)
  PROVE  LayoutInv'
<1>1. PICK u : {"version", "route"} \subseteq DOMAIN u /\ under' = [under EXCEPT ![r] = u]
  BY DEF Refused
<1>2. /\ at[r] = "new" /\ at' = [at EXCEPT ![r] = "done"] /\ on' = [on EXCEPT ![r] = l]
      /\ own' = own /\ shared' = shared
      /\ UNCHANGED <<story, saved, live, watcher>>
  BY DEF Refused, hotVars
<1>3. /\ at'[r] = "done" /\ under'[r] = u /\ ~Active(r)'
      /\ \A q \in Requests \ {r} : /\ at'[q] = at[q] /\ on'[q] = on[q] /\ under'[q] = under[q]
                                   /\ Active(q)' <=> Active(q)
                                   /\ Shared(q)' <=> Shared(q)
  <2>1. story' = story
    BY <1>2
  <2>2. /\ at'[r] = "done" /\ on'[r] = l /\ under'[r] = u
        /\ \A q \in Requests \ {r} : /\ at'[q] = at[q] /\ on'[q] = on[q] /\ under'[q] = under[q]
                                     /\ Active(q)' <=> Active(q)
                                     /\ Shared(q)' <=> Shared(q)
    BY <1>1, <1>2, <2>1, OthersKept
  <2>3. ~Active(r)'
    BY <2>2 DEF Active
  <2> QED
    BY <2>2, <2>3
<1>4. Published'
  BY <1>2 DEF LayoutInv, Published, Fine, ProjectOf
<1>5. Placements'
  BY <1>1, <1>2, <1>3 DEF LayoutInv, Placements
<1>6. Layouts'
  BY <1>2 DEF LayoutInv, Layouts
<1>7. Turns'
  <2>1. \A q \in Requests \ {r} : Machine(q)' = Machine(q)
    BY <1>2, <1>3 DEF Machine
  <2>2. \A q \in Requests : Active(q)' => Machine(q)'.version # 0
    BY <1>3, <2>1 DEF LayoutInv, Turns
  <2>3. \A q \in Requests : at'[q] = "run" => Machine(q)'.vm.status = "run"
    BY <1>3, <2>1 DEF LayoutInv, Turns
  <2>4. \A q \in Requests : at'[q] \in {"wait", "due"} /\ ~Shared(q)' => own'[q].vm.status # "run"
    BY <1>2, <1>3 DEF LayoutInv, Turns
  <2>5. \A k \in Loops : shared'[k].vm.status = "run" => \E q \in Requests : at'[q] = "run" /\ on'[q] = k /\ Shared(q)'
    <3> SUFFICES ASSUME NEW k \in Loops, shared[k].vm.status = "run"
                 PROVE  \E q \in Requests : at'[q] = "run" /\ on'[q] = k /\ Shared(q)'
      BY <1>2
    <3>1. PICK q \in Requests : at[q] = "run" /\ on[q] = k /\ Shared(q)
      BY DEF LayoutInv, Turns
    <3>2. q # r
      BY <1>2, <3>1
    <3> QED
      BY <1>3, <3>1, <3>2
  <2> QED
    BY <2>2, <2>3, <2>4, <2>5 DEF Turns
<1> QED
  BY <1>4, <1>5, <1>6, <1>7 DEF LayoutInv

LEMMA LayoutLaunched ==
  ASSUME LayoutInv, LoopInv', NEW r \in Requests, NEW l \in Loops, NEW u, NEW vm, Launched(r, l, u, vm)
  PROVE  LayoutInv'
<1> DEFINE start == Loaded(live, vm)
           borrows == Shares(story, live, u.route)
<1>1. /\ at[r] = "new" /\ Idling(l) /\ at' = [at EXCEPT ![r] = "run"] /\ on' = [on EXCEPT ![r] = l]
      /\ {"version", "route"} \subseteq DOMAIN u /\ u.version = live /\ Routed(story, live, u.route)
      /\ under' = [under EXCEPT ![r] = u]
      /\ Laid(CodeAt(story, live), PlacesAt(story, live), vm) /\ vm.status = "run"
      /\ IF borrows THEN shared' = [shared EXCEPT ![l] = start] /\ own' = own
         ELSE own' = [own EXCEPT ![r] = start] /\ shared' = shared
      /\ UNCHANGED <<story, saved, live, watcher>>
  BY DEF Launched, hotVars
<1>2. /\ at'[r] = "run" /\ on'[r] = l /\ under'[r] = u
      /\ \A q \in Requests \ {r} : /\ at'[q] = at[q] /\ on'[q] = on[q] /\ under'[q] = under[q]
                                   /\ Active(q)' <=> Active(q)
                                   /\ Shared(q)' <=> Shared(q)
  <2>1. story' = story
    BY <1>1
  <2> QED
    BY <1>1, <2>1, OthersKept
<1>3. Shared(r)' <=> borrows
  BY <1>1, <1>2 DEF Shared
<1>4. DOMAIN own = Requests /\ DOMAIN shared = Loops /\ DOMAIN under = Requests
  BY DEF LayoutInv, Placements
<1>5. /\ DOMAIN own' = Requests /\ DOMAIN shared' = Loops
      /\ \A q \in Requests : own'[q] = IF q = r /\ ~borrows THEN start ELSE own[q]
      /\ \A k \in Loops : shared'[k] = IF k = l /\ borrows THEN start ELSE shared[k]
  BY <1>1, <1>4
<1>6. story \in DOMAIN Stories /\ Fine(story, live) /\ live # 0
  BY FineFacts DEF LayoutInv, Published
<1>7. start.version = live /\ start.vm = vm
  BY DEF Loaded
<1>8. Sound(story, start)
  BY <1>1, <1>6, <1>7 DEF Sound
<1> HIDE DEF start, borrows
<1>9. Published'
  BY <1>1 DEF LayoutInv, Published, Fine, ProjectOf
<1>10. Placements'
  <2>1. DOMAIN under' = Requests
    BY <1>1, <1>4
  <2>2. \A q \in Requests : {"version", "route"} \subseteq DOMAIN under'[q]
    BY <1>1, <1>2 DEF LayoutInv, Placements
  <2>3. \A q \in Requests : Active(q)' => /\ Fine(story, under'[q].version)
                                          /\ Routed(story, under'[q].version, under'[q].route)
    <3>1. Fine(story, under'[r].version) /\ Routed(story, under'[r].version, under'[r].route)
      BY <1>1, <1>2, <1>6
    <3>2. \A q \in Requests \ {r} : Active(q)' => /\ Fine(story, under'[q].version)
                                                  /\ Routed(story, under'[q].version, under'[q].route)
      BY <1>2 DEF LayoutInv, Placements
    <3> QED
      BY <3>1, <3>2
  <2> QED
    BY <1>1, <1>5, <2>1, <2>2, <2>3 DEF Placements
<1>11. Layouts'
  <2>1. \A q \in Requests : Sound(story, own'[q])
    BY <1>5, <1>8 DEF LayoutInv, Layouts
  <2>2. \A k \in Loops : Sound(story, shared'[k])
    BY <1>5, <1>8 DEF LayoutInv, Layouts
  <2> QED
    BY <1>1, <2>1, <2>2 DEF Layouts
<1>12. Turns'
  <2>1. Machine(r)' = start
    BY <1>2, <1>3, <1>5 DEF Machine
  <2>2. \A q \in Requests \ {r} : Active(q) => on[q] \in Loops
    BY MachineFacts
  <2>3. \A q \in Requests \ {r} : Active(q) => Machine(q)' = Machine(q) \/ Machine(q)' = start
    BY <1>2, <1>5, <2>2 DEF Machine
  <2>4. \A q \in Requests : Active(q)' => Machine(q)'.version # 0
    BY <1>2, <1>6, <1>7, <2>1, <2>3 DEF LayoutInv, Turns
  <2>5. \A q \in Requests : at'[q] = "run" => Machine(q)'.vm.status = "run"
    BY <1>1, <1>2, <1>7, <2>1, <2>3 DEF LayoutInv, Turns, Active
  <2>6. \A q \in Requests : at'[q] \in {"wait", "due"} /\ ~Shared(q)' => own'[q].vm.status # "run"
    BY <1>2, <1>5 DEF LayoutInv, Turns
  <2>7. ASSUME NEW k \in Loops, shared'[k].vm.status = "run"
        PROVE  \E q \in Requests : at'[q] = "run" /\ on'[q] = k /\ Shared(q)'
    <3>1. CASE k = l /\ borrows
      BY <1>2, <1>3, <3>1
    <3>2. CASE ~(k = l /\ borrows)
      <4>1. shared[k].vm.status = "run"
        BY <1>5, <2>7, <3>2
      <4>2. PICK q \in Requests : at[q] = "run" /\ on[q] = k /\ Shared(q)
        BY <4>1 DEF LayoutInv, Turns
      <4>3. q # r
        BY <1>1, <4>2
      <4> QED
        BY <1>2, <4>2, <4>3
    <3> QED
      BY <3>1, <3>2
  <2> QED
    BY <2>4, <2>5, <2>6, <2>7 DEF Turns
<1> QED
  BY <1>9, <1>10, <1>11, <1>12 DEF LayoutInv

LEMMA LayoutMoves ==
  ASSUME LayoutInv, LoopInv', NEW r \in Requests, NEW vm, NEW phase, Moves(r, vm, phase)
  PROVE  LayoutInv'
<1> DEFINE new == Loaded(Machine(r).version, vm)
<1>1. /\ at[r] \in {"run", "due"} /\ phase \in Phases /\ at' = [at EXCEPT ![r] = phase]
      /\ Laid(CodeAt(story, Machine(r).version), PlacesAt(story, Machine(r).version), vm)
      /\ phase = "run" <=> vm.status = "run"
      /\ under' = under \/ under' = [under EXCEPT ![r].fixed = live]
      /\ on' = on /\ UNCHANGED <<story, saved, live, watcher>>
  BY DEF Moves, hotVars
<1>2. /\ Active(r) /\ on[r] \in Loops
      /\ Sound(story, Machine(r)) /\ Machine(r).version # 0
  BY <1>1, MachineFacts DEF Active
<1>3. DOMAIN own = Requests /\ DOMAIN shared = Loops /\ DOMAIN under = Requests
  BY DEF LayoutInv, Placements
<1>4. [Machine(r) EXCEPT !.vm = vm] = new
  <2>1. Machine(r) = Loaded(Machine(r).version, Machine(r).vm)
    BY <1>2 DEF Sound
  <2> QED
    BY <2>1 DEF Loaded
<1>5. /\ DOMAIN own' = Requests /\ DOMAIN shared' = Loops
      /\ \A q \in Requests : own'[q] = IF q = r /\ ~Shared(r) THEN new ELSE own[q]
      /\ \A k \in Loops : shared'[k] = IF k = on[r] /\ Shared(r) THEN new ELSE shared[k]
  <2>1. CASE Shared(r)
    <3>1. shared' = [shared EXCEPT ![on[r]].vm = vm] /\ own' = own
      BY <2>1 DEF Moves
    <3>2. shared' = [shared EXCEPT ![on[r]] = new]
      BY <1>4, <2>1, <3>1 DEF Machine
    <3> HIDE DEF new
    <3> QED
      BY <1>3, <2>1, <3>1, <3>2
  <2>2. CASE ~Shared(r)
    <3>1. own' = [own EXCEPT ![r].vm = vm] /\ shared' = shared
      BY <2>2 DEF Moves
    <3>2. own' = [own EXCEPT ![r] = new]
      BY <1>4, <2>2, <3>1 DEF Machine
    <3> HIDE DEF new
    <3> QED
      BY <1>3, <2>2, <3>1, <3>2
  <2> QED
    BY <2>1, <2>2
<1>6. new.version = Machine(r).version /\ new.vm = vm
  BY DEF Loaded
<1>7. Sound(story, new)
  BY <1>1, <1>2, <1>6 DEF Sound
<1> HIDE DEF new
<1>8. /\ at'[r] = phase
      /\ \A q \in Requests \ {r} : at'[q] = at[q]
  BY <1>1 DEF LayoutInv, LoopInv, WakeInv, WakeTypes
<1>9. /\ DOMAIN under' = Requests
      /\ \A q \in Requests : /\ {"version", "route"} \subseteq DOMAIN under'[q]
                             /\ under'[q].version = under[q].version /\ under'[q].route = under[q].route
  <2>1. {"version", "route"} \subseteq DOMAIN under[r]
    BY DEF LayoutInv, Placements
  <2>2. CASE under' = [under EXCEPT ![r].fixed = live]
    <3>1. \A q \in Requests \ {r} : under'[q] = under[q]
      BY <1>3, <2>2
    <3>2. under'[r] = [under[r] EXCEPT !.fixed = live]
      BY <1>3, <2>2
    <3>3. /\ {"version", "route"} \subseteq DOMAIN under'[r]
          /\ under'[r].version = under[r].version /\ under'[r].route = under[r].route
      BY <2>1, <3>2
    <3> QED
      BY <1>3, <2>2, <3>1, <3>3 DEF LayoutInv, Placements
  <2>3. CASE under' = under
    BY <1>3, <2>3 DEF LayoutInv, Placements
  <2> QED
    BY <1>1, <2>2, <2>3
<1>10. \A q \in Requests : (Shared(q)' <=> Shared(q)) /\ (Active(q)' => Active(q))
  BY <1>1, <1>2, <1>8, <1>9 DEF Shared, Active
<1>11. Published'
  BY <1>1 DEF LayoutInv, Published, Fine, ProjectOf
<1>12. Placements'
  BY <1>1, <1>5, <1>9, <1>10 DEF LayoutInv, Placements
<1>13. Layouts'
  <2>1. \A q \in Requests : Sound(story, own'[q])
    BY <1>5, <1>7 DEF LayoutInv, Layouts
  <2>2. \A k \in Loops : Sound(story, shared'[k])
    BY <1>5, <1>7 DEF LayoutInv, Layouts
  <2> QED
    BY <1>1, <2>1, <2>2 DEF Layouts
<1>14. Turns'
  <2>1. Machine(r)' = new
    BY <1>1, <1>2, <1>5, <1>10 DEF Machine
  <2>2. \A q \in Requests \ {r} : Active(q) => on[q] \in Loops
    BY MachineFacts
  <2>3. \A q \in Requests \ {r} : Active(q) => Machine(q)' = Machine(q) \/ Machine(q)' = new
    BY <1>1, <1>5, <1>10, <2>2 DEF Machine
  <2>4. \A q \in Requests : Active(q)' => Machine(q)'.version # 0
    BY <1>2, <1>6, <1>10, <2>1, <2>3 DEF LayoutInv, Turns
  <2>5. \A q \in Requests \ {r} : at[q] = "run" => on[q] # on[r]
    BY <1>1 DEF LayoutInv, LoopInv, OneBusy, Busy
  <2>6. \A q \in Requests \ {r} : at[q] = "run" => Machine(q)' = Machine(q)
    BY <1>1, <1>5, <1>10, <2>2, <2>5 DEF Machine, Active
  <2>7. \A q \in Requests : at'[q] = "run" => Machine(q)'.vm.status = "run"
    BY <1>1, <1>6, <1>8, <2>1, <2>6 DEF LayoutInv, Turns
  <2>8. \A q \in Requests : at'[q] \in {"wait", "due"} /\ ~Shared(q)' => own'[q].vm.status # "run"
    BY <1>1, <1>5, <1>6, <1>8, <1>10 DEF LayoutInv, Turns
  <2>9. ASSUME NEW k \in Loops, shared'[k].vm.status = "run"
        PROVE  \E q \in Requests : at'[q] = "run" /\ on'[q] = k /\ Shared(q)'
    <3>1. CASE k = on[r] /\ Shared(r)
      BY <1>1, <1>5, <1>6, <1>8, <1>10, <2>9, <3>1
    <3>2. CASE ~(k = on[r] /\ Shared(r))
      <4>1. shared[k].vm.status = "run"
        BY <1>5, <2>9, <3>2
      <4>2. PICK q \in Requests : at[q] = "run" /\ on[q] = k /\ Shared(q)
        BY <4>1 DEF LayoutInv, Turns
      <4>3. q # r
        BY <3>2, <4>2
      <4> QED
        BY <1>1, <1>8, <1>10, <4>2, <4>3
    <3> QED
      BY <3>1, <3>2
  <2> QED
    BY <2>4, <2>7, <2>8, <2>9 DEF Turns
<1> QED
  BY <1>11, <1>12, <1>13, <1>14 DEF LayoutInv

LEMMA LayoutNext == LayoutInv /\ [Next]_vars => LayoutInv'
<1> SUFFICES ASSUME LayoutInv, [Next]_vars PROVE LayoutInv'
  OBVIOUS
<1>1. LoopInv'
  BY LoopNext DEF LayoutInv
<1>2. ASSUME NEW r \in Requests, NEW l \in Loops, NEW in \in Arrivals[story][r], Dispatch(r, l, in)
      PROVE  LayoutInv'
  BY <1>1, <1>2, DispatchLaunches, LayoutRefused, LayoutLaunched
<1>3. ASSUME NEW r \in Requests, Execute(r)
      PROVE  LayoutInv'
  BY <1>1, <1>3, ExecuteMoves, LayoutMoves
<1>4. ASSUME NEW r \in Requests, Resume(r)
      PROVE  LayoutInv'
  BY <1>1, <1>4, ResumeMoves, LayoutMoves, LayoutDrifts
<1>5. ASSUME NEW r \in Requests, Wake(r) \/ Disconnect(r)
      PROVE  LayoutInv'
  BY <1>1, <1>5, WakeDrifts, LayoutDrifts
<1>6. CASE Reload
  BY <1>1, <1>6, LayoutReloads
<1>7. CASE UNCHANGED vars
  <2>1. Drifts
    BY <1>7 DEF vars, hotVars, Drifts
  <2> QED
    BY <1>1, <2>1, LayoutDrifts
<1> QED
  BY <1>2, <1>3, <1>4, <1>5, <1>6, <1>7 DEF Next

\* Every machine, its own or lent by a thread, stands where the code of its
\* version says (vm.hpp:62-71).
THEOREM LayoutInvariant == Spec => []LayoutInv
BY LayoutInit, LayoutNext, PTL DEF Spec

\* The machine that runs is always where its code says, with the operands
\* and the variables that the code counts on there (vm.cpp checks neither),
\* for any code that the verifier accepts: with any number of requests,
\* threads and versions, and whatever the natives compute.
THEOREM LayoutIsStaticHolds == Spec => []LayoutIsStatic
<1>1. ASSUME LayoutInv PROVE LayoutIsStatic
  <2> SUFFICES ASSUME NEW r \in Requests, at[r] = "run"
               PROVE  Placed(CodeOf(r), Depths[Stories[story][MachineOf(r).version]], MachineOf(r).vm)
    BY DEF LayoutIsStatic
  <2>1. Active(r)
    BY DEF Active
  <2>2. /\ MachineOf(r) = Machine(r)
        /\ CodeOf(r) = CodeAt(story, Machine(r).version)
        /\ Sound(story, Machine(r)) /\ Machine(r).version # 0
    BY <1>1, <2>1, MachineFacts
  <2>3. Machine(r).vm.status = "run"
    BY <1>1 DEF LayoutInv, Turns
  <2>4. Laid(CodeAt(story, Machine(r).version), PlacesAt(story, Machine(r).version), Machine(r).vm)
    BY <2>2 DEF Sound
  <2>5. Placed(CodeAt(story, Machine(r).version), PlacesAt(story, Machine(r).version), Machine(r).vm)
    BY <2>3, <2>4, LaidIsPlaced
  <2> QED
    BY <2>2, <2>5 DEF PlacesAt
<1> QED
  BY <1>1, LayoutInvariant, PTL

\* pop() takes the last operand of the vector and a variable is read at its
\* slot, neither of them checked (vm.hpp:77, vm.cpp:170-176): whatever
\* runs finds its instruction, the operands of its own frame that it takes,
\* and the variable that it names.
OperandsFound ==
  \A r \in Requests : at[r] = "run" =>
    LET m == MachineOf(r).vm
        f == Last(m.frames)
        i == CodeOf(r)[f.chunk].code[f.pc]
    IN /\ f.pc \in 1..Len(CodeOf(r)[f.chunk].code)
       /\ f.sbase + Takes(i) <= Len(m.stack)
       /\ i.op \in {"LoadLocal", "StoreLocal"} => f.lbase + i.arg \in DOMAIN m.locals

LEMMA PlacedFinds ==
  ASSUME NEW chunks, NEW places, Verified(chunks, places), NEW m, Laid(chunks, places, m), m.status = "run"
  PROVE  LET f == Last(m.frames)
             i == chunks[f.chunk].code[f.pc]
         IN /\ f.pc \in 1..Len(chunks[f.chunk].code)
            /\ f.sbase + Takes(i) <= Len(m.stack)
            /\ i.op \in {"LoadLocal", "StoreLocal"} => f.lbase + i.arg \in DOMAIN m.locals
<1> DEFINE f == Last(m.frames)
           i == chunks[f.chunk].code[f.pc]
           depth == Len(m.stack) - f.sbase
           place == <<f.chunk, f.pc, depth>>
<1>1. /\ place \in places /\ Framed(chunks, places, m.frames, m.stack, m.locals)
      /\ Len(m.locals) = f.lbase + chunks[f.chunk].num
  BY DEF Laid, Framed
<1>2. place[1] = f.chunk /\ place[2] = f.pc /\ place[3] = depth
  OBVIOUS
<1>3. f.chunk \in DOMAIN chunks /\ f.pc \in 1..Len(chunks[f.chunk].code) /\ depth \in Nat
      /\ Finds(chunks, f.chunk, f.pc, depth)
  <2> HIDE DEF place, depth, f
  <2> QED
    BY <1>1, <1>2 DEF Verified
<1>4. Takes(i) \in 0..depth /\ (i.op \in {"LoadLocal", "StoreLocal"} => i.arg \in 1..chunks[f.chunk].num)
  BY <1>3 DEF Finds
<1>5. f \in Frame(chunks) /\ Len(m.stack) \in Nat /\ Len(m.locals) \in Nat /\ DOMAIN m.locals = 1..Len(m.locals)
  <2>1. m.frames \in Seq(Frame(chunks)) /\ m.frames # <<>> /\ IsSeq(m.stack) /\ IsSeq(m.locals)
    BY <1>1 DEF Framed
  <2>2. m.stack \in Seq(Range(m.stack)) /\ m.locals \in Seq(Range(m.locals))
    BY <2>1 DEF IsSeq
  <2>3. f \in Frame(chunks)
    BY <1>1, FramedFacts
  <2> QED
    BY <2>2, <2>3, LenProperties
<1>6. f.sbase \in Nat /\ f.lbase \in Nat /\ chunks[f.chunk].num \in Nat
  BY <1>3, <1>5 DEF Frame, Verified
<1> HIDE DEF i, f
<1>7. f.sbase + Takes(i) <= Len(m.stack)
  BY <1>4, <1>5, <1>6
<1>8. i.op \in {"LoadLocal", "StoreLocal"} => f.lbase + i.arg \in DOMAIN m.locals
  BY <1>1, <1>4, <1>5, <1>6
<1> QED
  BY <1>3, <1>7, <1>8 DEF i, f

\* run_until_error() never pops, reads or jumps outside what is there, for
\* all that runs and whatever the natives compute.
THEOREM OperandsAreFound == Spec => []OperandsFound
<1>1. ASSUME LayoutInv PROVE OperandsFound
  <2> SUFFICES ASSUME NEW r \in Requests, at[r] = "run"
               PROVE  LET m == MachineOf(r).vm
                          f == Last(m.frames)
                          i == CodeOf(r)[f.chunk].code[f.pc]
                      IN /\ f.pc \in 1..Len(CodeOf(r)[f.chunk].code)
                         /\ f.sbase + Takes(i) <= Len(m.stack)
                         /\ i.op \in {"LoadLocal", "StoreLocal"} => f.lbase + i.arg \in DOMAIN m.locals
    BY DEF OperandsFound
  <2>1. Active(r)
    BY DEF Active
  <2> DEFINE v == Machine(r).version
             vm == Machine(r).vm
             chunks == CodeAt(story, v)
             places == PlacesAt(story, v)
  <2>2. MachineOf(r) = Machine(r) /\ CodeOf(r) = chunks /\ Sound(story, Machine(r)) /\ v # 0
    BY <1>1, <2>1, MachineFacts
  <2>3. vm.status = "run" /\ Laid(chunks, places, vm) /\ Fine(story, v) /\ story \in DOMAIN Stories
    BY <1>1, <2>2 DEF LayoutInv, Turns, Sound, Published
  <2>4. Verified(chunks, places)
    BY <2>3, FineFacts
  <2> HIDE DEF v, chunks, places
  <2> QED
    BY <2>2, <2>3, <2>4, PlacedFinds
<1> QED
  BY <1>1, LayoutInvariant, PTL

-----------------------------------------------------------------------------
(***************************************************************************)
(* Threads.  shared_vm, current_token and last_validation_messages() are   *)
(* thread-locals, and several handlers live on a thread.                   *)
(***************************************************************************)
Thread(l) == <<shared[l], token[l], messages[l]>>
ThreadKept == \A r \in Requests : at[r] = "run" => Execute(r) \/ Thread(on[r])' = Thread(on[r])

ThreadInv == LayoutInv /\ DOMAIN messages = Loops

LEMMA ReportsNext == DOMAIN messages = Loops /\ [Next]_vars => DOMAIN messages' = Loops
<1> SUFFICES ASSUME DOMAIN messages = Loops, [Next]_vars PROVE DOMAIN messages' = Loops
  OBVIOUS
<1>1. ASSUME NEW r \in Requests, NEW l \in Loops, NEW in, Dispatch(r, l, in)
      PROVE  DOMAIN messages' = Loops
  BY <1>1 DEF Dispatch, DispatchTo, Enter, Report
<1>2. ASSUME NEW r \in Requests, Execute(r) \/ Wake(r) \/ Resume(r) \/ Disconnect(r)
      PROVE  DOMAIN messages' = Loops
  BY <1>2 DEF Execute, Wake, Resume, Disconnect
<1>3. CASE Reload \/ UNCHANGED vars
  BY <1>3 DEF Reload, vars
<1> QED
  BY <1>1, <1>2, <1>3 DEF Next

\* The layout, and every thread has its list of validation messages: what the
\* next theorem rests on.
THEOREM ThreadInvariant == Spec => []ThreadInv
<1>1. Init => ThreadInv
  BY LayoutInit DEF ThreadInv, Init
<1>2. ThreadInv /\ [Next]_vars => ThreadInv'
  BY LayoutNext, ReportsNext DEF ThreadInv
<1> QED
  BY <1>1, <1>2, PTL DEF Spec

LEMMA KeepsThreads == ThreadInv /\ [Next]_vars => ThreadKept
<1> SUFFICES ASSUME ThreadInv, [Next]_vars, NEW r \in Requests, at[r] = "run", ~Execute(r)
             PROVE  Thread(on[r])' = Thread(on[r])
  BY DEF ThreadKept
<1>1. on[r] \in Loops
  BY MachineFacts DEF ThreadInv, Active
<1>2. DOMAIN shared = Loops /\ DOMAIN token = Loops /\ DOMAIN messages = Loops
  BY DEF ThreadInv, LayoutInv, Placements, LoopInv, WakeInv, WakeTypes
<1> SUFFICES on'[r] = on[r] /\ shared'[on[r]] = shared[on[r]] /\ token'[on[r]] = token[on[r]]
             /\ messages'[on[r]] = messages[on[r]]
  BY DEF Thread
<1>3. ASSUME NEW q \in Requests, NEW l \in Loops, NEW in \in Arrivals[story][q], Dispatch(q, l, in)
      PROVE  on'[r] = on[r] /\ shared'[on[r]] = shared[on[r]] /\ token'[on[r]] = token[on[r]]
             /\ messages'[on[r]] = messages[on[r]]
  <2>1. q # r /\ on[r] # l /\ on' = [on EXCEPT ![q] = l] /\ token' = [token EXCEPT ![l] = q]
    BY <1>3 DEF Dispatch, DispatchTo, Idling
  <2>2. messages' = messages \/ \E x : messages' = [messages EXCEPT ![l] = x]
    BY <1>3 DEF Dispatch, DispatchTo, Enter, Report
  <2>3. shared' = shared \/ \E x : shared' = [shared EXCEPT ![l] = x]
    BY <1>3, DispatchLaunches DEF ThreadInv, Refused, Launched
  <2>4. r \in DOMAIN on
    BY DEF ThreadInv, LayoutInv, LoopInv, WakeInv, WakeTypes
  <2> QED
    BY <1>1, <1>2, <2>1, <2>2, <2>3, <2>4
<1>4. ASSUME NEW q \in Requests \ {r}, Execute(q) \/ Resume(q)
      PROVE  on'[r] = on[r] /\ shared'[on[r]] = shared[on[r]] /\ token'[on[r]] = token[on[r]]
             /\ messages'[on[r]] = messages[on[r]]
  <2>1. on[q] # on[r]
    BY <1>4 DEF ThreadInv, LayoutInv, LoopInv, OneBusy, Busy, Execute, Resume
  <2>2. on' = on /\ messages' = messages /\ token' = token
    <3>1. CASE Resume(q)
      BY <3>1 DEF Resume, tokens
    <3>2. CASE Execute(q)
      <4>1. \E m : Executed(q, m)
        BY <3>2 DEF Execute
      <4>2. PICK m : Executed(q, m)
        BY <4>1
      <4>3. token' = token
        BY <4>2 DEF Executed, Suspend, tokens
      <4> QED
        BY <3>2, <4>3 DEF Execute
    <3> QED
      BY <1>4, <3>1, <3>2
  <2>3. Drifts \/ \E vm, phase : Moves(q, vm, phase)
    BY <1>4, ExecuteMoves, ResumeMoves DEF ThreadInv
  <2>4. shared' = shared \/ \E vm : shared' = [shared EXCEPT ![on[q]].vm = vm]
    BY <2>3 DEF Drifts, Moves
  <2> QED
    BY <1>1, <1>2, <2>1, <2>2, <2>4
<1>5. ASSUME NEW q \in Requests, Wake(q) \/ Disconnect(q)
      PROVE  UNCHANGED <<on, shared, token, messages>>
  BY <1>5 DEF Wake, Disconnect
<1>6. CASE Reload \/ UNCHANGED vars
  BY <1>6 DEF Reload, vars, tokens
<1>7. ~Resume(r)
  BY DEF Resume
<1> QED
  BY <1>3, <1>4, <1>5, <1>6, <1>7 DEF Next

\* While a handler runs, no other one changes what belongs to its thread:
\* the machine it may have borrowed, the token it would sleep under and the
\* messages that `on error` would be told ("no pueden cruzarse peticiones",
\* natives.hpp:157-159).  While it waits, they are those of others.
THEOREM ThreadsAreKept == Spec => [][ThreadKept]_vars
<1>1. ThreadInv /\ [Next]_vars => [ThreadKept]_vars
  BY KeepsThreads
<1> QED
  BY <1>1, ThreadInvariant, PTL DEF Spec

-----------------------------------------------------------------------------
(***************************************************************************)
(* What `on error` is told.  The messages belong to the thread and not to  *)
(* the request: those that a handler finds when it ends are those of its   *)
(* own preparation as long as it has not waited.                           *)
(***************************************************************************)
Prepared(r, w) ==
  LET mod == ModuleOf(under[r].version)
  IN Prepare(mod, Authenticate(mod, w, input[r]), Route(r).binds, input[r] @@ [path |-> under[r].path])

Waited(r) == waits[r].token # Nobody
Heard(r)  == \E w : messages[on[r]] = Prepared(r, w).messages
Told(r)   == \E w, v : ctx[r] = Correct(ModuleOf(under[r].fixed), v, Prepared(r, w).messages).ctx

Reported(r) ==
  /\ at[r] \in {"wait", "due"} => Waited(r)
  /\ at[r] = "run" => Waited(r) \/ Heard(r)
  /\ at[r] = "done" => Waited(r) \/ Route(r).chunk = 0 \/ Told(r)
Papers == {"version", "route", "path", "fixed"}
Filed == /\ DOMAIN input = Requests /\ DOMAIN ctx = Requests
         /\ \A r \in Requests : Papers \subseteq DOMAIN under[r]
ReportInv == ThreadInv /\ Filed /\ \A r \in Requests : Reported(r)

\* Two requests with the same papers have been told the same.
LEMMA SamePapers ==
  ASSUME NEW r, story' = story, input'[r] = input[r],
         \A f \in {"version", "route", "path"} : under'[r][f] = under[r][f]
  PROVE  Route(r)' = Route(r) /\ \A w : Prepared(r, w)' = Prepared(r, w)
<1>1. ModuleOf(under[r].version)' = ModuleOf(under[r].version)
  BY DEF ModuleOf
<1>2. Route(r)' = Route(r)
  BY <1>1 DEF Route, RouteOf, NotFound
<1> QED
  BY <1>1, <1>2 DEF Prepared

\* A step of somebody else.
LEMMA ReportedStays ==
  ASSUME NEW r, Reported(r), story' = story, under'[r] = under[r], input'[r] = input[r],
         waits'[r] = waits[r], on'[r] = on[r],
         \/ at'[r] = at[r] /\ ctx'[r] = ctx[r] /\ (at[r] = "run" => messages'[on[r]] = messages[on[r]])
         \/ at[r] = "wait" /\ at'[r] = "due"
  PROVE  Reported(r)'
<1>1. Route(r)' = Route(r) /\ \A w : Prepared(r, w)' = Prepared(r, w)
  BY SamePapers
<1>2. Waited(r)' <=> Waited(r)
  BY DEF Waited
<1>3. at[r] = "run" /\ messages'[on[r]] = messages[on[r]] /\ Heard(r) => Heard(r)'
  BY <1>1 DEF Heard
<1>4. ctx'[r] = ctx[r] /\ Told(r) => Told(r)'
  <2>1. ModuleOf(under[r].fixed)' = ModuleOf(under[r].fixed)
    BY DEF ModuleOf
  <2> QED
    BY <1>1, <2>1 DEF Told
<1> QED
  BY <1>1, <1>2, <1>3, <1>4 DEF Reported

\* The dispatcher files the papers and the report of the request it takes.
LEMMA ReportedEnters ==
  ASSUME ReportInv, NEW r \in Requests, NEW l \in Loops, NEW in, Dispatch(r, l, in)
  PROVE  Reported(r)'
<1>1. PICK w : w = World(r)
  OBVIOUS
<1> DEFINE found == Lookup(ModuleOf(live).router, in.method, in.url)
           mod == ModuleOf(live)
           route == RouteOf(mod, in, found)
           bound == Prepare(mod, Authenticate(mod, w, in), route.binds, in @@ [path |-> found.path])
           u == [version |-> live, route |-> found.route, path |-> found.path, fixed |-> live]
<1>2. /\ input' = [input EXCEPT ![r] = in] /\ on' = [on EXCEPT ![r] = l]
      /\ under' = [under EXCEPT ![r] = u]
      /\ Enter(r, l, mod, route, bound)
      /\ UNCHANGED hotVars
  BY <1>1 DEF Dispatch, DispatchTo
<1>3. /\ r \in DOMAIN input /\ r \in DOMAIN ctx /\ r \in DOMAIN on /\ r \in DOMAIN under
      /\ r \in DOMAIN at /\ l \in DOMAIN messages
  BY DEF ReportInv, Filed, ThreadInv, LayoutInv, Placements, LoopInv, WakeInv, WakeTypes
<1>4. input'[r] = in /\ on'[r] = l /\ under'[r] = u
  BY <1>2, <1>3
<1>5. u.version = live /\ u.route = found.route /\ u.path = found.path /\ u.fixed = live
  OBVIOUS
<1>6. story' = story
  BY <1>2 DEF hotVars
<1> HIDE DEF u, found
<1>7. ModuleOf(under[r].version)' = mod /\ ModuleOf(under[r].fixed)' = mod
  BY <1>4, <1>5, <1>6 DEF ModuleOf
<1>8. Route(r)' = route
  BY <1>4, <1>5, <1>7 DEF Route, RouteOf, NotFound
<1> HIDE DEF mod, route
<1>9. Prepared(r, w)' = bound
  BY <1>4, <1>5, <1>7, <1>8 DEF Prepared
<1> HIDE DEF bound
<1>10. CASE route.chunk = 0 /\ \E v, told : AtOnce(r, v, told)
  <2>1. at'[r] = "done"
    BY <1>3, <1>10, Settling DEF AtOnce
  <2> QED
    BY <1>8, <1>10, <2>1 DEF Reported
<1>11. CASE AtOnce(r, bound.w, bound.messages)
  <2>1. at'[r] = "done" /\ ctx'[r] = Correct(mod, bound.w, bound.messages).ctx
    BY <1>3, <1>11 DEF AtOnce, Settle, Closed, mod
  <2>2. Told(r)'
    BY <1>7, <1>9, <2>1 DEF Told
  <2> QED
    BY <2>1, <2>2 DEF Reported
<1>12. CASE Report(l, bound) /\ Launch(r, l, mod, route, bound)
  <2>1. at'[r] = "run" /\ messages'[l] = bound.messages
    BY <1>3, <1>12 DEF Report, Launch
  <2>2. Heard(r)'
    BY <1>4, <1>9, <2>1 DEF Heard
  <2> QED
    BY <2>1, <2>2 DEF Reported
<1> QED
  BY <1>2, <1>10, <1>11, <1>12 DEF Enter

\* Once a handler has waited, nothing is claimed of it.
LEMMA WaitedIsReported ==
  ASSUME NEW r, Waited(r)'
  PROVE  Reported(r)'
BY DEF Reported

\* An instruction: the last one tells what the thread has.
LEMMA ReportedExecutes ==
  ASSUME ReportInv, NEW r \in Requests, Execute(r)
  PROVE  Reported(r)'
<1>1. PICK m : Executed(r, m) /\ at[r] = "run" /\ UNCHANGED <<hotVars, on, input, messages>>
  BY DEF Execute
<1>2. /\ r \in DOMAIN at /\ r \in DOMAIN waits /\ r \in DOMAIN ctx /\ r \in DOMAIN under
      /\ Papers \subseteq DOMAIN under[r]
  BY DEF ReportInv, Filed, ThreadInv, LayoutInv, Placements, LoopInv, WakeInv, WakeTypes
<1>3. story' = story /\ live' = live
  BY <1>1 DEF hotVars
<1>4. CASE m.status = "await"
  <2>1. \E x, t : t \in {r, token[on[r]]} /\ waits' = [waits EXCEPT ![r] = [for |-> x, token |-> t]]
    BY <1>1, <1>4 DEF Executed, Suspend
  <2>2. r # Nobody /\ token[on[r]] # Nobody
    BY <1>1, NamesAssumption DEF ReportInv, ThreadInv, LayoutInv, LoopInv, WakeInv, Tokened
  <2>3. Waited(r)'
    BY <1>2, <2>1, <2>2 DEF Waited
  <2> QED
    BY <2>3, WaitedIsReported
<1>5. CASE m.status \in {"done", "error"}
  <2>1. Finish(r, m) /\ waits' = waits
    BY <1>1, <1>5 DEF Executed, tokens
  <2>2. CASE Waited(r)
    BY <2>1, <2>2, WaitedIsReported DEF Waited
  <2>3. CASE ~Waited(r)
    <3>1. PICK w : messages[on[r]] = Prepared(r, w).messages
      BY <1>1, <2>3 DEF ReportInv, Reported, Heard
    <3>2. PICK v : ctx' = [ctx EXCEPT ![r] = Correct(ModuleOf(live), v, messages[on[r]]).ctx]
      BY <2>1 DEF Finish, Settle, Closed
    <3>3. at'[r] = "done"
      BY <1>2, <2>1, Settling DEF Finish
    <3>4. under' = [under EXCEPT ![r].fixed = live]
      BY <2>1 DEF Finish
    <3>5. /\ \A f \in {"version", "route", "path"} : under'[r][f] = under[r][f]
          /\ under'[r].fixed = live
      BY <1>2, <3>4 DEF Papers
    <3>6. Prepared(r, w)' = Prepared(r, w)
      BY <1>1, <1>3, <3>5, SamePapers
    <3>7. ModuleOf(under[r].fixed)' = ModuleOf(live)
      BY <1>3, <3>5 DEF ModuleOf
    <3>8. Told(r)'
      BY <1>2, <3>1, <3>2, <3>6, <3>7 DEF Told
    <3> QED
      BY <3>3, <3>8 DEF Reported
  <2> QED
    BY <2>2, <2>3
<1>6. CASE m.status \notin {"await", "done", "error"}
  <2>1. at' = at /\ under' = under /\ waits' = waits
    BY <1>1, <1>6 DEF Executed, tokens
  <2>2. \A w : Prepared(r, w)' = Prepared(r, w)
    BY <1>1, <1>3, <2>1, SamePapers
  <2>3. Waited(r) => Waited(r)'
    BY <2>1 DEF Waited
  <2>4. Heard(r) => Heard(r)'
    BY <1>1, <2>2 DEF Heard
  <2> QED
    BY <1>1, <2>1, <2>3, <2>4 DEF ReportInv, Reported
<1> QED
  BY <1>4, <1>5, <1>6

\* Who resumes has waited.
LEMMA ReportedResumes ==
  ASSUME ReportInv, NEW r \in Requests, Resume(r)
  PROVE  Reported(r)'
<1>1. at[r] = "due" /\ waits' = waits
  BY DEF Resume, tokens
<1>2. Waited(r)'
  BY <1>1 DEF ReportInv, Reported, Waited
<1> QED
  BY <1>2, WaitedIsReported

\* A handler writes its own context only.
LEMMA WritesItsContext ==
  ASSUME NEW r \in Requests, \/ \E l \in Loops : \E in : Dispatch(r, l, in)
                             \/ Execute(r)
                             \/ Resume(r)
  PROVE  ctx' = ctx \/ \E x : ctx' = [ctx EXCEPT ![r] = x]
<1>1. ASSUME NEW w, NEW told, Settle(r, w, told)
      PROVE  \E x : ctx' = [ctx EXCEPT ![r] = x]
  BY <1>1 DEF Settle, Closed
<1>2. ASSUME NEW m, Finish(r, m)
      PROVE  \E x : ctx' = [ctx EXCEPT ![r] = x]
  BY <1>1, <1>2 DEF Finish
<1>3. ASSUME NEW l \in Loops, NEW in, Dispatch(r, l, in)
      PROVE  \E x : ctx' = [ctx EXCEPT ![r] = x]
  <2>1. \E mod, route, bound : Enter(r, l, mod, route, bound)
    BY <1>3 DEF Dispatch, DispatchTo
  <2>2. PICK mod, route, bound : Enter(r, l, mod, route, bound)
    BY <2>1
  <2>3. Launch(r, l, mod, route, bound) \/ \E w, told : Settle(r, w, told)
    BY <2>2 DEF Enter, AtOnce
  <2> QED
    BY <1>1, <2>3 DEF Launch
<1>4. ASSUME Execute(r)
      PROVE  \E x : ctx' = [ctx EXCEPT ![r] = x]
  <2>1. PICK m : Executed(r, m)
    BY <1>4 DEF Execute
  <2> QED
    BY <1>2, <2>1 DEF Executed, Suspend
<1>5. ASSUME Resume(r)
      PROVE  ctx' = ctx \/ \E x : ctx' = [ctx EXCEPT ![r] = x]
  <2>1. ctx' = ctx \/ \E m : Finish(r, m)
    BY <1>5 DEF Resume
  <2> QED
    BY <1>2, <2>1
<1> QED
  BY <1>3, <1>4, <1>5

\* Nor does it touch the papers of another.
LEMMA PapersKept ==
  ASSUME ReportInv, NEW r \in Requests, \/ \E l \in Loops, in \in Arrivals[story][r] : Dispatch(r, l, in)
                                        \/ Execute(r)
                                        \/ Resume(r)
  PROVE  /\ Filed'
         /\ \A q \in Requests \ {r} : /\ at'[q] = at[q] /\ on'[q] = on[q] /\ waits'[q] = waits[q]
                                      /\ input'[q] = input[q] /\ under'[q] = under[q] /\ ctx'[q] = ctx[q]
<1>1. ctx' = ctx \/ \E x : ctx' = [ctx EXCEPT ![r] = x]
  BY WritesItsContext
<1>2. input' = input \/ \E x : input' = [input EXCEPT ![r] = x]
  BY DEF Dispatch, DispatchTo, Execute, Resume
<1>3. under' = under \/ \E x : Papers \subseteq DOMAIN x /\ under' = [under EXCEPT ![r] = x]
  <2>1. Papers \subseteq DOMAIN under[r]
    BY DEF ReportInv, Filed
  <2>2. ASSUME NEW m, Finish(r, m)
        PROVE  \E x : Papers \subseteq DOMAIN x /\ under' = [under EXCEPT ![r] = x]
    <3>1. under' = [under EXCEPT ![r] = [under[r] EXCEPT !.fixed = live]]
      BY <2>2 DEF Finish
    <3>2. Papers \subseteq DOMAIN [under[r] EXCEPT !.fixed = live]
      BY <2>1
    <3> QED
      BY <3>1, <3>2
  <2>3. ASSUME NEW l, NEW in, Dispatch(r, l, in)
        PROVE  \E x : Papers \subseteq DOMAIN x /\ under' = [under EXCEPT ![r] = x]
    <3> DEFINE found == Lookup(ModuleOf(live).router, in.method, in.url)
               u == [version |-> live, route |-> found.route, path |-> found.path, fixed |-> live]
    <3>1. under' = [under EXCEPT ![r] = u]
      BY <2>3 DEF Dispatch, DispatchTo
    <3>2. Papers \subseteq DOMAIN u
      BY DEF Papers
    <3> HIDE DEF u
    <3> QED
      BY <3>1, <3>2
  <2>4. ASSUME Execute(r)
        PROVE  under' = under \/ \E m : Finish(r, m)
    <3>1. PICK m : Executed(r, m)
      BY <2>4 DEF Execute
    <3> QED
      BY <3>1 DEF Executed
  <2>5. Resume(r) => under' = under \/ \E m : Finish(r, m)
    BY DEF Resume
  <2> QED
    BY <2>2, <2>3, <2>4, <2>5
<1>4. \/ \E l \in Loops : Begins(r, l)
      \/ Proceeds(r)
      \/ \E t : Awaits(r, t)
      \/ UNCHANGED wakeVars
  <2>1. CASE Execute(r)
    <3>1. PICK m : Executed(r, m) /\ at[r] = "run" /\ UNCHANGED <<on, open>>
      BY <2>1 DEF Execute
    <3> QED
      BY <3>1, ExecutedSteps
  <2> QED
    BY <2>1, DispatchBegins, ResumeProceeds
<1>5. \A q \in Requests \ {r} : at'[q] = at[q] /\ on'[q] = on[q] /\ waits'[q] = waits[q]
  BY <1>4 DEF Begins, Proceeds, Awaits, wakeVars, ReportInv, ThreadInv, LayoutInv, LoopInv, WakeInv, WakeTypes
<1>6. DOMAIN under = Requests /\ DOMAIN input = Requests /\ DOMAIN ctx = Requests
      /\ \A q \in Requests : Papers \subseteq DOMAIN under[q]
  BY DEF ReportInv, Filed, ThreadInv, LayoutInv, Placements
<1>7. /\ DOMAIN input' = Requests /\ DOMAIN ctx' = Requests
      /\ \A q \in Requests \ {r} : input'[q] = input[q] /\ under'[q] = under[q] /\ ctx'[q] = ctx[q]
  BY <1>1, <1>2, <1>3, <1>6
<1>8. \A q \in Requests : Papers \subseteq DOMAIN under'[q]
  BY <1>3, <1>6
<1> QED
  BY <1>5, <1>7, <1>8 DEF Filed

\* The watcher tells no other story.
LEMMA StoryStays == LayoutInv /\ [Next]_vars => story' = story
<1>1. LayoutInv /\ Reload => story' = story
  BY PublishedNext DEF Reload, LayoutInv
<1>2. ASSUME NEW r \in Requests, \/ \E l \in Loops : \E in : Dispatch(r, l, in)
                                \/ Execute(r) \/ Wake(r) \/ Resume(r) \/ Disconnect(r)
      PROVE  story' = story
  BY <1>2 DEF Dispatch, DispatchTo, Execute, Wake, Resume, Disconnect, hotVars
<1>3. UNCHANGED vars => story' = story
  BY DEF vars, hotVars
<1> QED
  BY <1>1, <1>2, <1>3 DEF Next

LEMMA ReportNext == ReportInv /\ [Next]_vars => ReportInv'
<1> SUFFICES ASSUME ReportInv, [Next]_vars PROVE ReportInv'
  OBVIOUS
<1>1. ThreadInv'
  BY LayoutNext, ReportsNext DEF ReportInv, ThreadInv
<1>2. ThreadKept
  BY KeepsThreads DEF ReportInv
<1>3. story' = story
  BY StoryStays DEF ReportInv, ThreadInv
<1>4. ASSUME NEW r \in Requests, \/ \E l \in Loops, in \in Arrivals[story][r] : Dispatch(r, l, in)
                                 \/ Execute(r)
                                 \/ Resume(r)
      PROVE  Filed' /\ \A q \in Requests : Reported(q)'
  <2>1. Reported(r)'
    BY <1>4, ReportedEnters, ReportedExecutes, ReportedResumes
  <2>2. ASSUME NEW q \in Requests \ {r} PROVE Reported(q)'
    <3>1. /\ at'[q] = at[q] /\ on'[q] = on[q] /\ waits'[q] = waits[q]
          /\ input'[q] = input[q] /\ under'[q] = under[q] /\ ctx'[q] = ctx[q]
      BY <1>4, PapersKept
    <3>2. Reported(q)
      BY DEF ReportInv
    <3>3. ASSUME at[q] = "run" PROVE messages'[on[q]] = messages[on[q]]
      <4>1. CASE Execute(q)
        BY <4>1 DEF Execute
      <4>2. CASE Thread(on[q])' = Thread(on[q])
        BY <3>1, <4>2 DEF Thread
      <4> QED
        BY <1>2, <3>3, <4>1, <4>2 DEF ThreadKept
    <3> QED
      BY <1>3, <3>1, <3>2, <3>3, ReportedStays
  <2> QED
    BY <1>4, <2>1, <2>2, PapersKept
<1>5. ASSUME \/ \E r \in Requests : Wake(r) \/ Disconnect(r)
             \/ Reload
             \/ UNCHANGED vars
      PROVE  Filed' /\ \A q \in Requests : Reported(q)'
  <2>1. UNCHANGED <<on, input, under, ctx, waits, messages>>
    BY <1>5 DEF Wake, Disconnect, Reload, vars, tokens
  <2>2. ASSUME NEW q \in Requests PROVE at'[q] = at[q] \/ (at[q] = "wait" /\ at'[q] = "due")
    <3>1. q \in DOMAIN at
      BY DEF ReportInv, ThreadInv, LayoutInv, LoopInv, WakeInv, WakeTypes
    <3>2. ASSUME NEW r \in Requests, Wake(r)
          PROVE  at'[q] = at[q] \/ (at[q] = "wait" /\ at'[q] = "due")
      BY <3>1, <3>2 DEF Wake
    <3>3. ASSUME NEW r \in Requests, Disconnect(r)
          PROVE  at'[q] = at[q] \/ (at[q] = "wait" /\ at'[q] = "due")
      <4>1. wake[r] = q => at[q] = "wait"
        BY NamesAssumption DEF ReportInv, ThreadInv, LayoutInv, LoopInv, WakeInv, NoStaleWake
      <4> QED
        BY <3>3, <4>1 DEF Disconnect
    <3> QED
      BY <1>5, <3>2, <3>3 DEF Reload, vars
  <2>3. ASSUME NEW q \in Requests PROVE Reported(q)'
    <3>1. Reported(q)
      BY DEF ReportInv
    <3> QED
      BY <1>3, <2>1, <2>2, <3>1, ReportedStays
  <2> QED
    BY <2>1, <2>3 DEF Filed, ReportInv
<1>6. \/ \E r \in Requests : \/ \E l \in Loops, in \in Arrivals[story][r] : Dispatch(r, l, in)
                             \/ Execute(r)
                             \/ Resume(r)
      \/ \E r \in Requests : Wake(r) \/ Disconnect(r)
      \/ Reload
      \/ UNCHANGED vars
  BY DEF Next
<1> QED
  BY <1>1, <1>4, <1>5, <1>6 DEF ReportInv

LEMMA ReportInit == Init => ReportInv
<1> SUFFICES ASSUME Init PROVE ReportInv
  OBVIOUS
<1>1. ThreadInv
  BY LayoutInit DEF ThreadInv, Init
<1>2. Filed
  BY DEF Init, Filed, Papers, Nowhere
<1>3. \A r \in Requests : Reported(r)
  BY DEF Init, Reported
<1> QED
  BY <1>1, <1>2, <1>3 DEF ReportInv

\* What a preparation has reported stays with its request until it waits:
\* the invariant that the next theorem rests on.
THEOREM ReportInvariant == Spec => []ReportInv
BY ReportInit, ReportNext, PTL DEF Spec

\* While a handler runs that has not waited yet, the messages of its thread
\* are those that its own preparation has reported (prepare_args() clears and
\* fills them, project.cpp:1005); and what `on error` left in its answer
\* is what it makes of those: "no pueden cruzarse peticiones"
\* (natives.hpp:157-159), for any number of requests, threads and versions.
\* A handler that has waited may find the messages of another.
OwnReport ==
  \A r \in Requests : ~Waited(r) =>
    /\ at[r] = "run" => Heard(r)
    /\ at[r] = "done" /\ Route(r).chunk # 0 => Told(r)

\* prepare_args() and on error of one request do not see the messages of
\* another, as long as the handler does not wait between them.
THEOREM TellsItsOwn == Spec => []OwnReport
<1>1. ReportInv => OwnReport
  BY DEF ReportInv, Reported, OwnReport
<1> QED
  BY <1>1, ReportInvariant, PTL

-----------------------------------------------------------------------------
(***************************************************************************)
(* Steps and calls.  Every machine is within its limits, those that nobody *)
(* uses too, and one that runs makes headway.                              *)
(***************************************************************************)
WithinLimits == /\ \A r \in Requests : Limited(own[r].vm)
                /\ \A l \in Loops : Limited(shared[l].vm)
LimitInv == LayoutInv /\ WithinLimits

LEMMA InWorldRuns ==
  ASSUME NEW r, NEW vm, Registers \subseteq DOMAIN vm
  PROVE  /\ InWorld(r, vm).frames = vm.frames /\ InWorld(r, vm).steps = vm.steps
         /\ Registers \subseteq DOMAIN InWorld(r, vm)
BY DEF InWorld, Registers

LEMMA BareRuns ==
  ASSUME NEW m, Registers \subseteq DOMAIN m
  PROVE  Bare(m).frames = m.frames /\ Bare(m).steps = m.steps /\ Bare(m).status = m.status
BY DEF Bare, Registers

\* The machine that a handler has, and what an instruction makes of it.
LEMMA MachineLimited ==
  ASSUME LimitInv, NEW r \in Requests, Active(r)
  PROVE  LET vm == MachineOf(r).vm
             m == InWorld(r, vm)
         IN /\ Limited(vm) /\ Limited(m) /\ Registers \subseteq DOMAIN vm /\ Registers \subseteq DOMAIN m
            /\ m.frames = vm.frames /\ m.steps = vm.steps
            /\ on[r] \in Loops
<1> DEFINE vm == MachineOf(r).vm
           m == InWorld(r, vm)
<1>1. /\ MachineOf(r) = Machine(r) /\ Sound(story, Machine(r)) /\ Machine(r).version # 0 /\ on[r] \in Loops
  BY MachineFacts DEF LimitInv
<1>2. Limited(vm) /\ Registers \subseteq DOMAIN vm
  BY <1>1 DEF LimitInv, WithinLimits, Machine, Sound, Laid
<1> HIDE DEF vm
<1>3. m.frames = vm.frames /\ m.steps = vm.steps /\ Registers \subseteq DOMAIN m
  BY <1>2, InWorldRuns
<1> HIDE DEF m
<1>4. Limited(m)
  BY <1>2, <1>3 DEF Limited
<1> QED
  BY <1>1, <1>2, <1>3, <1>4 DEF vm, m

LEMMA StepRuns ==
  ASSUME LimitInv, NEW r \in Requests, at[r] = "run",
         NEW m, m = Step(CodeOf(r), InWorld(r, MachineOf(r).vm))
  PROVE  /\ Registers \subseteq DOMAIN m /\ m.status \in {"run", "await", "done", "error"}
         /\ Limited(Bare(m)) /\ Bare(m).frames = m.frames /\ Bare(m).steps = m.steps
         /\ m.status = "run" => Advances(CodeOf(r), MachineOf(r).vm, Bare(m))
<1> DEFINE vm0 == MachineOf(r).vm
           chunks == CodeOf(r)
           places == PlacesAt(story, Machine(r).version)
           w == InWorld(r, vm0)
<1>1. Active(r)
  BY DEF Active
<1>2. /\ MachineOf(r) = Machine(r) /\ chunks = CodeAt(story, Machine(r).version)
      /\ Sound(story, Machine(r)) /\ Machine(r).version # 0
  BY <1>1, MachineFacts DEF LimitInv
<1>3. story \in DOMAIN Stories /\ Fine(story, Machine(r).version) /\ Laid(chunks, places, vm0) /\ vm0.status = "run"
  BY <1>2 DEF Sound, LimitInv, LayoutInv, Published, Turns
<1>4. Verified(chunks, places) /\ OnlyJumpsGoBack(chunks)
  BY <1>2, <1>3, FineFacts
<1>5. Limited(w) /\ w.frames = vm0.frames /\ w.steps = vm0.steps
  BY <1>1, MachineLimited
<1> HIDE DEF vm0, chunks, places
<1>6. Laid(chunks, places, w) /\ w.status = "run"
  BY <1>3, InWorldIsLaid
<1>7. m = Step(chunks, w)
  BY DEF chunks, vm0
<1> HIDE DEF w
<1>8. Laid(chunks, places, m)
  BY <1>4, <1>6, <1>7, StepKeepsLayout
<1>9. Limited(m) /\ (m.status = "run" => Advances(chunks, w, m))
  BY <1>4, <1>5, <1>6, <1>7, StepAdvances
<1>10. Registers \subseteq DOMAIN m /\ m.status \in {"run", "await", "done", "error"}
  BY <1>8 DEF Laid
<1>11. Bare(m).frames = m.frames /\ Bare(m).steps = m.steps
  BY <1>10, BareRuns
<1>12. Limited(Bare(m))
  BY <1>9, <1>11 DEF Limited
<1>13. Advances(chunks, w, m) => Advances(chunks, vm0, Bare(m))
  BY <1>5, <1>11 DEF Advances, Caught
<1> QED
  BY <1>9, <1>10, <1>11, <1>12, <1>13 DEF chunks, vm0

LEMMA SetWithinLimits ==
  ASSUME LimitInv, NEW r \in Requests, Active(r), NEW m, SetMachine(r, m), Limited(Bare(m))
  PROVE  WithinLimits'
<1>1. on[r] \in Loops
  BY MachineFacts DEF LimitInv
<1>2. DOMAIN own = Requests /\ DOMAIN shared = Loops
  BY DEF LimitInv, LayoutInv, Placements
<1>3. own[r] = Loaded(own[r].version, own[r].vm) /\ shared[on[r]] = Loaded(shared[on[r]].version, shared[on[r]].vm)
  BY <1>1 DEF LimitInv, LayoutInv, Layouts, Sound
<1>4. "vm" \in DOMAIN own[r] /\ "vm" \in DOMAIN shared[on[r]]
  BY <1>3 DEF Loaded
<1>5. CASE Borrows(r)
  <2>1. shared' = [shared EXCEPT ![on[r]].vm = Bare(m)] /\ own' = own
    BY <1>5 DEF SetMachine
  <2>2. \A l \in Loops : shared'[l].vm = IF l = on[r] THEN Bare(m) ELSE shared[l].vm
    BY <1>1, <1>2, <1>4, <2>1
  <2> QED
    BY <2>1, <2>2 DEF LimitInv, WithinLimits
<1>6. CASE ~Borrows(r)
  <2>1. own' = [own EXCEPT ![r].vm = Bare(m)] /\ shared' = shared
    BY <1>6 DEF SetMachine
  <2>2. \A q \in Requests : own'[q].vm = IF q = r THEN Bare(m) ELSE own[q].vm
    BY <1>2, <1>4, <2>1
  <2> QED
    BY <2>1, <2>2 DEF LimitInv, WithinLimits
<1> QED
  BY <1>5, <1>6

LEMMA LimitNext == LimitInv /\ [Next]_vars => LimitInv'
<1> SUFFICES ASSUME LimitInv, [Next]_vars PROVE WithinLimits'
  BY LayoutNext DEF LimitInv
<1>1. ASSUME NEW r \in Requests, NEW l \in Loops, NEW in, Dispatch(r, l, in)
      PROVE  WithinLimits'
  <2>1. \E mod, route, bound : Enter(r, l, mod, route, bound)
    BY <1>1 DEF Dispatch, DispatchTo
  <2>2. PICK mod, route, bound : Enter(r, l, mod, route, bound)
    BY <2>1
  <2> DEFINE vm == StartVM(mod.chunks, route.chunk, bound.args)
  <2>3. \/ UNCHANGED <<own, shared>>
        \/ shared' = [shared EXCEPT ![l] = Loaded(live, vm)] /\ UNCHANGED own
        \/ own' = [own EXCEPT ![r] = Loaded(live, vm)] /\ UNCHANGED shared
    BY <2>2 DEF Enter, AtOnce, Launch
  <2>4. Limited(vm) /\ Loaded(live, vm).vm = vm
    BY StartIsLimited DEF Loaded
  <2>5. DOMAIN own = Requests /\ DOMAIN shared = Loops
    BY DEF LimitInv, LayoutInv, Placements
  <2> DEFINE start == Loaded(live, vm)
  <2> HIDE DEF vm, start
  <2>6. Limited(start.vm)
    BY <2>4 DEF start
  <2>7. \/ UNCHANGED <<own, shared>>
        \/ shared' = [shared EXCEPT ![l] = start] /\ UNCHANGED own
        \/ own' = [own EXCEPT ![r] = start] /\ UNCHANGED shared
    BY <2>3 DEF start
  <2> QED
    BY <2>5, <2>6, <2>7 DEF LimitInv, WithinLimits
<1>2. ASSUME NEW r \in Requests, Execute(r)
      PROVE  WithinLimits'
  <2> DEFINE m == Step(CodeOf(r), InWorld(r, MachineOf(r).vm))
  <2>1. at[r] = "run" /\ Executed(r, m)
    BY <1>2 DEF Execute
  <2>2. Active(r) /\ SetMachine(r, m)
    BY <2>1 DEF Active, Executed
  <2>3. Limited(Bare(m))
    BY <2>1, StepRuns
  <2> HIDE DEF m
  <2> QED
    BY <2>2, <2>3, SetWithinLimits
<1>3. ASSUME NEW r \in Requests, Resume(r)
      PROVE  WithinLimits'
  <2> DEFINE vm == MachineOf(r).vm
             n == ResumeVM(vm, Produced(r))
             m == InWorld(r, n)
  <2>1. at[r] = "due" /\ (SetMachine(r, m) \/ UNCHANGED <<own, shared>>)
    BY <1>3 DEF Resume
  <2>2. Active(r)
    BY <2>1 DEF Active
  <2>3. Limited(vm) /\ Registers \subseteq DOMAIN vm
    BY <2>2, MachineLimited
  <2> HIDE DEF vm
  <2>4. Limited(n) /\ Registers \subseteq DOMAIN n
    BY <2>3, ResumeIsLimited DEF ResumeVM
  <2> HIDE DEF n
  <2>5. m.frames = n.frames /\ m.steps = n.steps /\ Registers \subseteq DOMAIN m
    BY <2>4, InWorldRuns
  <2> HIDE DEF m
  <2>6. Limited(Bare(m))
    BY <2>4, <2>5, BareRuns DEF Limited
  <2>7. UNCHANGED <<own, shared>> => WithinLimits'
    BY DEF LimitInv, WithinLimits
  <2> QED
    BY <2>1, <2>2, <2>6, <2>7, SetWithinLimits
<1>4. ASSUME UNCHANGED <<own, shared>>
      PROVE  WithinLimits'
  BY <1>4 DEF LimitInv, WithinLimits
<1>5. ASSUME NEW r \in Requests, Wake(r) \/ Disconnect(r)
      PROVE  UNCHANGED <<own, shared>>
  BY <1>5 DEF Wake, Disconnect
<1>6. Reload \/ UNCHANGED vars => UNCHANGED <<own, shared>>
  BY DEF Reload, vars
<1> QED
  BY <1>1, <1>2, <1>3, <1>4, <1>5, <1>6 DEF Next

\* No machine ever holds more calls than kMaxFrames, nor has counted more
\* steps than kStepLimit (vm.cpp:309, 502), whatever code the verifier
\* accepts and however often it has been started, resumed or caught an error.
THEOREM LimitInvariant == Spec => []LimitInv
<1>1. Init => LimitInv
  <2> SUFFICES ASSUME Init PROVE WithinLimits
    BY LayoutInit DEF LimitInv
  <2>1. Limited(Idle) /\ Loaded(0, Idle).vm = Idle
    BY LimitsAssumption DEF Limited, Idle, Loaded
  <2> QED
    BY <2>1 DEF Init, WithinLimits
<1> QED
  BY <1>1, LimitNext, PTL DEF Spec

\* Every instruction after which the handler still runs makes headway: its
\* machine has counted one more step, or its calls have gone on in the order
\* of Further, or it is at the catch of an error.  The limits bound all
\* three but the last, so that a handler that catches nothing is not in an
\* endless loop (vm.cpp:305-308).
Headway ==
  \A r \in Requests : at[r] = "run" /\ at'[r] = "run" /\ Execute(r) =>
    Advances(CodeOf(r), MachineOf(r).vm, MachineOf(r).vm')

LEMMA MakesHeadway ==
  ASSUME LimitInv, NEW r \in Requests, at[r] = "run", at'[r] = "run", Execute(r)
  PROVE  Advances(CodeOf(r), MachineOf(r).vm, MachineOf(r).vm')
<1>1. PICK m : m = Step(CodeOf(r), InWorld(r, MachineOf(r).vm))
  OBVIOUS
<1>2. Executed(r, m) /\ UNCHANGED <<hotVars, on, input>>
  BY <1>1 DEF Execute
<1>3. r \in DOMAIN at /\ Active(r)
  BY DEF LimitInv, LayoutInv, LoopInv, WakeInv, WakeTypes, Active
<1>4. m.status \notin {"done", "error"}
  <2>1. m.status \in {"done", "error"} => Finish(r, m)
    BY <1>2 DEF Executed
  <2>2. Finish(r, m) => at'[r] = "done"
    BY <1>3, Settling DEF Finish
  <2> QED
    BY <2>1, <2>2
<1>5. m.status # "await"
  <2>1. m.status = "await" => Suspend(r, m)
    BY <1>2 DEF Executed
  <2>2. Suspend(r, m) => \E phase \in {"wait", "due"} : at' = [at EXCEPT ![r] = phase]
    BY DEF Suspend, Receive, Sleep
  <2> QED
    BY <1>3, <2>1, <2>2
<1>6. Advances(CodeOf(r), MachineOf(r).vm, Bare(m))
  BY <1>1, <1>4, <1>5, StepRuns
<1>7. SetMachine(r, m) /\ under' = under
  BY <1>2, <1>4, <1>5 DEF Executed
<1>8. Borrows(r)' <=> Borrows(r)
  <2>1. story' = story /\ input'[r] = input[r]
    BY <1>2 DEF hotVars
  <2>2. Route(r)' = Route(r)
    BY <1>7, <2>1, SamePapers
  <2>3. Chunks(r)' = Chunks(r)
    BY <1>7, <2>1 DEF Chunks, ModuleOf
  <2> QED
    BY <2>2, <2>3 DEF Borrows
<1>9. on[r] \in Loops /\ DOMAIN own = Requests /\ DOMAIN shared = Loops
  BY <1>3, MachineFacts DEF LimitInv, LayoutInv, Placements
<1>10. own[r] = Loaded(own[r].version, own[r].vm) /\ shared[on[r]] = Loaded(shared[on[r]].version, shared[on[r]].vm)
  BY <1>9 DEF LimitInv, LayoutInv, Layouts, Sound
<1>11. "vm" \in DOMAIN own[r] /\ "vm" \in DOMAIN shared[on[r]]
  BY <1>10 DEF Loaded
<1>12. MachineOf(r).vm' = Bare(m)
  <2>1. CASE Borrows(r)
    <3>1. shared' = [shared EXCEPT ![on[r]].vm = Bare(m)] /\ on' = on
      BY <1>2, <1>7, <2>1 DEF SetMachine
    <3>2. MachineOf(r)' = shared'[on[r]]
      BY <1>8, <2>1, <3>1 DEF MachineOf
    <3> QED
      BY <1>9, <1>11, <3>1, <3>2
  <2>2. CASE ~Borrows(r)
    <3>1. own' = [own EXCEPT ![r].vm = Bare(m)]
      BY <1>7, <2>2 DEF SetMachine
    <3>2. MachineOf(r)' = own'[r]
      BY <1>8, <2>2 DEF MachineOf
    <3> QED
      BY <1>9, <1>11, <3>1, <3>2
  <2> QED
    BY <2>1, <2>2
<1> QED
  BY <1>6, <1>12

\* No handler loops for ever within the limits, unless it catches an error.
THEOREM HandlersMakeHeadway == Spec => [][Headway]_vars
<1>1. LimitInv /\ [Next]_vars => [Headway]_vars
  BY MakesHeadway DEF Headway
<1> QED
  BY <1>1, LimitInvariant, PTL DEF Spec

-----------------------------------------------------------------------------
(***************************************************************************)
(* Reloading.  What is left of "guardas el fichero y se recarga" without   *)
(* the fairness of the watcher.                                            *)
(***************************************************************************)
\* What the watcher has read is served once it sleeps again, if it compiles.
Serves ==
  /\ watcher.at \in {"asleep", "changed", "read", "compiling"}
  /\ watcher.at = "asleep" /\ ModuleOf(watcher.read).ok => live = watcher.read
ReloadInv == LayoutInv /\ Serves

LEMMA ServesNext == ReloadInv /\ [Next]_vars => Serves'
<1> SUFFICES ASSUME ReloadInv, [Next]_vars PROVE Serves'
  OBVIOUS
<1>1. story' = story /\ {"at", "read", "seen"} \subseteq DOMAIN watcher
  BY StoryStays DEF ReloadInv, LayoutInv, Published
<1>2. CASE Save
  BY <1>1, <1>2 DEF Save, ReloadInv, Serves, ModuleOf
<1>3. CASE Look
  BY <1>1, <1>3 DEF Look, Serves
<1>4. CASE Read
  BY <1>1, <1>4 DEF Read, Serves
<1>5. CASE Stamp
  BY <1>1, <1>5 DEF Stamp, Serves
<1>6. CASE PublishModule
  <2>1. watcher'.at = "asleep" /\ watcher'.read = watcher.read
    BY <1>1, <1>6 DEF PublishModule
  <2>2. ModuleOf(watcher.read).ok => live' = watcher.read
    BY <1>6 DEF PublishModule
  <2>3. ModuleOf(watcher.read)' = ModuleOf(watcher'.read)
    BY <1>1 DEF ModuleOf
  <2> QED
    BY <1>1, <2>1, <2>2 DEF Serves, ModuleOf
<1>7. CASE UNCHANGED hotVars
  BY <1>7 DEF hotVars, ReloadInv, Serves, ModuleOf
<1>8. Save \/ Watch \/ UNCHANGED hotVars
  <2>1. ASSUME NEW r \in Requests, \/ \E l \in Loops : \E in : Dispatch(r, l, in)
                                   \/ Execute(r) \/ Wake(r) \/ Resume(r) \/ Disconnect(r)
        PROVE  UNCHANGED hotVars
    BY <2>1 DEF Dispatch, DispatchTo, Execute, Wake, Resume, Disconnect
  <2>2. UNCHANGED vars => UNCHANGED hotVars
    BY DEF vars
  <2> QED
    BY <2>1, <2>2 DEF Next, Reload
<1> QED
  BY <1>2, <1>3, <1>4, <1>5, <1>6, <1>7, <1>8 DEF Watch

\* watch_loop() compiles what it has read before it sleeps again: the
\* invariant that the next theorem rests on.
THEOREM ReloadInvariant == Spec => []ReloadInv
<1>1. Init => ReloadInv
  BY LayoutInit DEF ReloadInv, Serves, Init, HotInit
<1>2. ReloadInv /\ [Next]_vars => ReloadInv'
  BY LayoutNext, ServesNext DEF ReloadInv
<1> QED
  BY <1>1, <1>2, PTL DEF Spec

\* The watcher never sleeps over an edit: once the last version is saved and
\* compiles, it is served, or it has overtaken the watcher, or watch_loop()
\* has a step to take (main.cpp:67), whatever has not compiled before.
\* EditsAreServed follows if it takes its steps.
NoEditSleeps ==
  saved = Latest /\ ModuleOf(Latest).ok =>
    \/ live = Latest \/ Overtaken
    \/ watcher.at \in {"changed", "read", "compiling"}
    \/ watcher.at = "asleep" /\ stamp # saved

\* watch_loop() overlooks no version that stays the last one.
THEOREM NoEditSleepsHolds == Spec => []NoEditSleeps
<1>1. ReloadInv => NoEditSleeps
  BY DEF ReloadInv, Serves, NoEditSleeps, Overtaken
<1> QED
  BY <1>1, ReloadInvariant, PTL
===============================================================================
