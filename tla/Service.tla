------------------------------ MODULE Service ------------------------------
(***************************************************************************)
(* What the server promises its clients: never more than the limit at      *)
(* once, and after the signal nobody who was inside is put out before the  *)
(* grace period is over.  Who came in after the signal has no such promise. *)
(***************************************************************************)
EXTENDS Integers, FiniteSets

CONSTANTS Clients, Limit

VARIABLES life,             \* "up", "draining" or "expired"
          early, late       \* who is inside, by when they came

serviceVars == <<life, early, late>>

ServiceInit == life = "up" /\ early = {} /\ late = {}

Admit(c) ==
  /\ c \notin early \cup late
  /\ Cardinality(early \cup late) < Limit
  /\ IF life = "up" THEN early' = early \cup {c} /\ UNCHANGED late
     ELSE late' = late \cup {c} /\ UNCHANGED early
  /\ UNCHANGED life

\* Who is done, or has gone, or is put out by its own timeouts.
Depart(c) == early' = early \ {c} /\ late' = late \ {c} /\ UNCHANGED life

Drain  == life = "up" /\ life' = "draining" /\ UNCHANGED <<early, late>>
Expire == life = "draining" /\ life' = "expired" /\ UNCHANGED <<early, late>>

\* The loops end with somebody inside.
Abandon(cs) ==
  /\ life # "up"
  /\ life = "expired" \/ cs \cap early = {}
  /\ early' = early \ cs /\ late' = late \ cs
  /\ UNCHANGED life

ServiceNext == \/ \E c \in Clients : Admit(c) \/ Depart(c)
               \/ Drain \/ Expire
               \/ \E cs \in SUBSET Clients : Abandon(cs)

ServiceSpec == ServiceInit /\ [][ServiceNext]_serviceVars
=============================================================================
