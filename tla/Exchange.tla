------------------------------ MODULE Exchange ------------------------------
(***************************************************************************)
(* What an HTTP connection promises the client behind it: requests are     *)
(* taken one at a time in the order they were sent, a response begins only *)
(* for a request that was taken, the next request is taken only when the   *)
(* response before it is complete, and nothing is sent once the connection *)
(* is closed.                                                              *)
(***************************************************************************)
EXTENDS Naturals, Sequences

CONSTANT Requests

VARIABLES
  open,         \* the connection is up
  asked,        \* the last request the server has taken
  begun, ended  \* requests whose response has begun, has been sent to its end

vars == <<open, asked, begun, ended>>

Init == open = TRUE /\ asked = 0 /\ begun = <<>> /\ ended = <<>>

\* Everything taken so far has been answered.
Idle == Len(ended) = asked

Ask ==
  /\ open /\ Idle /\ asked < Requests
  /\ asked' = asked + 1
  /\ begun' = begun \/ begun' = Append(begun, asked + 1)   \* a stream begins at once
  /\ UNCHANGED <<open, ended>>

Begin ==
  /\ open /\ Len(begun) < asked
  /\ begun' = Append(begun, asked)
  /\ UNCHANGED <<open, asked, ended>>

\* The end of a stream is the end of the connection.
End ==
  /\ open /\ Len(ended) < Len(begun)
  /\ ended' = Append(ended, asked)
  /\ open' \in BOOLEAN
  /\ UNCHANGED <<asked, begun>>

Close ==
  /\ open
  /\ open' = FALSE
  /\ UNCHANGED <<asked, begun, ended>>

Next == Ask \/ Begin \/ End \/ Close

Spec == Init /\ [][Next]_vars
=============================================================================
