-------------------------- MODULE HttpConnectionMC --------------------------
(***************************************************************************)
(* Finite workloads for HttpConnection.  A shape stands for every handler  *)
(* that waits and answers the same way; Typical has at least one shape of  *)
(* each kind of wait, of each kind of answer and of each way to end.       *)
(***************************************************************************)
EXTENDS HttpConnection

Well(await, out, keep) ==
  [valid |-> TRUE, await |-> await, out |-> out, keep |-> keep]

Malformed == [valid |-> FALSE, await |-> "none", out |-> "body", keep |-> TRUE]

Sync  == {Well("none", "body", TRUE), Well("none", "file", FALSE), Malformed}
Async == {Well("sleep", "body", TRUE), Well("db", "file", TRUE),
          Well("sleep", "sse", TRUE), Well("db", "ws", TRUE)}
Typical == Sync \cup Async

Serial(s)    == [pipelining |-> FALSE, backpressure |-> TRUE, shapes |-> s]
Pipelined(s) == [pipelining |-> TRUE, backpressure |-> FALSE, shapes |-> s]

\* No pipelining on a socket that fills up.
Orderly == {Serial(Typical), Pipelined(Typical)}

\* Nor handlers that answer at once while requests are pipelined.
Deferred == {Serial(Typical), Pipelined(Async)}

\* What the pipelining of the code is for, but fast handlers or slow readers.
SyncPipeline     == {Pipelined({Well("none", "body", TRUE)})}
CongestedPipeline ==
  {[pipelining |-> TRUE, backpressure |-> TRUE, shapes |-> {Well("sleep", "body", TRUE)}]}
=============================================================================
