----------------------------- MODULE TcpServer -----------------------------
(***************************************************************************)
(* One TcpServer per loop, all of them with the same counter: accept, the  *)
(* limit, and the life of a connection as the counter sees it.  A          *)
(* connection counts from fetch_add() in on_accept() to fetch_sub() in its *)
(* close(); one that is refused counts for a moment too.                   *)
(***************************************************************************)
EXTENDS EventLoop

CONSTANTS MaxConnections

ASSUME LimitAssumption == MaxConnections \in Nat \ {0}

VARIABLES listening,    \* loop |-> listen_fd_ is open
          conn,         \* client |-> its connection; see Conns
          at,           \* client |-> the loop whose socket it chose
          count         \* *conn_count_

tcpVars == <<listening, conn, at, count>>

\* "late" is open as well, but admitted after the drain had begun.
Conns == {"away", "backlog", "accepted", "refusing", "open", "late",
          "refused", "closed", "reset", "dropped"}
Open    == {c \in Clients : conn[c] \in {"open", "late"}}
Counted == {c \in Clients : conn[c] \in {"open", "late", "refusing", "dropped"}}
In(l, s) == {c \in Clients : at[c] = l /\ conn[c] = s}

TcpInit ==
  /\ listening = [l \in Loops |-> FALSE]
  /\ conn = [c \in Clients |-> "away"]
  /\ at = [c \in Clients |-> Main]
  /\ count = 0

Becomes(c, s) == conn' = [conn EXCEPT ![c] = s]

\* The constructor: the socket listens before the loop runs.
Listen(l) ==
  /\ phase[l] = "unborn"
  /\ At(l, "built")
  /\ listening' = [listening EXCEPT ![l] = TRUE]
  /\ UNCHANGED <<running, queue, current, woken, conn, at, count>>

\* The kernel gives a client to one of the sockets that listen.
Connect(c, l) ==
  /\ conn[c] = "away" /\ listening[l]
  /\ Becomes(c, "backlog")
  /\ at' = [at EXCEPT ![c] = l]
  /\ UNCHANGED <<loopVars, listening, count>>

\* on_accept() takes clients until there are none.
Accept(l, c) ==
  /\ InBatch(l) \/ phase[l] = "accepting"
  /\ c \in In(l, "backlog")
  /\ At(l, "counting")
  /\ Becomes(c, "accepted")
  /\ UNCHANGED <<running, queue, current, woken, listening, at, count>>

AcceptDone(l) ==
  /\ phase[l] = "accepting" /\ In(l, "backlog") = {}
  /\ At(l, "batch")
  /\ UNCHANGED <<running, queue, current, woken, tcpVars>>

\* Mutant: one more than the limit.
BugCount(l, c, as) ==
  /\ phase[l] = "counting" /\ c \in In(l, "accepted")
  /\ count' = count + 1
  /\ IF count > MaxConnections
     THEN Becomes(c, "refusing") /\ At(l, "refusing")
     ELSE Becomes(c, as) /\ At(l, "accepting")
  /\ UNCHANGED <<running, queue, current, woken, listening, at>>

\* fetch_add(); up to the limit the connection starts as "as".
Count(l, c, as) ==
  /\ phase[l] = "counting" /\ c \in In(l, "accepted")
  /\ count' = count + 1
  /\ IF count >= MaxConnections
     THEN Becomes(c, "refusing") /\ At(l, "refusing")
     ELSE Becomes(c, as) /\ At(l, "accepting")
  /\ UNCHANGED <<running, queue, current, woken, listening, at>>

\* Mutant: a refused connection keeps its slot.
BugRefuse(l, c) ==
  /\ phase[l] = "refusing" /\ c \in In(l, "refusing")
  /\ Becomes(c, "refused")
  /\ At(l, "accepting")
  /\ UNCHANGED <<running, queue, current, woken, listening, at, count>>

\* The 503 and close().
Refuse(l, c) ==
  /\ phase[l] = "refusing" /\ c \in In(l, "refusing")
  /\ count' = count - 1
  /\ Becomes(c, "refused")
  /\ At(l, "accepting")
  /\ UNCHANGED <<running, queue, current, woken, listening, at>>

\* HttpConnection::close(), for whatever reason.
Close(l, c) ==
  /\ InBatch(l) /\ at[c] = l /\ c \in Open
  /\ At(l, "batch")
  /\ Becomes(c, "closed")
  /\ count' = count - 1
  /\ UNCHANGED <<running, queue, current, woken, listening, at>>

\* stop_accepting(): who has not been accepted is reset by the kernel.
StopAccepting(l) ==
  /\ listening' = [listening EXCEPT ![l] = FALSE]
  /\ conn' = [c \in Clients |-> IF c \in In(l, "backlog") THEN "reset" ELSE conn[c]]
  /\ UNCHANGED <<at, count>>

\* The destructors of a server and of its loop: connections that are still
\* open lose their descriptor, and nobody counts them down.
Destroy(l) ==
  /\ phase[l] = "left"
  /\ At(l, "gone")
  /\ listening' = [listening EXCEPT ![l] = FALSE]
  /\ conn' = [c \in Clients |-> IF c \in In(l, "backlog") THEN "reset"
                                ELSE IF at[c] = l /\ c \in Open THEN "dropped" ELSE conn[c]]
  /\ UNCHANGED <<running, queue, current, woken, at, count>>

\* No slot of the limit is lost or given twice, by whichever loop.
CountIsExact == count = Cardinality(Counted)
=============================================================================
