--------------------------- MODULE HttpConnection ---------------------------
(***************************************************************************)
(* One HTTP connection of the server (src/src/http/http_connection.cpp)    *)
(* on its event loop, with the client that talks to it, the two timers it  *)
(* arms and the handler coroutines it starts.                              *)
(*                                                                         *)
(* Everything a connection does happens on one loop thread, inside the     *)
(* callback of one event.  pc says where that callback is; "loop" is the   *)
(* thread waiting in epoll_wait.  The calls nest: parser_.feed() runs the  *)
(* handler, which may answer before it returns, which may close the cycle  *)
(* and feed the parser again.  reading and feeding say which of those      *)
(* frames are on the call stack.                                           *)
(*                                                                         *)
(* Bytes are abstracted to units, numbered in the order the client sends   *)
(* them: request i is the units 2i-1 and 2i, the second one completes it.  *)
(***************************************************************************)
EXTENDS Naturals, Sequences

CONSTANTS
  Requests,    \* the requests of the client are numbered 1..Requests
  Workloads,   \* the client and handler behaviours considered, see Workload
  MaxPending   \* kMaxPendingBuf, in units

(***************************************************************************)
(* What a request makes the server do: whether the parser accepts it, what *)
(* its handler waits for before it answers ("sleep" is cut short by the    *)
(* cancellation token, as ws.recv() is; "db" is not), what it answers      *)
(* with, and whether the client asked for keep-alive.                      *)
(***************************************************************************)
Shape == [valid : BOOLEAN,
          await : {"none", "sleep", "db"},
          out   : {"body", "file", "sse", "ws"},
          keep  : BOOLEAN]

(***************************************************************************)
(* pipelining: the client may send a request before the previous response  *)
(* has arrived.  backpressure: the socket buffer may fill up, so that a    *)
(* write or a sendfile stops half way.                                     *)
(***************************************************************************)
Workload == [pipelining : BOOLEAN, backpressure : BOOLEAN, shapes : SUBSET Shape]

ASSUME ConnectionAssumption ==
  /\ Requests \in Nat
  /\ MaxPending \in Nat
  /\ Workloads \subseteq Workload

Ids   == 1..Requests
Units == 1..2 * Requests

RequestOf(u) == (u + 1) \div 2
Completes(u) == u % 2 = 0

VARIABLES
  load,          \* the workload of this behaviour, chosen once
  script,        \* the shape of each request, chosen once
  sent,          \* units the client has written so far
  net,           \* units in the socket's receive buffer
  eof,           \* the client has shut its side down
  pc,            \* where the running callback is
  reading,       \* do_read() is on the call stack
  feeding,       \* who called parser_.feed(): "no", "read" (in_parser_) or "replay"
  buf,           \* the rest of the buffer that feed() is consuming
  cur,           \* the request whose response is being produced
  parser,        \* "ready", "paused" or "error"
  pending_buf, in_flight, cycle_pending, keep_alive, closed,
  current,       \* the last request dispatched: cancel_token_, current_req_
  hstate,        \* the handler coroutine of each request
  header_tfd,    \* header_tfd_ names a live timer
  timeout_tfd,   \* timeout_tfd_ names a live timer
  stray,         \* live header timers that no member names any more
  write_buf,     \* the request whose response write_buf_ holds, or 0
  file_fd,       \* the request whose file is open, or 0
  epoll,         \* the event the descriptor is registered for
  begun, ended   \* requests whose response was handed to, fully taken by, the socket

client   == <<load, script, sent, net, eof>>
control  == <<pc, reading, feeding, buf, cur>>
pipeline == <<parser, pending_buf, in_flight, cycle_pending, current>>
life     == <<closed, hstate>>
deadline == <<header_tfd, timeout_tfd, stray>>
output   == <<keep_alive, write_buf, file_fd, epoll, begun, ended>>
vars     == <<client, control, pipeline, life, deadline, output>>

-----------------------------------------------------------------------------
Init ==
  /\ load \in Workloads
  /\ script \in [Ids -> load.shapes]
  /\ sent = 0 /\ net = <<>> /\ eof = FALSE
  /\ pc = "loop" /\ reading = FALSE /\ feeding = "no" /\ buf = <<>> /\ cur = 0
  /\ parser = "ready" /\ pending_buf = <<>>
  /\ in_flight = FALSE /\ cycle_pending = FALSE /\ keep_alive = FALSE
  /\ closed = FALSE /\ current = 0
  /\ hstate = [i \in Ids |-> "none"]
  /\ header_tfd = TRUE /\ timeout_tfd = FALSE     \* start() armed it
  /\ stray = 0
  /\ write_buf = 0 /\ file_fd = 0 /\ epoll = "in"
  /\ begun = <<>> /\ ended = <<>>

-----------------------------------------------------------------------------
(* The client.                                                             *)

Answered(i) == \E k \in 1..Len(ended) : ended[k] = i

ClientSends ==
  LET u == sent + 1
  IN  /\ sent < 2 * Requests /\ ~eof /\ ~closed
      /\ \/ load.pipelining
         \/ RequestOf(u) = 1
         \/ Answered(RequestOf(u) - 1)
      /\ sent' = u
      /\ net' = Append(net, u)
      /\ UNCHANGED <<load, script, eof, control, pipeline, life, deadline, output>>

ClientShutsDown ==
  /\ ~eof /\ ~closed
  /\ eof' = TRUE
  /\ UNCHANGED <<load, script, sent, net, control, pipeline, life, deadline, output>>

-----------------------------------------------------------------------------
(* Timers.  Arming a timer while the member still names a live one leaves  *)
(* that one alive in the loop with nobody able to cancel it.               *)

\* Bug: only the first request has a header timer.
BugArmHeader == UNCHANGED deadline

ArmHeader ==
  /\ header_tfd' = TRUE
  /\ stray' = stray + IF header_tfd THEN 1 ELSE 0
  /\ UNCHANGED timeout_tfd

\* Bug: dispatch() does not cancel the header timer.
BugHeaderToRequestTimer == timeout_tfd' = TRUE /\ UNCHANGED <<header_tfd, stray>>

\* dispatch() cancels the header timer and arms the request timer.  No request is
\* in flight then, so timeout_tfd_ names no timer that could be lost.
HeaderToRequestTimer ==
  /\ header_tfd' = FALSE
  /\ timeout_tfd' = TRUE
  /\ UNCHANGED stray

-----------------------------------------------------------------------------
(* close(), and the error responses that end in it.                        *)

\* close(): cancel() resumes a handler that waits in sleep() or recv() of the
\* current request; it runs to its end on a connection already marked closed,
\* and a file it opens is closed a few lines below.
Close ==
  /\ closed' = TRUE
  /\ hstate' = [i \in Ids |-> IF i = current /\ hstate[i] = "sleep" THEN "done"
                                                                    ELSE hstate[i]]
  /\ header_tfd' = FALSE /\ timeout_tfd' = FALSE
  /\ file_fd' = 0
  /\ epoll' = "off"

\* close() called where nothing else of the output changes.
CloseOnly == Close /\ UNCHANGED <<stray, keep_alive, write_buf, begun, ended>>

\* send_error(); close().  The error is written or lost, after the rest of an open
\* file or in its place; either way close() follows in the same callback, and nothing
\* reads in_flight_ or write_buf_ after it.
Abort == Close /\ keep_alive' = FALSE /\ UNCHANGED <<write_buf, begun, ended>>

\* Back to epoll_wait: every frame is gone.
ToLoop == pc' = "loop" /\ reading' = FALSE /\ feeding' = "no" /\ buf' = <<>>

\* Where a call made from inside parser_.feed() returns to: the parser callback,
\* which then pauses the parser.  Elsewhere the event is over.
Unwind ==
  /\ IF feeding = "no" THEN pc' = "loop" /\ reading' = FALSE
                       ELSE pc' = "pause" /\ UNCHANGED reading
  /\ UNCHANGED <<feeding, buf>>

\* EPOLLERR or EPOLLHUP: on_event() closes.
HangUp ==
  /\ pc = "loop" /\ ~closed
  /\ CloseOnly
  /\ UNCHANGED <<client, control, pipeline>>

\* The timer start() or finish_cycle() armed, after 5 s.  A stray one takes the
\* member for its own, so the timer it really names becomes a stray.
HeaderTimeout ==
  /\ pc = "loop" /\ ~closed
  /\ \/ header_tfd /\ UNCHANGED stray
     \/ stray > 0 /\ stray' = stray - IF header_tfd THEN 0 ELSE 1
  /\ Abort
  /\ UNCHANGED <<client, control, pipeline>>

\* A header timer expires on a connection that has closed: nothing to do.
LateHeaderTimeout ==
  /\ pc = "loop" /\ closed
  /\ \/ header_tfd /\ header_tfd' = FALSE /\ UNCHANGED stray
     \/ stray > 0 /\ stray' = stray - 1 /\ UNCHANGED header_tfd
  /\ UNCHANGED <<client, control, pipeline, life, timeout_tfd, output>>

\* The timer dispatch() armed, after 30 s: the handler and the write took too long.
RequestTimeout ==
  /\ pc = "loop" /\ ~closed
  /\ timeout_tfd
  /\ Abort
  /\ UNCHANGED <<client, control, pipeline, stray>>

-----------------------------------------------------------------------------
(* do_read().                                                              *)

\* EPOLLIN is level-triggered: it is reported while there is something to read.
Readable ==
  /\ pc = "loop" /\ ~closed
  /\ epoll = "in"
  /\ net # <<>> \/ eof
  /\ pc' = "read" /\ reading' = TRUE
  /\ UNCHANGED <<client, feeding, buf, cur, pipeline, life, deadline, output>>

\* read() returns -1 with EAGAIN.
ReadNothing ==
  /\ pc = "read"
  /\ net = <<>> /\ ~eof
  /\ ToLoop
  /\ UNCHANGED <<client, cur, pipeline, life, deadline, output>>

\* read() returns 0, or fails.
ReadEnd ==
  /\ pc = "read"
  /\ net = <<>> => eof
  /\ CloseOnly
  /\ ToLoop
  /\ UNCHANGED <<client, cur, pipeline>>

\* The first n units of the receive buffer, and what is left of it.
Taken(n) == SubSeq(net, 1, n)
Take(n)  == net' = SubSeq(net, n + 1, Len(net))

\* current_req_ is alive and its handler has upgraded to a WebSocket.
WebSocketMode ==
  current > 0 /\ script[current].out = "ws" /\ hstate[current] \in {"sleep", "db"}

\* The bytes belong to the frame parser of the WebSocket.
ReadFrames(n) ==
  /\ WebSocketMode
  /\ pc' = "read"
  /\ UNCHANGED <<reading, feeding, buf, cur, pipeline, life, deadline, output>>

\* Bug: bytes that arrive while a request is in flight go to the parser.
BugMustKeep == FALSE

\* A request is in flight: keep the bytes for finish_cycle(), up to a limit.
MustKeep == in_flight \/ parser = "paused"

ReadAhead(n) ==
  /\ ~WebSocketMode /\ MustKeep
  /\ IF Len(pending_buf) + n > MaxPending
     THEN /\ Abort
          /\ ToLoop
          /\ UNCHANGED <<stray, pipeline, cur>>
     ELSE /\ pending_buf' = pending_buf \o Taken(n)
          /\ pc' = "read"
          /\ UNCHANGED <<reading, feeding, buf, cur, parser, in_flight, cycle_pending,
                         current, life, deadline, output>>

ReadRequest(n) ==
  /\ ~WebSocketMode /\ ~MustKeep
  /\ feeding' = "read"
  /\ buf' = Taken(n)
  /\ pc' = "feed"
  /\ UNCHANGED <<reading, cur, pipeline, life, deadline, output>>

Read ==
  /\ pc = "read"
  /\ \E n \in 1..Len(net) :
       /\ Take(n)
       /\ ReadFrames(n) \/ ReadAhead(n) \/ ReadRequest(n)
  /\ UNCHANGED <<load, script, sent, eof>>

-----------------------------------------------------------------------------
(* parser_.feed() and what its two callers do when it returns.             *)

\* The parser takes a unit that does not complete a message.
FeedPart ==
  /\ pc = "feed"
  /\ buf # <<>> /\ ~Completes(Head(buf))
  /\ buf' = Tail(buf)
  /\ UNCHANGED <<client, pc, reading, feeding, cur, pipeline, life, deadline, output>>

\* The parser rejects the message: 400 or 413.
FeedError ==
  /\ pc = "feed"
  /\ buf # <<>> /\ Completes(Head(buf)) /\ ~script[RequestOf(Head(buf))].valid
  /\ parser' = "error"
  /\ Abort
  /\ ToLoop
  /\ UNCHANGED <<client, stray, cur, pending_buf, in_flight, cycle_pending, current>>

\* on_message_complete() calls dispatch(): a fresh token, the timers, and the
\* handler up to its first suspension.  A stream writes its head at once.
Dispatch ==
  /\ pc = "feed"
  /\ buf # <<>> /\ Completes(Head(buf)) /\ script[RequestOf(Head(buf))].valid
  /\ LET r == RequestOf(Head(buf))
         s == script[r]
     IN  /\ current' = r
         /\ IF s.await = "none"
            THEN pc' = "respond" /\ cur' = r /\ UNCHANGED hstate
            ELSE pc' = "pause" /\ hstate' = [hstate EXCEPT ![r] = s.await] /\ UNCHANGED cur
         /\ begun' = IF s.out \in {"sse", "ws"} THEN Append(begun, r) ELSE begun
  /\ in_flight' = TRUE
  /\ HeaderToRequestTimer
  /\ buf' = Tail(buf)
  /\ UNCHANGED <<client, reading, feeding, parser, pending_buf, cycle_pending, closed,
                 keep_alive, write_buf, file_fd, epoll, ended>>

\* Bug: the descriptor stays registered for EPOLLOUT.
BugRearm == ArmHeader /\ UNCHANGED epoll

\* What finish_cycle() does last: the next request has a deadline, and is read.
\* On a connection closed meanwhile, modify() finds no descriptor to change.
Rearm ==
  /\ ArmHeader
  /\ epoll' = IF closed THEN epoll ELSE "in"

\* finish_cycle() returns to do_read(), which goes on reading, or to an event
\* that is over.
AfterCycle ==
  /\ feeding' = "no" /\ buf' = <<>>
  /\ IF reading /\ ~closed THEN pc' = "read" /\ UNCHANGED reading
                           ELSE pc' = "loop" /\ reading' = FALSE

\* feed() has returned to do_read().  rest is what the paused parser left.
ReadFed(rest) ==
  IF Len(rest) > MaxPending
  THEN /\ Abort
       /\ ToLoop
       /\ UNCHANGED <<stray, pending_buf, in_flight, cycle_pending>>
  ELSE /\ pending_buf' = pending_buf \o rest
       /\ feeding' = "no" /\ buf' = <<>>
       /\ cycle_pending' = FALSE
       /\ IF cycle_pending THEN pc' = "cycle" /\ UNCHANGED reading
          ELSE IF closed THEN pc' = "loop" /\ reading' = FALSE
          ELSE pc' = "read" /\ UNCHANGED reading
       /\ UNCHANGED <<in_flight, life, deadline, output>>

\* feed() has returned to finish_cycle().
ReplayFed(rest) ==
  IF Len(rest) > MaxPending
  THEN /\ Abort
       /\ ToLoop
       /\ UNCHANGED <<stray, pending_buf, in_flight, cycle_pending>>
  ELSE /\ pending_buf' = rest
       /\ AfterCycle
       /\ IF in_flight THEN UNCHANGED <<deadline, epoll>> ELSE Rearm
       /\ UNCHANGED <<in_flight, cycle_pending, life, keep_alive, write_buf, file_fd,
                      begun, ended>>

\* Bug: do_read() forgets the bytes the paused parser has not consumed.
BugFed(rest) == IF feeding = "read" THEN ReadFed(<<>>) ELSE ReplayFed(rest)

Fed(rest) == IF feeding = "read" THEN ReadFed(rest) ELSE ReplayFed(rest)

\* The callback returned HPE_PAUSED: the pause exists from here on.
FeedPaused ==
  /\ pc = "pause"
  /\ parser' = "paused"
  /\ Fed(buf)
  /\ UNCHANGED <<client, cur, current>>

\* The parser took every byte and the message is not complete.
FeedDrained ==
  /\ pc = "feed" /\ buf = <<>>
  /\ Fed(<<>>)
  /\ UNCHANGED <<client, cur, parser, current>>

-----------------------------------------------------------------------------
(* The handler ends: finish_dispatch(), send_response().                   *)

\* The awaited timer, message or query result arrives on the loop.
HandlerResumes ==
  /\ pc = "loop"
  /\ \E i \in Ids :
       /\ hstate[i] \in {"sleep", "db"}
       /\ hstate' = [hstate EXCEPT ![i] = "done"]
       /\ cur' = i
  /\ pc' = "respond"
  /\ UNCHANGED <<client, reading, feeding, buf, pipeline, closed, deadline, output>>

\* A stream already wrote its answer: the connection closes when it ends.
EndStream ==
  /\ script[cur].out \in {"sse", "ws"}
  /\ keep_alive' = FALSE
  /\ ended' = IF closed THEN ended ELSE Append(ended, cur)
  /\ IF closed THEN UNCHANGED <<life, header_tfd, timeout_tfd, file_fd, epoll>> ELSE Close
  /\ Unwind
  /\ UNCHANGED <<stray, write_buf, begun>>

\* Bug: send_response() does not look at closed_.
BugSendResponse ==
  /\ script[cur].out \in {"body", "file"}
  /\ keep_alive' = script[cur].keep
  /\ file_fd' = IF script[cur].out = "file" THEN cur ELSE file_fd
  /\ pc' = "write"
  /\ begun' = Append(begun, cur)
  /\ UNCHANGED <<reading, feeding, buf, life, deadline, write_buf, epoll, ended>>

\* The file is opened even on a closed connection; if that fails the answer is a
\* 500 without keep-alive.  send_response() does nothing on a closed connection,
\* and closes one whose answer exceeds kMaxResponseBytes.
SendResponse ==
  /\ script[cur].out \in {"body", "file"}
  /\ \/ /\ keep_alive' = script[cur].keep
        /\ file_fd' = IF script[cur].out = "file" THEN cur ELSE file_fd
     \/ /\ script[cur].out = "file"
        /\ keep_alive' = FALSE
        /\ UNCHANGED file_fd
  /\ IF closed
     THEN Unwind /\ UNCHANGED begun
     ELSE /\ pc' = "write"
          /\ begun' = Append(begun, cur)
          /\ UNCHANGED <<reading, feeding, buf>>
  /\ UNCHANGED <<life, deadline, write_buf, epoll, ended>>

ResponseTooLarge ==
  /\ script[cur].out = "body" /\ ~closed
  /\ Close /\ keep_alive' = FALSE
  /\ Unwind
  /\ UNCHANGED <<stray, write_buf, begun, ended>>

FinishDispatch ==
  /\ pc = "respond"
  /\ EndStream \/ SendResponse \/ ResponseTooLarge
  /\ UNCHANGED <<client, cur, pipeline>>

-----------------------------------------------------------------------------
(* The write path.                                                         *)

\* Bug: the response is looked up after write_buf_ was cleared.
BugDelivered(i) == ended' = Append(ended, write_buf)

\* All of the response is in the socket.
Delivered(i) == ended' = Append(ended, i)

\* write() takes everything: on to the file, if there is one.
WriteAll ==
  /\ pc = "write"
  /\ IF file_fd # 0 THEN pc' = "sendfile" /\ UNCHANGED ended
                    ELSE pc' = "written" /\ Delivered(cur)
  /\ UNCHANGED <<client, reading, feeding, buf, cur, pipeline, life, deadline,
                 keep_alive, write_buf, file_fd, epoll, begun>>

\* write() takes part of it, or EAGAIN: the rest goes to write_buf_.
WritePart ==
  /\ pc = "write" /\ load.backpressure
  /\ write_buf' = cur
  /\ epoll' = "out"
  /\ Unwind
  /\ UNCHANGED <<client, cur, pipeline, life, deadline, keep_alive, file_fd, begun, ended>>

\* EPOLLOUT, level-triggered: reported as soon as the socket takes bytes.
\* do_write() sends what write_buf_ holds; what follows does not ask if it held
\* anything.
Writable ==
  /\ pc = "loop" /\ ~closed
  /\ epoll = "out"
  /\ write_buf' = 0
  /\ IF file_fd # 0 THEN pc' = "sendfile" /\ UNCHANGED ended
     ELSE /\ pc' = "written"
          /\ IF write_buf # 0 THEN Delivered(write_buf) ELSE UNCHANGED ended
  /\ UNCHANGED <<client, reading, feeding, buf, cur, pipeline, life, deadline,
                 keep_alive, file_fd, epoll, begun>>

\* Bug: the file is not closed after it has been sent.
BugSendfileAll ==
  /\ pc = "sendfile"
  /\ Delivered(file_fd)
  /\ pc' = "written"
  /\ UNCHANGED <<client, reading, feeding, buf, cur, pipeline, life, deadline,
                 keep_alive, write_buf, file_fd, epoll, begun>>

\* sendfile() sends the rest of the file.
SendfileAll ==
  /\ pc = "sendfile"
  /\ Delivered(file_fd)
  /\ file_fd' = 0
  /\ pc' = "written"
  /\ UNCHANGED <<client, reading, feeding, buf, cur, pipeline, life, deadline,
                 keep_alive, write_buf, epoll, begun>>

\* sendfile() fills the socket buffer: EAGAIN.
SendfilePart ==
  /\ pc = "sendfile" /\ load.backpressure
  /\ epoll' = "out"
  /\ Unwind
  /\ UNCHANGED <<client, cur, pipeline, life, deadline, keep_alive, write_buf, file_fd,
                 begun, ended>>

\* The peer is gone: write() or sendfile() fails.
WriteError ==
  /\ pc \in {"write", "sendfile"}
  /\ CloseOnly
  /\ Unwind
  /\ UNCHANGED <<client, cur, pipeline>>

\* Bug: the end of the cycle is never deferred.
BugInParser == FALSE

\* in_parser_, which only do_read() sets.
InParser == feeding = "read"

\* on_write_complete().  Inside do_read()'s feed() the parser is not paused yet,
\* so the end of the cycle waits until feed() returns.
WriteComplete ==
  /\ pc = "written"
  /\ in_flight' = FALSE
  /\ \/ /\ ~keep_alive
        /\ CloseOnly
        /\ Unwind
        /\ UNCHANGED cycle_pending
     \/ /\ keep_alive
        /\ timeout_tfd' = FALSE
        /\ IF InParser
           THEN cycle_pending' = TRUE /\ pc' = "pause"
           ELSE pc' = "cycle" /\ UNCHANGED cycle_pending
        /\ UNCHANGED <<reading, feeding, buf, header_tfd, stray, life, output>>
  /\ UNCHANGED <<client, cur, parser, pending_buf, current>>

\* finish_cycle(): resume the parser and replay what arrived meanwhile.
FinishCycle ==
  /\ pc = "cycle"
  /\ parser' = IF parser = "paused" THEN "ready" ELSE parser
  /\ IF pending_buf # <<>>
     THEN /\ buf' = pending_buf
          /\ pending_buf' = <<>>
          /\ feeding' = "replay"
          /\ pc' = "feed"
          /\ UNCHANGED <<reading, deadline, epoll>>
     ELSE /\ Rearm
          /\ IF feeding = "no" THEN AfterCycle
                               ELSE pc' = "pause" /\ UNCHANGED <<reading, feeding, buf>>
          /\ UNCHANGED pending_buf
  /\ UNCHANGED <<client, cur, in_flight, cycle_pending, current, life, keep_alive,
                 write_buf, file_fd, begun, ended>>

-----------------------------------------------------------------------------
ReadPath    == Readable \/ ReadNothing \/ ReadEnd \/ Read
FeedPath    == FeedPart \/ FeedError \/ Dispatch \/ FeedPaused \/ FeedDrained
WritePath   == WriteAll \/ WritePart \/ Writable \/ SendfileAll \/ SendfilePart
               \/ WriteError \/ WriteComplete \/ FinishCycle
Timeouts    == HeaderTimeout \/ LateHeaderTimeout \/ RequestTimeout
Environment == ClientSends \/ ClientShutsDown \/ HangUp \/ HandlerResumes

Next == Environment \/ Timeouts \/ ReadPath \/ FeedPath \/ FinishDispatch \/ WritePath

Spec == Init /\ [][Next]_vars

(***************************************************************************)
(* The loop runs the callback it has started to its end, and epoll_wait    *)
(* keeps reporting a descriptor that stays readable.                       *)
(***************************************************************************)
Callback == pc # "loop" /\ Next

FairSpec == Spec /\ WF_vars(Callback) /\ WF_vars(Readable)

\* A timerfd that has expired stays readable too, whatever callbacks run meanwhile.
TimersExpire == SF_vars(HeaderTimeout) /\ SF_vars(RequestTimeout)

\* Handlers end, and the client reads what it is sent.
EveryoneKeepsUp == WF_vars(HandlerResumes) /\ WF_vars(Writable) /\ SF_vars(SendfileAll)

-----------------------------------------------------------------------------
(* Properties.                                                             *)

Streams       == Seq(Units)
Responses     == Seq(Ids)
HandlerStates == [Ids -> {"none", "sleep", "db", "done"}]

FlagsOK ==
  /\ eof \in BOOLEAN /\ reading \in BOOLEAN /\ closed \in BOOLEAN
  /\ in_flight \in BOOLEAN /\ cycle_pending \in BOOLEAN /\ keep_alive \in BOOLEAN
  /\ header_tfd \in BOOLEAN /\ timeout_tfd \in BOOLEAN

DataOK ==
  /\ load \in Workloads /\ script \in [Ids -> load.shapes]
  /\ sent \in 0..2 * Requests /\ net \in Streams
  /\ pc \in {"loop", "read", "feed", "pause", "respond", "write", "sendfile", "written",
             "cycle"}
  /\ feeding \in {"no", "read", "replay"}
  /\ buf \in Streams /\ cur \in 0..Requests
  /\ parser \in {"ready", "paused", "error"} /\ pending_buf \in Streams
  /\ current \in 0..Requests
  /\ hstate \in HandlerStates
  /\ stray \in Nat
  /\ write_buf \in 0..Requests /\ file_fd \in 0..Requests
  /\ epoll \in {"in", "out", "off"}
  /\ begun \in Responses /\ ended \in Responses

\* Every variable keeps the range its member has in HttpConnection.
TypeOK == FlagsOK /\ DataOK

Suspended(i) == hstate[i] \in {"sleep", "db"}

Ordered(s) == \A k \in 1..Len(s) : s[k] = k

\* The client reads the responses in the order of its requests, each one whole
\* before the next one begins: what in_flight_, the paused parser and pending_buf_
\* are for.
ResponsesInOrder ==
  /\ Ordered(begun) /\ Ordered(ended)
  /\ Len(begun) - Len(ended) \in {0, 1}

\* "While a request's response is being produced and written, no second dispatch
\* may run on the same connection" (http_connection.hpp:47): a handler that is
\* suspended on an open connection is the one in flight.
OneDispatchAtATime ==
  ~closed => \A i \in Ids : Suspended(i) => i = current /\ in_flight

\* Between two events an open connection has exactly one deadline running: the
\* request timer while a request is in flight, else the header timer.  A closed one
\* has none.
OneDeadline ==
  pc = "loop" =>
    /\ stray = 0
    /\ timeout_tfd = (in_flight /\ ~closed)
    /\ header_tfd = (~in_flight /\ ~closed)

\* Between two events an idle connection can read: the parser is not left paused
\* and holds no request back (what in_parser_ and cycle_pending_ are for,
\* http_connection.hpp:58).
NotStuckPaused ==
  pc = "loop" /\ ~closed /\ ~in_flight => parser = "ready" /\ pending_buf = <<>>

\* s is what the client's stream holds just before its unit number end + 1.
Segment(s, end) == \A k \in 1..Len(s) : s[k] = end - Len(s) + k

\* Reading ahead loses, repeats and reorders nothing: what the parser, pending_buf_
\* and the socket hold, in this order, is the rest of the client's stream, all of it
\* when a request is in flight (a WebSocket takes bytes for its frames).
NoByteLost ==
  LET unread == sent - Len(net)
      rest   == Len(buf) + Len(pending_buf) + Len(net)
  IN  ~closed /\ (current > 0 => script[current].out # "ws") =>
        /\ Segment(net, sent)
        /\ Segment(pending_buf, unread)
        /\ Segment(buf, unread - Len(pending_buf))
        /\ in_flight => rest = sent - 2 * current

\* Between two events an open connection waits for EPOLLOUT exactly while some of a
\* response is left to send, and for EPOLLIN otherwise.
WaitsForTheRightEvent ==
  pc = "loop" /\ ~closed =>
    epoll = IF write_buf # 0 \/ file_fd # 0 THEN "out" ELSE "in"

\* What is left to send belongs to the request in flight, the last one begun.
OutputIsCurrent ==
  ~closed => \A i \in {write_buf, file_fd} \ {0} :
               i = current /\ in_flight /\ \A k \in 1..Len(ended) : ended[k] # i

\* Every request is answered, or the connection is closed, without any timer having to
\* fire: no event of the pipeline is left unarmed and no buffered byte forgotten.
EveryRequestAnswered ==
  EveryoneKeepsUp => \A i \in Ids : (sent >= 2 * i) ~> (closed \/ Answered(i))

\* What the connection promises its client, see Exchange.
Promise == INSTANCE Exchange WITH open <- ~closed, asked <- current

Implements == Promise!Spec

\* Whatever handlers and client do, a timer in the end closes the connection: none
\* holds it after the client has sent its last request (start() and finish_cycle()
\* arm one timer, dispatch() the other).
Reaped == TimersExpire => <>closed

=============================================================================
