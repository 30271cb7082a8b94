------------------------ MODULE HttpConnectionProofs ------------------------
(***************************************************************************)
(* Proofs about HttpConnection: for any number of requests, any limit of   *)
(* pending_buf_ and any workload that does not combine pipelining with a   *)
(* socket that fills up, a connection runs one dispatch at a time and      *)
(* answers in order, and read-ahead loses nothing.                         *)
(***************************************************************************)
EXTENDS HttpConnection, SequenceTheorems, TLAPS

\* The hypothesis of the theorems, and what it means for one behaviour.
Orderly == \A w \in Workloads : ~(w.pipelining /\ w.backpressure)

Uncongested == ~(load.pipelining /\ load.backpressure)

Stream(i) == script[i].out \in {"sse", "ws"}

Producing == pc \in {"write", "sendfile", "written"}
Waiting   == pc \in {"loop", "read", "pause"}

(***************************************************************************)
(* The inductive invariant.  Frames: where the callback can be, given the  *)
(* calls on the stack.                                                     *)
(***************************************************************************)
Frames ==
  /\ pc \in {"loop", "read"} => feeding = "no"
  /\ pc \in {"feed", "pause"} => feeding # "no"
  /\ feeding = "no" => buf = <<>>
  /\ feeding # "no" => pending_buf = <<>>
  /\ closed => pc \in {"loop", "pause", "respond"}
  /\ pc \in {"feed", "cycle"} => ~in_flight
  /\ pc = "respond" => cur \in Ids
  /\ pc = "respond" /\ ~closed => in_flight /\ cur = current
  /\ Producing => in_flight
  /\ pc = "write" => cur = current
  /\ pc = "cycle" => feeding # "read"
  /\ cycle_pending => IF closed THEN feeding = "no"
                                ELSE pc = "pause" /\ feeding = "read" /\ ~in_flight

\* The output that waits is that of the request in flight, and EPOLLOUT is armed for it.
Output ==
  /\ Producing => write_buf = 0 /\ ~Stream(current)
  /\ pc = "sendfile" => file_fd # 0
  /\ pc = "written" => file_fd = 0
  /\ Producing /\ feeding # "no" => epoll # "out"
  /\ ~closed =>
       /\ epoll # "off"
       /\ write_buf \in {0, current} /\ file_fd \in {0, current}
       /\ ~in_flight \/ pc = "respond" => write_buf = 0 /\ file_fd = 0
       /\ Waiting => (epoll = "out") = (write_buf # 0 \/ file_fd # 0)
       /\ pc \in {"feed", "respond", "write"} => epoll # "out"
       /\ epoll = "out" => load.backpressure /\ pending_buf = <<>>

\* The handler that is suspended is that of the request in flight, and a stream stays
\* in flight until it closes the connection.
Handlers ==
  ~closed =>
    /\ \A i \in Ids : Suspended(i) => i = current /\ in_flight /\ Waiting /\ epoll # "out"
    /\ current > 0 /\ Stream(current)
         => in_flight /\ pc \in {"loop", "read", "pause", "respond"} /\ epoll # "out"

\* How far the two response sequences are.
Counts ==
  ~closed =>
    /\ ~in_flight => Len(begun) = current /\ Len(ended) = current
    /\ in_flight =>
         /\ current > 0
         /\ Len(ended) = IF pc = "written" THEN current ELSE current - 1
         /\ Len(begun) = IF Stream(current) \/ Producing \/ epoll = "out" THEN current
                                                                      ELSE current - 1

\* Where the unread part of the stream starts: after the request in flight, or at most
\* in the middle of the next one.
Bytes ==
  LET rest == Len(buf) + Len(pending_buf) + Len(net)
  IN  /\ NoByteLost
      /\ ~closed /\ ~in_flight => rest \in {sent - 2 * current, sent - 2 * current - 1}
      /\ ~closed /\ pending_buf # <<>> => in_flight \/ parser = "paused" \/ pc = "cycle"

\* A client that does not pipeline is at most one request ahead of the answers.
Lockstep == ~load.pipelining => sent <= 2 * Len(ended) + 2

\* DataOK is not inductive: the response being produced must have an owner.
DataInv == /\ DataOK
           /\ pc \in {"respond", "write"} => cur \in Ids
           /\ pc = "sendfile" => file_fd # 0

OrderInv == /\ Uncongested /\ Frames /\ Output /\ Handlers /\ Counts /\ Bytes /\ Lockstep
            /\ ResponsesInOrder

-----------------------------------------------------------------------------
(* Type correctness, for every workload.                                   *)

\* The unit after the last one is a unit, and a unit belongs to a request.
LEMMA UnitTypes ==
  /\ \A n \in Nat : n < 2 * Requests => n + 1 \in Units
  /\ \A u \in Units : RequestOf(u) \in Ids
BY ConnectionAssumption DEF Units, Ids, RequestOf

\* What the operations on sequences do to the streams and to the responses.
LEMMA SequenceTypes ==
  /\ <<>> \in Streams /\ <<>> \in Responses
  /\ \A s \in Streams, t \in Streams : s \o t \in Streams
  /\ \A s \in Streams : \A u \in Units : Append(s, u) \in Streams
  /\ \A s \in Streams : s # <<>> => Head(s) \in Units /\ Tail(s) \in Streams
  /\ \A s \in Responses : \A i \in Ids : Append(s, i) \in Responses
BY DEF Streams, Responses

\* The owner of a response is a request.
LEMMA OwnerTypes ==
  /\ Ids \subseteq 0..Requests
  /\ \A i \in 0..Requests : i # 0 => i \in Ids
BY ConnectionAssumption DEF Ids

\* What one read() takes from the socket, and what it leaves.
LEMMA TakenTypes ==
  ASSUME NEW n \in 1..Len(net), net \in Streams
  PROVE  /\ Taken(n) \in Streams
         /\ SubSeq(net, n + 1, Len(net)) \in Streams
         /\ Len(Taken(n)) = n
         /\ Len(SubSeq(net, n + 1, Len(net))) = Len(net) - n
BY DEF Taken, Streams

\* What the handler of a request waits for.
LEMMA ShapeTypes ==
  DataOK => \A i \in Ids : /\ script[i].await \in {"none", "sleep", "db"}
                          /\ script[i].keep \in BOOLEAN
<1> SUFFICES ASSUME DataOK, NEW i \in Ids
             PROVE  script[i].await \in {"none", "sleep", "db"} /\ script[i].keep \in BOOLEAN
  OBVIOUS
<1>1. load.shapes \subseteq Shape
  BY ConnectionAssumption DEF DataOK, Workload
<1>2. script[i] \in Shape
  BY <1>1 DEF DataOK
<1> QED
  BY <1>2 DEF Shape

\* close() leaves every handler in a state of handlers.
LEMMA CloseTypes ==
  ASSUME hstate \in HandlerStates, Close
  PROVE  /\ hstate' \in HandlerStates
         /\ closed' = TRUE /\ header_tfd' = FALSE /\ timeout_tfd' = FALSE
         /\ file_fd' = 0 /\ epoll' = "off"
BY DEF HandlerStates, Close

\* As does a handler that suspends or ends.
LEMMA HandlerTypes ==
  \A i \in Ids : \A h \in {"none", "sleep", "db", "done"} :
    hstate \in HandlerStates => [hstate EXCEPT ![i] = h] \in HandlerStates
BY DEF HandlerStates

\* What follows a call of parser_.feed(), whichever caller it returns to.
LEMMA FedTypes ==
  \A rest \in Streams :
    DataOK /\ Fed(rest) =>
      /\ pending_buf' \in Streams /\ buf' = <<>> /\ buf' \in Streams
      /\ feeding' = "no" /\ pc' \in {"loop", "read", "cycle"}
      /\ hstate' \in HandlerStates /\ stray' \in Nat
      /\ file_fd' \in {0, file_fd} /\ epoll' \in {"in", "out", "off"}
      /\ UNCHANGED <<write_buf, begun, ended>>
<1> SUFFICES ASSUME NEW rest \in Streams, DataOK, Fed(rest)
             PROVE  /\ pending_buf' \in Streams /\ buf' = <<>> /\ buf' \in Streams
                    /\ feeding' = "no" /\ pc' \in {"loop", "read", "cycle"}
                    /\ hstate' \in HandlerStates /\ stray' \in Nat
                    /\ file_fd' \in {0, file_fd} /\ epoll' \in {"in", "out", "off"}
                    /\ UNCHANGED <<write_buf, begun, ended>>
  OBVIOUS
<1> USE SequenceTypes DEF DataOK, life, deadline, output
<1>1. CASE feeding = "read" /\ Len(rest) > MaxPending
  BY <1>1, CloseTypes DEF Fed, ReadFed, Abort, ToLoop
<1>2. CASE feeding = "read" /\ ~(Len(rest) > MaxPending)
  BY <1>2 DEF Fed, ReadFed
<1>3. CASE feeding # "read" /\ Len(rest) > MaxPending
  BY <1>3, CloseTypes DEF Fed, ReplayFed, Abort, ToLoop
<1>4. CASE feeding # "read" /\ ~(Len(rest) > MaxPending)
  BY <1>4 DEF Fed, ReplayFed, AfterCycle, Rearm, ArmHeader
<1> QED BY <1>1, <1>2, <1>3, <1>4

LEMMA TypeInit == Init => FlagsOK /\ DataInv
<1>1. Init => FlagsOK
  BY DEF Init, FlagsOK
<1>2. Init => DataInv
  BY ConnectionAssumption, SequenceTypes DEF Init, DataInv, DataOK, HandlerStates
<1> QED
  BY <1>1, <1>2

LEMMA DataStep == DataInv /\ [Next]_vars => DataInv'
<1> SUFFICES ASSUME DataInv, [Next]_vars PROVE DataInv'
  OBVIOUS
<1> USE ConnectionAssumption DEF DataInv, DataOK, client, control, pipeline, life, deadline,
        output
<1>1. CASE ClientSends
  BY <1>1, UnitTypes, SequenceTypes DEF ClientSends
<1>2. CASE ClientShutsDown
  BY <1>2 DEF ClientShutsDown
<1>3. CASE HangUp
  BY <1>3, CloseTypes DEF HangUp, CloseOnly
<1>4. CASE HandlerResumes
  <2> PICK i \in Ids : hstate' = [hstate EXCEPT ![i] = "done"] /\ cur' = i
    BY <1>4 DEF HandlerResumes
  <2>1. hstate' \in HandlerStates /\ cur' \in Ids /\ cur' \in 0..Requests
    BY HandlerTypes, OwnerTypes
  <2> QED BY <1>4, <2>1 DEF HandlerResumes
<1>5. CASE HeaderTimeout
  BY <1>5, CloseTypes DEF HeaderTimeout, Abort
<1>6. CASE LateHeaderTimeout
  BY <1>6 DEF LateHeaderTimeout
<1>7. CASE RequestTimeout
  BY <1>7, CloseTypes DEF RequestTimeout, Abort
<1>8. CASE Readable
  BY <1>8 DEF Readable
<1>9. CASE ReadNothing
  BY <1>9, SequenceTypes DEF ReadNothing, ToLoop
<1>10. CASE ReadEnd
  BY <1>10, CloseTypes, SequenceTypes DEF ReadEnd, ToLoop, CloseOnly
<1>11. CASE Read
  <2> PICK n \in 1..Len(net) : Take(n) /\ (ReadFrames(n) \/ ReadAhead(n) \/ ReadRequest(n))
    BY <1>11 DEF Read
  <2>1. net' \in Streams /\ Taken(n) \in Streams
    BY TakenTypes DEF Take
  <2>2. CASE ReadFrames(n)
    BY <1>11, <2>1, <2>2 DEF Read, ReadFrames
  <2>3. CASE ReadAhead(n)
    <3>1. CASE Len(pending_buf) + n > MaxPending
      BY <1>11, <2>1, <2>3, <3>1, CloseTypes, SequenceTypes DEF Read, ReadAhead, Abort, ToLoop
    <3>2. CASE ~(Len(pending_buf) + n > MaxPending)
      BY <1>11, <2>1, <2>3, <3>2, SequenceTypes DEF Read, ReadAhead
    <3> QED BY <3>1, <3>2
  <2>4. CASE ReadRequest(n)
    BY <1>11, <2>1, <2>4 DEF Read, ReadRequest
  <2> QED BY <2>2, <2>3, <2>4
<1>12. CASE FeedPart
  BY <1>12, SequenceTypes DEF FeedPart
<1>13. CASE FeedError
  BY <1>13, CloseTypes, SequenceTypes DEF FeedError, Abort, ToLoop
<1>14. CASE Dispatch
  <2> DEFINE r == RequestOf(Head(buf))
  <2>1. r \in Ids /\ r \in 0..Requests /\ Tail(buf) \in Streams
    BY <1>14, UnitTypes, SequenceTypes, OwnerTypes DEF Dispatch
  <2>2. hstate' \in HandlerStates /\ current' = r /\ cur' \in {cur, r}
    BY <1>14, <2>1, HandlerTypes, ShapeTypes DEF Dispatch
  <2>3. begun' \in Responses
    BY <1>14, <2>1, SequenceTypes DEF Dispatch
  <2>4. pc' \in {"respond", "pause"} /\ (pc' = "respond" => cur' = r)
    BY <1>14 DEF Dispatch
  <2> HIDE DEF r
  <2> QED BY <1>14, <2>1, <2>2, <2>3, <2>4 DEF Dispatch, HeaderToRequestTimer
<1>15. CASE FeedPaused
  BY <1>15, FedTypes DEF FeedPaused
<1>16. CASE FeedDrained
  BY <1>16, FedTypes, SequenceTypes DEF FeedDrained
<1>17. CASE FinishDispatch
  <2> USE <1>17 DEF FinishDispatch
  <2>1. CASE EndStream
    <3>1. ended' \in Responses /\ pc' \in {"loop", "pause"} /\ UNCHANGED <<feeding, buf>>
      BY <2>1, SequenceTypes DEF EndStream, Unwind
    <3>2. CASE closed
      BY <2>1, <3>1, <3>2 DEF EndStream
    <3>3. CASE ~closed
      BY <2>1, <3>1, <3>3, CloseTypes DEF EndStream
    <3> QED BY <3>2, <3>3
  <2>2. CASE SendResponse
    BY <2>2, SequenceTypes, OwnerTypes DEF SendResponse, Unwind
  <2>3. CASE ResponseTooLarge
    BY <2>3, CloseTypes DEF ResponseTooLarge, Unwind
  <2> QED BY <2>1, <2>2, <2>3
<1>18. CASE WriteAll
  BY <1>18, SequenceTypes DEF WriteAll, Delivered
<1>19. CASE WritePart
  BY <1>19 DEF WritePart, Unwind
<1>20. CASE Writable
  <2>0. write_buf # 0 => write_buf \in Ids
    BY OwnerTypes
  <2>1. ended' = ended \/ (write_buf # 0 /\ ended' = Append(ended, write_buf))
    BY <1>20 DEF Writable, Delivered
  <2>2. pc' \in {"sendfile", "written"} /\ (pc' = "sendfile" => file_fd # 0)
    BY <1>20 DEF Writable
  <2>3. ended' \in Responses
    BY <2>0, <2>1, SequenceTypes
  <2> QED BY <1>20, <2>2, <2>3 DEF Writable
<1>21. CASE SendfileAll
  BY <1>21, SequenceTypes, OwnerTypes DEF SendfileAll, Delivered
<1>22. CASE SendfilePart
  BY <1>22 DEF SendfilePart, Unwind
<1>23. CASE WriteError
  BY <1>23, CloseTypes DEF WriteError, CloseOnly, Unwind
<1>24. CASE WriteComplete
  <2>1. CASE keep_alive
    BY <1>24, <2>1 DEF WriteComplete
  <2>2. CASE ~keep_alive
    <3>1. Close
      BY <1>24, <2>2 DEF WriteComplete, CloseOnly
    <3>2. hstate' \in HandlerStates /\ file_fd' = 0 /\ epoll' = "off"
      BY <3>1, CloseTypes
    <3>3. pc' \in {"loop", "pause"} /\ UNCHANGED <<feeding, buf>>
      BY <1>24, <2>2 DEF WriteComplete, Unwind
    <3> QED BY <1>24, <2>2, <3>2, <3>3 DEF WriteComplete, CloseOnly
  <2> QED BY <2>1, <2>2
<1>25. CASE FinishCycle
  BY <1>25, SequenceTypes DEF FinishCycle, AfterCycle, Rearm, ArmHeader
<1>26. CASE UNCHANGED vars
  BY <1>26 DEF vars
<1> QED
  BY <1>1, <1>2, <1>3, <1>4, <1>5, <1>6, <1>7, <1>8, <1>9, <1>10, <1>11, <1>12, <1>13,
     <1>14, <1>15, <1>16, <1>17, <1>18, <1>19, <1>20, <1>21, <1>22, <1>23, <1>24, <1>25,
     <1>26 DEF Next, Environment, Timeouts, ReadPath, FeedPath, WritePath

LEMMA FlagsStep == FlagsOK /\ DataInv /\ [Next]_vars => FlagsOK'
<1> SUFFICES ASSUME FlagsOK, DataInv, [Next]_vars PROVE FlagsOK'
  OBVIOUS
<1> USE DEF FlagsOK, client, control, pipeline, life, deadline, output
<1>1. CASE Environment
  BY <1>1 DEF Environment, ClientSends, ClientShutsDown, HangUp, HandlerResumes, CloseOnly,
              Close
<1>2. CASE Timeouts
  BY <1>2 DEF Timeouts, HeaderTimeout, LateHeaderTimeout, RequestTimeout, Abort, Close
<1>3. CASE ReadPath
  <2>1. CASE Readable \/ ReadNothing \/ ReadEnd
    BY <2>1 DEF Readable, ReadNothing, ReadEnd, CloseOnly, Close, ToLoop
  <2>2. CASE Read
    <3> PICK n \in 1..Len(net) : ReadFrames(n) \/ ReadAhead(n) \/ ReadRequest(n)
      BY <2>2 DEF Read
    <3>1. CASE ReadFrames(n) \/ ReadRequest(n)
      BY <2>2, <3>1 DEF Read, ReadFrames, ReadRequest
    <3>2. CASE ReadAhead(n)
      BY <2>2, <3>2 DEF Read, ReadAhead, Abort, Close, ToLoop
    <3> QED BY <3>1, <3>2
  <2> QED BY <1>3, <2>1, <2>2 DEF ReadPath
<1>4. CASE FeedPath
  BY <1>4 DEF FeedPath, FeedPart, FeedError, Dispatch, FeedPaused, FeedDrained, Fed,
              ReadFed, ReplayFed, AfterCycle, Rearm, ArmHeader, HeaderToRequestTimer, Abort,
              Close, ToLoop
<1>5. CASE FinishDispatch
  <2>1. CASE EndStream
    BY <1>5, <2>1 DEF FinishDispatch, EndStream, Close, Unwind
  <2>2. CASE SendResponse
    <3>1. script[cur].keep \in BOOLEAN
      BY <1>5, ShapeTypes DEF FinishDispatch, DataInv
    <3> QED BY <1>5, <2>2, <3>1 DEF FinishDispatch, SendResponse, Unwind
  <2>3. CASE ResponseTooLarge
    BY <1>5, <2>3 DEF FinishDispatch, ResponseTooLarge, Close, Unwind
  <2> QED BY <1>5, <2>1, <2>2, <2>3 DEF FinishDispatch
<1>6. CASE WritePath
  BY <1>6 DEF WritePath, WriteAll, WritePart, Writable, SendfileAll, SendfilePart,
              WriteError, WriteComplete, FinishCycle, AfterCycle, Rearm, ArmHeader,
              CloseOnly, Close, Unwind
<1>7. CASE UNCHANGED vars
  BY <1>7 DEF vars
<1> QED
  BY <1>1, <1>2, <1>3, <1>4, <1>5, <1>6, <1>7 DEF Next

\* Every variable keeps the range its member has in HttpConnection, whatever the
\* workload: no step of the connection takes one out of it.
THEOREM TypeCorrect == Spec => []TypeOK
<1>1. FlagsOK /\ DataInv => TypeOK
  BY DEF DataInv, TypeOK
<1> QED
  BY <1>1, TypeInit, DataStep, FlagsStep, PTL DEF Spec

-----------------------------------------------------------------------------
(* Order: one dispatch at a time, responses in the order of the requests.  *)

LEMMA Lengths ==
  /\ \A s \in Streams : Len(s) \in Nat /\ (Len(s) = 0 <=> s = <<>>)
  /\ \A s \in Streams : s # <<>> => Len(Tail(s)) = Len(s) - 1
  /\ \A s \in Streams, t \in Streams : Len(s \o t) = Len(s) + Len(t)
  /\ \A s \in Streams : \A u \in Units : Len(Append(s, u)) = Len(s) + 1
  /\ Len(<<>>) = 0
BY DEF Streams

\* A response appended in its turn keeps the order.
LEMMA InTurn ==
  /\ Ordered(<<>>)
  /\ \A s \in Responses : Len(s) \in Nat
  /\ \A s \in Responses : \A i \in Ids :
       /\ Len(Append(s, i)) = Len(s) + 1
       /\ Ordered(s) /\ i = Len(s) + 1 => Ordered(Append(s, i))
BY DEF Responses, Ordered, Ids

LEMMA SegmentEmpty == \A e \in Int : Segment(<<>>, e)
BY DEF Segment

LEMMA SegmentAppend ==
  \A s \in Streams : \A e \in Int :
    e + 1 \in Units /\ Segment(s, e) => Segment(Append(s, e + 1), e + 1)
BY DEF Segment, Streams

LEMMA SegmentTail ==
  \A s \in Streams : \A e \in Int :
    s # <<>> /\ Segment(s, e) => Segment(Tail(s), e) /\ Head(s) = e - Len(s) + 1
BY DEF Segment, Streams

LEMMA SegmentConcat ==
  \A s \in Streams, t \in Streams : \A e \in Int :
    Segment(s, e - Len(t)) /\ Segment(t, e) => Segment(s \o t, e)
<1> SUFFICES ASSUME NEW s \in Streams, NEW t \in Streams, NEW e \in Int,
                    Segment(s, e - Len(t)), Segment(t, e), NEW k \in 1..Len(s \o t)
             PROVE  (s \o t)[k] = e - Len(s \o t) + k
  BY DEF Segment
<1>1. Len(s \o t) = Len(s) + Len(t) /\ Len(s) \in Nat /\ Len(t) \in Nat
  BY DEF Streams
<1>2. CASE k \in 1..Len(s)
  <2>1. (s \o t)[k] = s[k] /\ s[k] = e - Len(t) - Len(s) + k
    BY <1>2 DEF Segment, Streams
  <2> QED BY <1>1, <2>1
<1>3. CASE k \notin 1..Len(s)
  <2>1. k - Len(s) \in 1..Len(t)
    BY <1>1, <1>3
  <2>2. (s \o t)[k] = t[k - Len(s)]
    BY <1>1, <1>3 DEF Streams
  <2>3. t[k - Len(s)] = e - Len(t) + (k - Len(s))
    BY <2>1 DEF Segment
  <2> QED BY <1>1, <2>2, <2>3
<1> QED BY <1>2, <1>3

LEMMA SegmentSplit ==
  ASSUME NEW n \in 1..Len(net), NEW e \in Int, net \in Streams, Segment(net, e)
  PROVE  /\ Segment(Taken(n), e - (Len(net) - n))
         /\ Segment(SubSeq(net, n + 1, Len(net)), e)
<1> DEFINE left == SubSeq(net, n + 1, Len(net))
<1>1. Len(Taken(n)) = n /\ Len(left) = Len(net) - n /\ Len(net) \in Nat
  BY TakenTypes DEF Streams
<1>2. \A k \in 1..n : Taken(n)[k] = net[k]
  BY DEF Taken, Streams
<1>3. \A k \in 1..Len(net) - (n + 1) + 1 : left[k] = net[n + 1 + k - 1]
  <2>1. n + 1 \in Int /\ Len(net) \in Int /\ \A i \in n + 1..Len(net) : net[i] \in Units
    BY <1>1 DEF Streams
  <2> QED BY ONLY <2>1, SubSeqProperties
<1>4. ASSUME NEW k \in 1..Len(net) - n
      PROVE  left[k] = e - (Len(net) - n) + k
  <2>1. left[k] = net[n + k] /\ n + k \in 1..Len(net)
    BY <1>1, <1>3
  <2> QED BY <1>1, <2>1 DEF Segment
<1>5. ASSUME NEW k \in 1..n
      PROVE  Taken(n)[k] = e - (Len(net) - n) - n + k
  BY <1>1, <1>2 DEF Segment
<1> HIDE DEF left
<1>6. Segment(Taken(n), e - (Len(net) - n)) /\ Segment(left, e)
  BY <1>1, <1>4, <1>5 DEF Segment
<1> QED
  BY <1>6 DEF left

\* No step changes what the behaviour is about.
LEMMA SameWorkload == [Next]_vars => load' = load /\ script' = script
BY DEF Next, Environment, Timeouts, ReadPath, FeedPath, FinishDispatch, WritePath, vars,
       client, ClientSends, ClientShutsDown, HangUp, HandlerResumes, HeaderTimeout,
       LateHeaderTimeout, RequestTimeout, Readable, ReadNothing, ReadEnd, Read, FeedPart,
       FeedError, Dispatch, FeedPaused, FeedDrained, WriteAll, WritePart, Writable,
       SendfileAll, SendfilePart, WriteError, WriteComplete, FinishCycle

\* On a closed connection most of the invariant is vacuous.
LEMMA Closing ==
  ASSUME OrderInv, closed', pc' \in {"loop", "pause", "respond"},
         load' = load, script' = script, sent' = sent, begun' = begun, ended' = ended,
         Frames'
  PROVE  OrderInv'
BY DEF OrderInv, Uncongested, Output, Handlers, Counts, Bytes, NoByteLost, Lockstep,
       ResponsesInOrder, Producing

\* A step that leaves the connection as it is: the client or a timer moves.
LEMMA Quiet ==
  ASSUME OrderInv, UNCHANGED <<load, script, sent, net, control, pipeline, life, output>>
  PROVE  OrderInv'
BY DEF OrderInv, Uncongested, Frames, Output, Handlers, Counts, Bytes, NoByteLost, Lockstep,
       ResponsesInOrder, Producing, Waiting, Stream, Suspended, Ordered, Segment,
       control, pipeline, life, output

\* The response in flight is delivered.
LEMMA Delivering ==
  ASSUME DataInv, OrderInv, current \in Ids, Len(begun) = current, Len(ended) = current - 1,
         begun' = begun, ended' = Append(ended, current)
  PROVE  Len(ended') = current /\ Len(ended) <= Len(ended') /\ ResponsesInOrder'
<1>1. current \in Nat /\ ended \in Responses
  BY ConnectionAssumption DEF DataInv, DataOK
<1>2. Len(ended') = current /\ Len(ended) <= Len(ended')
  BY <1>1, InTurn
<1>3. Ordered(begun) /\ Ordered(ended')
  BY <1>1, InTurn DEF OrderInv, ResponsesInOrder
<1>4. Len(begun') - Len(ended') = 0
  BY <1>1, <1>2
<1> QED BY <1>2, <1>3, <1>4 DEF ResponsesInOrder

\* A client that does not pipeline has sent nothing behind the request in flight.
LEMMA NothingAhead ==
  ASSUME DataInv, OrderInv, ~closed, in_flight, load.backpressure, ~Stream(current),
         current > 0, Len(ended) = current - 1
  PROVE  buf = <<>> /\ pending_buf = <<>>
<1>1. /\ sent \in Nat /\ current \in Nat
      /\ Len(buf) \in Nat /\ Len(pending_buf) \in Nat /\ Len(net) \in Nat
  BY Lengths, ConnectionAssumption DEF DataInv, DataOK
<1>2. sent <= 2 * current
  BY <1>1 DEF OrderInv, Uncongested, Lockstep
<1>3. Len(buf) + Len(pending_buf) + Len(net) = sent - 2 * current
  BY DEF OrderInv, Bytes, NoByteLost, Stream
<1>4. Len(buf) = 0 /\ Len(pending_buf) = 0
  BY <1>1, <1>2, <1>3
<1> QED BY <1>4, Lengths DEF DataInv, DataOK

\* feed() returns to its caller: what it has not consumed waits in pending_buf_.
LEMMA FeedReturns ==
  ASSUME DataInv, DataInv', OrderInv, ~closed, feeding # "no", pc \in {"feed", "pause"},
         UNCHANGED <<client, in_flight, current, life, write_buf, file_fd, begun, ended>>,
         pending_buf' = buf, buf' = <<>>, feeding' = "no", ~cycle_pending',
         pc' \in {"loop", "read", "cycle"}, pc' = "cycle" => ~in_flight,
         epoll' = epoll \/ (~in_flight /\ epoll' = "in"),
         buf = <<>> \/ parser' = "paused"
  PROVE  OrderInv'
<1> USE DEF client, life
<1>n. /\ sent \in Nat /\ current \in Nat
      /\ Len(buf) \in Nat /\ Len(net) \in Nat /\ Len(ended) \in Nat
  BY Lengths, InTurn, ConnectionAssumption DEF DataInv, DataOK
<1>0. pending_buf = <<>> /\ Len(pending_buf) = 0 /\ Len(buf') = 0
  BY Lengths DEF OrderInv, Frames
<1>1. epoll = "out" => buf = <<>>
  <2>1. epoll = "out" => in_flight /\ ~load.pipelining /\ Len(ended) = current - 1
          /\ current > 0 /\ ~Stream(current) /\ pc = "pause"
    BY DEF OrderInv, Output, Counts, Waiting, Uncongested, Handlers
  <2> QED BY <2>1, NothingAhead DEF OrderInv, Output
<1>2. Frames'
  BY DEF OrderInv, Frames, Producing
<1>3. Output'
  BY <1>1 DEF OrderInv, Frames, Output, Producing, Waiting, Stream
<1>4. Handlers'
  BY DEF OrderInv, Frames, Handlers, Waiting, Stream, Suspended
<1>5. Counts'
  BY DEF OrderInv, Frames, Output, Counts, Producing, Stream
<1>6. Bytes'
  <2>1. sent - Len(net) \in Int /\ sent - Len(net) - 0 = sent - Len(net)
    BY <1>n
  <2>2. sent - Len(net) - Len(buf) \in Int
    BY <1>n
  <2>3. Segment(buf', sent - Len(net) - Len(buf))
    BY <2>2, SegmentEmpty
  <2>4. Len(buf') + Len(pending_buf') + Len(net') = Len(buf) + Len(pending_buf) + Len(net)
    BY <1>n, <1>0
  <2>5. NoByteLost'
    BY <1>0, <2>1, <2>3, <2>4 DEF OrderInv, Bytes, NoByteLost
  <2> QED BY <2>4, <2>5 DEF OrderInv, Bytes
<1>7. Lockstep' /\ Uncongested' /\ ResponsesInOrder'
  BY DEF OrderInv, Lockstep, Uncongested, ResponsesInOrder
<1> QED BY <1>2, <1>3, <1>4, <1>5, <1>6, <1>7 DEF OrderInv

LEMMA OrderStep == DataInv /\ DataInv' /\ OrderInv /\ [Next]_vars => OrderInv'
<1> SUFFICES ASSUME DataInv, DataInv', OrderInv, [Next]_vars PROVE OrderInv'
  OBVIOUS
<1>0. load' = load /\ script' = script
  BY SameWorkload
<1>n. /\ sent \in Nat /\ current \in Nat
      /\ Len(buf) \in Nat /\ Len(pending_buf) \in Nat /\ Len(net) \in Nat
      /\ Len(begun) \in Nat /\ Len(ended) \in Nat
  BY Lengths, InTurn, ConnectionAssumption DEF DataInv, DataOK
<1>s. /\ net \in Streams /\ buf \in Streams /\ pending_buf \in Streams
      /\ begun \in Responses /\ ended \in Responses
  BY DEF DataInv, DataOK
<1> USE DEF client, control, pipeline, life, deadline, output
<1>1. CASE ClientSends
  <2>1. sent + 1 \in Units /\ sent \in Int
    BY <1>1, UnitTypes, ConnectionAssumption DEF ClientSends, DataInv, DataOK
  <2>2. sent' = sent + 1 /\ net' = Append(net, sent + 1) /\ Len(net') = Len(net) + 1
    BY <1>1, <2>1, Lengths DEF ClientSends, DataInv, DataOK
  <2>3. Frames' /\ Output' /\ Handlers' /\ Counts' /\ ResponsesInOrder' /\ Uncongested'
    BY <1>0, <1>1 DEF ClientSends, OrderInv, Frames, Output, Handlers, Counts,
                      ResponsesInOrder, Uncongested, Producing, Waiting, Stream, Suspended
  <2>4. Bytes'
    <3>1. Segment(net, sent) => Segment(net', sent')
      BY <2>1, <2>2, SegmentAppend DEF DataInv, DataOK
    <3>2. Len(net) \in Int
      BY Lengths DEF DataInv, DataOK
    <3> QED BY <1>0, <1>1, <2>1, <2>2, <3>1, <3>2
            DEF ClientSends, OrderInv, Bytes, NoByteLost, DataInv, DataOK
  <2>5. Lockstep'
    <3>1. Answered(RequestOf(sent + 1) - 1) => RequestOf(sent + 1) - 1 <= Len(ended)
      BY <1>n DEF Answered, OrderInv, ResponsesInOrder, Ordered
    <3>2. RequestOf(sent + 1) - 1 <= Len(ended) => sent + 1 <= 2 * Len(ended) + 2
      BY <1>n DEF RequestOf
    <3>3. RequestOf(sent + 1) = 1 => sent + 1 <= 2 * Len(ended) + 2
      BY <1>n DEF RequestOf
    <3> QED BY <1>0, <1>1, <2>2, <3>1, <3>2, <3>3 DEF ClientSends, Lockstep
  <2> QED BY <2>3, <2>4, <2>5 DEF OrderInv
<1>2. CASE ClientShutsDown
  BY <1>2, Quiet DEF ClientShutsDown
<1>3. CASE HangUp
  <2>1. Frames'
    BY <1>3 DEF OrderInv, Frames, HangUp, CloseOnly, Close, Producing
  <2> QED BY <1>0, <1>3, <2>1, Closing DEF HangUp, CloseOnly, Close
<1>4. CASE HandlerResumes
  <2> PICK i \in Ids : /\ Suspended(i) /\ cur' = i
                       /\ hstate' = [hstate EXCEPT ![i] = "done"]
    BY <1>4 DEF HandlerResumes, Suspended
  <2>1. ~closed => i = current /\ in_flight /\ Waiting /\ epoll # "out"
    BY DEF OrderInv, Handlers
  <2>2. \A j \in Ids : Suspended(j)' => Suspended(j) /\ j # i
    BY DEF Suspended, DataInv, DataOK, HandlerStates
  <2>3. Frames'
    BY <1>4, <2>1 DEF HandlerResumes, OrderInv, Frames, Producing
  <2>4. Output'
    BY <1>0, <1>4, <2>1 DEF HandlerResumes, OrderInv, Output, Producing, Waiting
  <2>5. Handlers'
    BY <1>0, <1>4, <2>1, <2>2 DEF HandlerResumes, OrderInv, Handlers, Waiting, Stream
  <2>6. Counts'
    BY <1>0, <1>4 DEF HandlerResumes, OrderInv, Counts, Producing, Stream
  <2>7. Bytes' /\ Lockstep' /\ ResponsesInOrder' /\ Uncongested'
    BY <1>0, <1>4 DEF HandlerResumes, OrderInv, Bytes, NoByteLost, Lockstep,
                      ResponsesInOrder, Uncongested
  <2> QED BY <2>3, <2>4, <2>5, <2>6, <2>7 DEF OrderInv
<1>5. CASE HeaderTimeout
  <2>1. Frames'
    BY <1>5 DEF OrderInv, Frames, HeaderTimeout, Abort, Close, Producing
  <2> QED BY <1>0, <1>5, <2>1, Closing DEF HeaderTimeout, Abort, Close
<1>6. CASE LateHeaderTimeout
  BY <1>6, Quiet DEF LateHeaderTimeout
<1>7. CASE RequestTimeout
  <2>1. Frames'
    BY <1>7 DEF OrderInv, Frames, RequestTimeout, Abort, Close, Producing
  <2> QED BY <1>0, <1>7, <2>1, Closing DEF RequestTimeout, Abort, Close
<1>8. CASE Readable
  BY <1>8 DEF OrderInv, Readable, Uncongested, Frames, Output, Handlers, Counts, Bytes, NoByteLost,
       Lockstep, ResponsesInOrder, Producing, Waiting, Stream, Suspended
<1>9. CASE ReadNothing
  BY <1>9 DEF OrderInv, ReadNothing, ToLoop, Uncongested, Frames, Output, Handlers, Counts, Bytes, NoByteLost,
       Lockstep, ResponsesInOrder, Producing, Waiting, Stream, Suspended
<1>10. CASE ReadEnd
  <2>1. Frames'
    BY <1>10 DEF OrderInv, Frames, ReadEnd, CloseOnly, Close, ToLoop, Producing
  <2> QED BY <1>0, <1>10, <2>1, Closing DEF ReadEnd, CloseOnly, Close, ToLoop
<1>11. CASE Read
  <2> PICK n \in 1..Len(net) : Take(n) /\ (ReadFrames(n) \/ ReadAhead(n) \/ ReadRequest(n))
    BY <1>11 DEF Read
  <2>1. /\ net' = SubSeq(net, n + 1, Len(net)) /\ Len(net') = Len(net) - n
        /\ Len(Taken(n)) = n /\ Taken(n) \in Streams /\ n \in Nat
    BY <1>n, <1>s, TakenTypes DEF Take
  <2>l. /\ Len(net') \in Nat /\ sent - Len(net') \in Int
        /\ (sent - Len(net')) - n = sent - Len(net)
        /\ sent - Len(net') - (Len(pending_buf) + n) \in Int
        /\ (Len(pending_buf) + n) + Len(net') = Len(pending_buf) + Len(net)
    <3>1. Len(net') = Len(net) - n /\ n \in 1..Len(net) /\ Len(net) \in Nat /\ sent \in Nat
          /\ Len(pending_buf) \in Nat
      BY <1>n, <2>1
    <3>2. ASSUME NEW l \in Nat, NEW m \in 1..l, NEW a \in Nat, NEW p \in Nat
          PROVE  /\ l - m \in Nat /\ a - (l - m) \in Int /\ (a - (l - m)) - m = a - l
                 /\ a - (l - m) - (p + m) \in Int /\ (p + m) + (l - m) = p + l
      OBVIOUS
    <3> QED BY ONLY <3>1, <3>2
  <2>2. Segment(net, sent)
          => Segment(Taken(n), sent - Len(net')) /\ Segment(net', sent)
    BY <1>n, <1>s, <2>1, SegmentSplit
  <2>3. pc = "read" /\ ~closed /\ buf = <<>> /\ feeding = "no" /\ sent' = sent
    BY <1>11 DEF Read, OrderInv, Frames, client
  <2>4. CASE ReadFrames(n)
    <3>1. Frames' /\ Output' /\ Handlers' /\ Counts' /\ Lockstep' /\ ResponsesInOrder'
      BY <1>0, <1>11, <2>3, <2>4
         DEF Read, ReadFrames, OrderInv, Frames, Output, Handlers, Counts, Lockstep,
             ResponsesInOrder, Producing, Waiting, Stream, Suspended
    <3>2. current > 0 /\ script[current].out = "ws" /\ in_flight
      BY <2>3, <2>4 DEF ReadFrames, WebSocketMode, OrderInv, Handlers, Stream
    <3>3. Bytes'
      BY <1>0, <2>4, <3>2 DEF ReadFrames, Bytes, NoByteLost
    <3> QED BY <1>0, <3>1, <3>3 DEF OrderInv, Uncongested
  <2>5. CASE ReadAhead(n) /\ Len(pending_buf) + n > MaxPending
    <3>1. Frames'
      BY <2>5 DEF ReadAhead, Abort, Close, ToLoop, OrderInv, Frames, Producing
    <3> QED BY <1>0, <1>11, <2>5, <3>1, Closing DEF Read, ReadAhead, Abort, Close, ToLoop
  <2>6. CASE ReadAhead(n) /\ ~(Len(pending_buf) + n > MaxPending)
    <3>1. /\ pending_buf' = pending_buf \o Taken(n) /\ pc' = "read"
          /\ in_flight \/ parser = "paused"
          /\ UNCHANGED <<reading, feeding, buf, cur, parser, in_flight, cycle_pending,
                         current, life, deadline, output>>
      BY <2>6 DEF ReadAhead, MustKeep
    <3>2. Len(pending_buf') = Len(pending_buf) + n
      BY <1>s, <2>1, <3>1, Lengths
    <3>3. Segment(net, sent) /\ Segment(pending_buf, sent - Len(net))
            => Segment(pending_buf', sent - Len(net'))
      <4> DEFINE e == sent - Len(net')
      <4>1. e \in Int /\ e - Len(Taken(n)) = sent - Len(net)
        BY <2>1, <2>l
      <4> HIDE DEF e
      <4>2. Segment(pending_buf, e - Len(Taken(n))) /\ Segment(Taken(n), e)
              => Segment(pending_buf \o Taken(n), e)
        BY <1>s, <2>1, <4>1, SegmentConcat
      <4>3. Segment(net, sent) => Segment(Taken(n), e)
        BY <2>2 DEF e
      <4> QED BY <3>1, <4>1, <4>2, <4>3 DEF e
    <3>4. Bytes'
      <4>1. sent - Len(net') - Len(pending_buf') \in Int
        BY <2>l, <3>2
      <4>2. Segment(buf', sent - Len(net') - Len(pending_buf'))
        BY <2>3, <3>1, <4>1, SegmentEmpty
      <4>3. Len(buf') + Len(pending_buf') + Len(net') = Len(buf) + Len(pending_buf) + Len(net)
        <5>1. Len(buf') = 0 /\ Len(buf) = 0
          BY <2>3, <3>1, Lengths
        <5>2. \A a, b, c, d \in Nat : a + b = c + d => 0 + a + b = 0 + c + d
          OBVIOUS
        <5>3. Len(pending_buf') \in Nat
          BY <1>n, <2>1, <3>2
        <5> QED BY <1>n, <2>l, <3>2, <5>1, <5>2, <5>3
      <4>4. NoByteLost'
        BY <1>0, <2>2, <2>3, <3>1, <3>3, <4>2, <4>3 DEF OrderInv, Bytes, NoByteLost
      <4> QED BY <2>3, <3>1, <4>3, <4>4 DEF OrderInv, Bytes
    <3>5. epoll = "out" => FALSE
      <4>1. epoll = "out" => in_flight /\ ~load.pipelining /\ Len(ended) = current - 1
              /\ current > 0 /\ ~Stream(current)
        BY <2>3 DEF OrderInv, Output, Counts, Waiting, Uncongested, Handlers
      <4>2. epoll = "out" => sent <= 2 * current
        BY <1>n, <4>1 DEF OrderInv, Lockstep
      <4>3. epoll = "out" => Len(buf) + Len(pending_buf) + Len(net) = sent - 2 * current
        BY <2>3, <4>1 DEF OrderInv, Bytes, NoByteLost, Stream
      <4> QED BY <1>n, <2>1, <2>3, <4>2, <4>3
    <3>6. Frames' /\ Output' /\ Handlers' /\ Counts' /\ Lockstep' /\ ResponsesInOrder'
      BY <1>0, <1>11, <2>3, <3>1, <3>5
         DEF Read, OrderInv, Frames, Output, Handlers, Counts, Lockstep,
             ResponsesInOrder, Producing, Waiting, Stream, Suspended
    <3> QED BY <1>0, <3>4, <3>6 DEF OrderInv, Uncongested
  <2>7. CASE ReadRequest(n)
    <3>1. ~in_flight /\ parser # "paused"
      BY <2>7 DEF ReadRequest, MustKeep
    <3>2. pending_buf = <<>> /\ ~(current > 0 /\ Stream(current)) /\ epoll # "out"
      BY <2>3, <3>1 DEF OrderInv, Bytes, Handlers, Output, Waiting
    <3>3. Frames' /\ Output' /\ Handlers' /\ Counts' /\ Lockstep' /\ ResponsesInOrder'
      BY <1>0, <1>11, <2>3, <2>7, <3>1, <3>2
         DEF Read, ReadRequest, OrderInv, Frames, Output, Handlers, Counts, Lockstep,
             ResponsesInOrder, Producing, Waiting, Stream, Suspended
    <3>4. Bytes'
      <4>1. /\ buf' = Taken(n) /\ pending_buf' = <<>> /\ UNCHANGED <<pipeline, life>>
            /\ Len(pending_buf) = 0 /\ Len(buf) = 0
        BY <2>3, <2>7, <3>2, Lengths DEF ReadRequest
      <4>2. sent - Len(net') \in Int /\ sent - Len(net') - Len(pending_buf) = sent - Len(net')
        BY <1>n, <2>1, <4>1
      <4>3. Segment(pending_buf', sent - Len(net'))
        BY <4>1, <4>2, SegmentEmpty
      <4>4. Len(buf') + Len(pending_buf') + Len(net') = Len(buf) + Len(pending_buf) + Len(net)
        BY <1>n, <2>1, <4>1
      <4>5. Segment(net, sent) /\ (current > 0 => script[current].out # "ws")
        BY <2>3, <3>2 DEF OrderInv, Bytes, NoByteLost, Stream
      <4> QED BY <1>0, <2>1, <2>2, <2>3, <3>1, <3>2, <4>1, <4>2, <4>3, <4>4, <4>5
              DEF OrderInv, Bytes, NoByteLost
    <3> QED BY <1>0, <3>3, <3>4 DEF OrderInv, Uncongested
  <2> QED BY <2>4, <2>5, <2>6, <2>7
<1>12. CASE FeedPart
  <2>1. buf' = Tail(buf) /\ buf # <<>> /\ ~Completes(Head(buf)) /\ ~in_flight /\ ~closed
    BY <1>12 DEF FeedPart, OrderInv, Frames
  <2>2. Frames' /\ Output' /\ Handlers' /\ Counts' /\ Lockstep' /\ ResponsesInOrder'
    BY <1>0, <1>12, <2>1
       DEF FeedPart, OrderInv, Frames, Output, Handlers, Counts, Lockstep,
           ResponsesInOrder, Producing, Waiting, Stream, Suspended
  <2>3. Bytes'
    <3>1. pending_buf = <<>> /\ ~(current > 0 /\ Stream(current))
      BY <1>12, <2>1 DEF FeedPart, OrderInv, Frames, Handlers
    <3>2. Segment(buf, sent - Len(net)) /\ (current > 0 => script[current].out # "ws")
      BY <1>n, <2>1, <3>1, Lengths DEF OrderInv, Bytes, NoByteLost, Stream
    <3>3. sent - Len(net) \in Int
      BY <1>n
    <3>4. /\ Segment(Tail(buf), sent - Len(net)) /\ Head(buf) = sent - Len(net) - Len(buf) + 1
          /\ Len(Tail(buf)) = Len(buf) - 1 /\ Len(buf) \in Nat /\ Len(net) \in Nat
          /\ Len(pending_buf) = 0
      BY <1>n, <1>s, <2>1, <3>1, <3>2, <3>3, SegmentTail, Lengths
    <3>5. Len(buf) + Len(net) # sent - 2 * current - 1
      BY <1>n, <2>1, <3>4 DEF Completes
    <3> QED BY <1>0, <1>12, <1>n, <2>1, <3>1, <3>2, <3>4, <3>5
            DEF FeedPart, OrderInv, Bytes, NoByteLost
  <2> QED BY <1>0, <2>2, <2>3 DEF OrderInv, Uncongested
<1>13. CASE FeedError
  <2>1. Frames'
    BY <1>13 DEF OrderInv, Frames, FeedError, Abort, Close, ToLoop, Producing
  <2> QED BY <1>0, <1>13, <2>1, Closing DEF FeedError, Abort, Close, ToLoop
<1>14. CASE Dispatch
  <2> DEFINE r == RequestOf(Head(buf))
  <2>1. /\ buf # <<>> /\ Completes(Head(buf)) /\ buf' = Tail(buf) /\ current' = r
        /\ in_flight' /\ ~in_flight /\ ~closed /\ feeding # "no" /\ pending_buf = <<>>
        /\ UNCHANGED <<sent, net, feeding, parser, pending_buf, cycle_pending, closed,
                       write_buf, file_fd, epoll, ended>>
    BY <1>14 DEF Dispatch, OrderInv, Frames
  <2>2. /\ pc' = IF script[r].await = "none" THEN "respond" ELSE "pause"
        /\ script[r].await = "none" => cur' = r
        /\ begun' = IF Stream(r) THEN Append(begun, r) ELSE begun
        /\ \A i \in Ids : hstate'[i] = hstate[i] \/ (i = r /\ pc' = "pause")
    BY <1>14 DEF Dispatch, Stream, DataInv, DataOK, HandlerStates
  <2>3. ~(current > 0 /\ Stream(current)) /\ Len(ended) = current /\ Len(begun) = current
    BY <1>14, <2>1 DEF Dispatch, OrderInv, Handlers, Counts
  <2>4. Segment(buf, sent - Len(net)) /\ (current > 0 => script[current].out # "ws")
    BY <2>1, <2>3, Lengths DEF OrderInv, Bytes, NoByteLost, Stream, DataInv, DataOK
  <2>5. /\ Segment(Tail(buf), sent - Len(net)) /\ Head(buf) = sent - Len(net) - Len(buf) + 1
        /\ Len(Tail(buf)) = Len(buf) - 1 /\ Len(buf) \in Nat /\ Len(net) \in Nat
        /\ Len(pending_buf) = 0 /\ Segment(net, sent) /\ Segment(pending_buf, sent - Len(net))
    <3>1. sent - Len(net) \in Int
      BY <1>n
    <3> QED BY <2>1, <2>3, <2>4, <3>1, SegmentTail, SegmentEmpty, Lengths
            DEF OrderInv, Bytes, NoByteLost, Stream, DataInv, DataOK
  <2>6. r = current + 1 /\ Len(buf) + Len(net) = sent - 2 * current - 1 /\ r \in Ids
    <3>1. Len(buf) + Len(net) \in {sent - 2 * current, sent - 2 * current - 1}
      BY <2>1, <2>5 DEF OrderInv, Bytes
    <3>2. Len(buf) + Len(net) = sent - 2 * current - 1 /\ Head(buf) = 2 * current + 2
      BY <1>n, <2>1, <2>5, <3>1 DEF Completes
    <3>3. r = current + 1
      BY <1>n, <3>2 DEF RequestOf
    <3> QED BY <1>s, <2>1, <3>2, <3>3, UnitTypes, SequenceTypes
  <2>7. ResponsesInOrder'
    <3>1. CASE Stream(r)
      BY <2>1, <2>2, <2>3, <2>6, <3>1, InTurn DEF OrderInv, ResponsesInOrder, DataInv, DataOK
    <3>2. CASE ~Stream(r)
      BY <2>1, <2>2, <2>3, <2>6, <3>2 DEF OrderInv, ResponsesInOrder
    <3> QED BY <3>1, <3>2
  <2> HIDE DEF r
  <2>8. Frames'
    <3>1. ~cycle_pending'
      BY <1>14, <2>1 DEF Dispatch, OrderInv, Frames
    <3>2. pc' \in {"respond", "pause"} /\ (pc' = "respond" => cur' = r /\ cur' \in Ids)
      BY <2>2, <2>6
    <3> QED BY <2>1, <3>1, <3>2 DEF Frames, Producing
  <2>9. Output'
    BY <1>0, <1>14, <2>1, <2>2 DEF Dispatch, OrderInv, Output, Producing, Waiting
  <2>10. Handlers'
    <3>1. \A i \in Ids : ~Suspended(i)
      BY <2>1 DEF OrderInv, Handlers
    <3>2. \A i \in Ids : Suspended(i)' => i = r /\ pc' = "pause"
      BY <2>2, <3>1 DEF Suspended
    <3>3. epoll' # "out"
      BY <1>14, <2>1 DEF Dispatch, OrderInv, Output
    <3> QED BY <2>1, <2>2, <3>2, <3>3 DEF Handlers, Waiting
  <2>11. Counts'
    <3>1. epoll' # "out"
      BY <1>14, <2>1 DEF Dispatch, OrderInv, Output
    <3>2. Len(begun') = IF Stream(r) THEN current + 1 ELSE current
      BY <2>2, <2>3, <2>6, InTurn DEF DataInv, DataOK
    <3>3. current' = current + 1 /\ current' - 1 = current /\ current' > 0
      BY <1>n, <2>1, <2>6
    <3>4. ~Producing'
      BY <2>2 DEF Producing
    <3>5. Len(begun') = IF Stream(current)' THEN current' ELSE current' - 1
      BY <1>0, <2>1, <3>2, <3>3 DEF Stream
    <3> QED BY <2>1, <2>3, <3>1, <3>3, <3>4, <3>5 DEF Counts, Producing
  <2>12. Bytes'
    BY <1>0, <1>n, <2>1, <2>5, <2>6 DEF Bytes, NoByteLost
  <2>13. Lockstep' /\ Uncongested'
    BY <1>0, <2>1 DEF OrderInv, Lockstep, Uncongested
  <2> QED BY <2>7, <2>8, <2>9, <2>10, <2>11, <2>12, <2>13 DEF OrderInv
<1>15. CASE FeedPaused
  <2>0. feeding # "no" /\ (feeding = "replay" => ~cycle_pending)
        /\ (closed => ~cycle_pending) /\ (cycle_pending => ~in_flight) /\ pc = "pause"
        /\ pending_buf = <<>> /\ parser' = "paused"
        /\ UNCHANGED <<client, cur, current>>
    BY <1>15 DEF FeedPaused, OrderInv, Frames
  <2>1. CASE Len(buf) > MaxPending
    <3>1. Abort /\ ToLoop /\ UNCHANGED <<in_flight, cycle_pending, pending_buf>>
      BY <1>15, <2>1 DEF FeedPaused, Fed, ReadFed, ReplayFed
    <3>2. Frames'
      BY <2>0, <3>1 DEF OrderInv, Frames, Abort, Close, ToLoop, Producing
    <3> QED BY <1>0, <2>0, <3>1, <3>2, Closing DEF Abort, Close, ToLoop
  <2>2. CASE ~(Len(buf) > MaxPending)
    <3>1. <<>> \o buf = buf
      BY <1>s DEF Streams
    <3>2. /\ pending_buf' = buf /\ buf' = <<>> /\ feeding' = "no" /\ ~cycle_pending'
          /\ UNCHANGED <<in_flight, life, write_buf, file_fd, begun, ended>>
          /\ IF closed THEN pc' = "loop" ELSE pc' \in {"loop", "read", "cycle"}
          /\ pc' = "cycle" => ~in_flight
          /\ epoll' = epoll \/ (~in_flight /\ epoll' = "in") \/ closed
      <4>1. CASE feeding = "read"
        BY <1>15, <2>0, <2>2, <3>1, <4>1 DEF FeedPaused, Fed, ReadFed
      <4>2. CASE feeding = "replay"
        BY <1>15, <2>0, <2>2, <4>2 DEF FeedPaused, Fed, ReplayFed, AfterCycle, Rearm
      <4> QED BY <2>0, <4>1, <4>2 DEF DataInv, DataOK
    <3>3. CASE closed
      <4>1. Frames'
        BY <2>0, <3>2, <3>3 DEF Frames, Producing
      <4> QED BY <1>0, <2>0, <3>2, <3>3, <4>1, Closing
    <3>4. CASE ~closed
      BY <2>0, <3>2, <3>4, FeedReturns
    <3> QED BY <3>3, <3>4
  <2> QED BY <2>1, <2>2
<1>16. CASE FeedDrained
  <2>0. feeding # "no" /\ ~cycle_pending /\ ~closed /\ pc = "feed" /\ buf = <<>>
        /\ pending_buf = <<>> /\ UNCHANGED <<client, cur, parser, current>>
    BY <1>16 DEF FeedDrained, OrderInv, Frames
  <2>1. Len(<<>>) = 0 /\ ~(0 > MaxPending) /\ <<>> \o <<>> = <<>>
    BY Lengths, ConnectionAssumption
  <2>2. /\ pending_buf' = <<>> /\ buf' = <<>> /\ feeding' = "no" /\ ~cycle_pending'
        /\ UNCHANGED <<in_flight, life, write_buf, file_fd, begun, ended>>
        /\ pc' \in {"loop", "read"}
        /\ epoll' = epoll \/ (~in_flight /\ epoll' = "in")
    BY <1>16, <2>0, <2>1 DEF FeedDrained, Fed, ReadFed, ReplayFed, AfterCycle, Rearm
  <2> QED BY <2>0, <2>2, FeedReturns
<1>17. CASE FinishDispatch
  <2>0. /\ cycle_pending => closed /\ feeding = "no"
        /\ ~closed => in_flight /\ cur = current /\ epoll # "out" /\ ~cycle_pending
                        /\ write_buf = 0 /\ file_fd = 0
        /\ UNCHANGED <<client, cur, pipeline>>
    BY <1>17 DEF FinishDispatch, OrderInv, Frames, Output
  <2>p. pc = "respond"
    BY <1>17 DEF FinishDispatch
  <2>c. ~closed => Len(ended) = current - 1 /\ current > 0 /\ current \in Ids
                   /\ Len(begun) = IF Stream(current) THEN current ELSE current - 1
    BY <2>0, <2>p DEF OrderInv, Counts, Producing, Frames
  <2>1. CASE EndStream
    <3>1. Frames'
      BY <1>17, <2>0, <2>p, <2>1
         DEF EndStream, Close, Unwind, OrderInv, Frames, Producing
    <3>2. closed' /\ pc' \in {"loop", "pause", "respond"} /\ begun' = begun
      BY <2>1, <2>p DEF EndStream, Close, Unwind
    <3>3. CASE closed
      BY <1>0, <2>0, <2>1, <3>1, <3>2, <3>3, Closing DEF EndStream
    <3>4. CASE ~closed
      <4>1. ended' = Append(ended, current) /\ Stream(current)
        BY <2>0, <2>1, <3>4 DEF EndStream, Stream
      <4>2. Len(ended') = Len(ended) + 1 /\ Ordered(ended')
        BY <1>n, <1>s, <2>c, <3>4, <4>1, InTurn DEF OrderInv, ResponsesInOrder
      <4>3. Len(begun') - Len(ended') = 0
        BY <1>n, <2>c, <3>2, <3>4, <4>1, <4>2
      <4>4. ResponsesInOrder'
        BY <3>2, <4>2, <4>3 DEF OrderInv, ResponsesInOrder
      <4>5. Lockstep'
        BY <1>0, <1>n, <2>0, <4>2 DEF OrderInv, Lockstep
      <4>6. Output' /\ Handlers' /\ Counts' /\ Bytes' /\ Uncongested'
        BY <1>0, <3>2 DEF OrderInv, Output, Handlers, Counts, Bytes, NoByteLost,
                          Uncongested, Producing
      <4> QED BY <3>1, <4>4, <4>5, <4>6 DEF OrderInv
    <3> QED BY <3>3, <3>4
  <2>2. CASE SendResponse /\ closed
    <3>1. Frames'
      BY <2>0, <2>p, <2>2 DEF SendResponse, Unwind, OrderInv, Frames, Producing
    <3> QED BY <1>0, <2>0, <2>p, <2>2, <3>1, Closing DEF SendResponse, Unwind
  <2>3. CASE SendResponse /\ ~closed
    <3>1. /\ pc' = "write" /\ begun' = Append(begun, current) /\ ~Stream(current)
          /\ file_fd' \in {0, current}
          /\ UNCHANGED <<reading, feeding, buf, life, deadline, write_buf, epoll, ended>>
      BY <2>0, <2>3 DEF SendResponse, Stream
    <3>2. Frames'
      BY <2>0, <2>3, <3>1 DEF OrderInv, Frames, Producing
    <3>3. Output'
      BY <1>0, <2>0, <2>3, <3>1 DEF OrderInv, Output, Producing, Waiting, Stream
    <3>4. Handlers'
      BY <1>0, <2>0, <2>p, <2>3, <3>1 DEF OrderInv, Handlers, Waiting, Stream, Suspended
    <3>5. Len(begun') = current /\ Ordered(begun') /\ Len(begun') - Len(ended') = 1
      BY <1>n, <1>s, <2>c, <2>3, <3>1, InTurn DEF OrderInv, ResponsesInOrder
    <3>6. Counts'
      BY <1>0, <2>0, <2>c, <2>3, <3>1, <3>5 DEF Counts, Producing
    <3>7. ResponsesInOrder'
      BY <3>1, <3>5 DEF OrderInv, ResponsesInOrder
    <3>8. Bytes' /\ Lockstep' /\ Uncongested'
      BY <1>0, <2>0, <2>p, <3>1 DEF OrderInv, Bytes, NoByteLost, Lockstep, Uncongested
    <3> QED BY <3>2, <3>3, <3>4, <3>6, <3>7, <3>8 DEF OrderInv
  <2>4. CASE ResponseTooLarge
    <3>1. Frames'
      BY <2>0, <2>p, <2>4 DEF ResponseTooLarge, Close, Unwind, OrderInv, Frames, Producing
    <3> QED BY <1>0, <2>0, <2>4, <3>1, Closing DEF ResponseTooLarge, Close, Unwind
  <2> QED BY <1>17, <2>1, <2>2, <2>3, <2>4 DEF FinishDispatch
<1>18. CASE WriteAll
  <2>0. pc = "write" /\ ~closed /\ in_flight /\ cur = current /\ current \in Ids /\ current > 0
        /\ Len(ended) = current - 1 /\ Len(begun) = current /\ ~cycle_pending
        /\ ~Stream(current) /\ epoll # "out" /\ write_buf = 0
    BY <1>18 DEF WriteAll, OrderInv, Frames, Output, Counts, Producing, DataInv
  <2>1. /\ IF file_fd # 0 THEN pc' = "sendfile" /\ ended' = ended
                          ELSE pc' = "written" /\ ended' = Append(ended, current)
        /\ UNCHANGED <<client, reading, feeding, buf, cur, pipeline, life, deadline,
                       keep_alive, write_buf, file_fd, epoll, begun>>
    BY <1>18, <2>0 DEF WriteAll, Delivered
  <2>2. /\ Len(ended) <= Len(ended')
        /\ Len(ended') = IF pc' = "written" THEN current ELSE current - 1
        /\ ResponsesInOrder'
    <3>1. CASE pc' = "written"
      BY <2>0, <2>1, <3>1, Delivering
    <3>2. CASE pc' # "written"
      BY <1>n, <2>0, <2>1, <3>2 DEF OrderInv, ResponsesInOrder
    <3> QED BY <3>1, <3>2
  <2>3. Frames'
    BY <2>0, <2>1 DEF OrderInv, Frames, Producing
  <2>4. Output'
    BY <1>0, <2>0, <2>1 DEF OrderInv, Output, Producing, Waiting, Stream
  <2>5. Handlers'
    BY <1>0, <2>0, <2>1 DEF OrderInv, Handlers, Waiting, Stream, Suspended
  <2>6. Counts'
    BY <1>0, <2>0, <2>1, <2>2 DEF Counts, Producing
  <2>7. Bytes' /\ Uncongested'
    BY <1>0, <2>0, <2>1 DEF OrderInv, Bytes, NoByteLost, Uncongested
  <2>8. Lockstep'
    BY <1>0, <1>n, <2>0, <2>1, <2>2 DEF OrderInv, Lockstep
  <2> QED BY <2>2, <2>3, <2>4, <2>5, <2>6, <2>7, <2>8 DEF OrderInv
<1>19. CASE WritePart
  <2>0. pc = "write" /\ ~closed /\ in_flight /\ cur = current /\ current > 0 /\ current # 0
        /\ Len(ended) = current - 1 /\ Len(begun) = current /\ ~cycle_pending
        /\ ~Stream(current) /\ load.backpressure
    BY <1>19, <1>n DEF WritePart, OrderInv, Frames, Output, Counts, Producing, DataInv
  <2>1. /\ write_buf' = current /\ epoll' = "out"
        /\ IF feeding = "no" THEN pc' = "loop" ELSE pc' = "pause"
        /\ UNCHANGED <<feeding, buf, client, cur, pipeline, life, deadline, keep_alive,
                       file_fd, begun, ended>>
    BY <1>19, <2>0 DEF WritePart, Unwind
  <2>2. pending_buf = <<>>
    BY <1>0, <1>n, <1>s, <2>0, NothingAhead
  <2>3. Frames'
    BY <2>0, <2>1 DEF OrderInv, Frames, Producing
  <2>4. Output'
    BY <1>0, <2>0, <2>1, <2>2 DEF OrderInv, Output, Producing, Waiting, Stream
  <2>5. Handlers'
    BY <1>0, <2>0, <2>1 DEF OrderInv, Handlers, Waiting, Stream, Suspended
  <2>6. Counts'
    BY <1>0, <2>0, <2>1 DEF OrderInv, Counts, Producing
  <2>7. Bytes' /\ ResponsesInOrder' /\ Uncongested' /\ Lockstep'
    BY <1>0, <2>0, <2>1
       DEF OrderInv, Bytes, NoByteLost, ResponsesInOrder, Uncongested, Lockstep
  <2> QED BY <2>3, <2>4, <2>5, <2>6, <2>7 DEF OrderInv
<1>20. CASE Writable
  <2>0. pc = "loop" /\ ~closed /\ in_flight /\ current > 0 /\ current \in Ids
        /\ Len(ended) = current - 1 /\ Len(begun) = current /\ ~cycle_pending
        /\ ~Stream(current) /\ load.backpressure /\ pending_buf = <<>> /\ feeding = "no"
        /\ write_buf \in {0, current} /\ file_fd \in {0, current}
        /\ (write_buf # 0 \/ file_fd # 0)
    BY <1>20, OwnerTypes DEF Writable, OrderInv, Frames, Output, Counts, Handlers, Waiting,
                             DataInv, DataOK
  <2>1. /\ write_buf' = 0
        /\ IF file_fd # 0 THEN pc' = "sendfile" /\ ended' = ended
                          ELSE pc' = "written" /\ ended' = Append(ended, current)
        /\ UNCHANGED <<client, reading, feeding, buf, cur, pipeline, life, deadline,
                       keep_alive, file_fd, epoll, begun>>
    BY <1>20, <2>0 DEF Writable, Delivered
  <2>2. /\ Len(ended) <= Len(ended')
        /\ Len(ended') = IF pc' = "written" THEN current ELSE current - 1
        /\ ResponsesInOrder'
    <3>1. CASE pc' = "written"
      BY <2>0, <2>1, <3>1, Delivering
    <3>2. CASE pc' # "written"
      BY <1>n, <2>0, <2>1, <3>2 DEF OrderInv, ResponsesInOrder
    <3> QED BY <3>1, <3>2
  <2>3. Frames'
    BY <2>0, <2>1 DEF OrderInv, Frames, Producing
  <2>4. Output'
    BY <1>0, <2>0, <2>1 DEF OrderInv, Output, Producing, Waiting, Stream
  <2>5. Handlers'
    BY <1>0, <1>20, <2>0, <2>1 DEF Writable, OrderInv, Handlers, Waiting, Stream, Suspended
  <2>6. Counts'
    BY <1>0, <2>0, <2>1, <2>2 DEF Counts, Producing
  <2>7. Bytes' /\ Uncongested'
    BY <1>0, <2>0, <2>1 DEF OrderInv, Bytes, NoByteLost, Uncongested
  <2>8. Lockstep'
    BY <1>0, <1>n, <2>0, <2>1, <2>2 DEF OrderInv, Lockstep
  <2> QED BY <2>2, <2>3, <2>4, <2>5, <2>6, <2>7, <2>8 DEF OrderInv
<1>21. CASE SendfileAll
  <2>0. pc = "sendfile" /\ ~closed /\ in_flight /\ current > 0 /\ current \in Ids
        /\ Len(ended) = current - 1 /\ Len(begun) = current /\ ~cycle_pending
        /\ ~Stream(current) /\ write_buf = 0 /\ file_fd = current
    BY <1>21, OwnerTypes DEF SendfileAll, OrderInv, Frames, Output, Counts, Producing,
                             DataInv, DataOK
  <2>1. /\ pc' = "written" /\ ended' = Append(ended, current) /\ file_fd' = 0
        /\ UNCHANGED <<client, reading, feeding, buf, cur, pipeline, life, deadline,
                       keep_alive, write_buf, epoll, begun>>
    BY <1>21, <2>0 DEF SendfileAll, Delivered
  <2>2. Len(ended') = current /\ Len(ended) <= Len(ended')
        /\ ResponsesInOrder'
    BY <2>0, <2>1, Delivering
  <2>3. Frames'
    BY <2>0, <2>1 DEF OrderInv, Frames, Producing
  <2>4. Output'
    BY <1>0, <2>0, <2>1 DEF OrderInv, Output, Producing, Waiting, Stream
  <2>5. Handlers'
    BY <1>0, <2>0, <2>1 DEF OrderInv, Handlers, Waiting, Stream, Suspended
  <2>6. Counts'
    BY <1>0, <2>0, <2>1, <2>2 DEF Counts, Producing
  <2>7. Bytes' /\ Uncongested'
    BY <1>0, <2>0, <2>1 DEF OrderInv, Bytes, NoByteLost, Uncongested
  <2>8. Lockstep'
    BY <1>0, <1>n, <2>0, <2>1, <2>2 DEF OrderInv, Lockstep
  <2> QED BY <2>2, <2>3, <2>4, <2>5, <2>6, <2>7, <2>8 DEF OrderInv
<1>22. CASE SendfilePart
  <2>0. pc = "sendfile" /\ ~closed /\ in_flight /\ current > 0
        /\ Len(ended) = current - 1 /\ Len(begun) = current /\ ~cycle_pending
        /\ ~Stream(current) /\ load.backpressure /\ write_buf = 0 /\ file_fd # 0
    BY <1>22 DEF SendfilePart, OrderInv, Frames, Output, Counts, Producing
  <2>1. /\ epoll' = "out"
        /\ IF feeding = "no" THEN pc' = "loop" ELSE pc' = "pause"
        /\ UNCHANGED <<feeding, buf, client, cur, pipeline, life, deadline, keep_alive,
                       write_buf, file_fd, begun, ended>>
    BY <1>22 DEF SendfilePart, Unwind
  <2>2. pending_buf = <<>>
    BY <1>0, <1>n, <1>s, <2>0, NothingAhead
  <2>3. Frames'
    BY <2>0, <2>1 DEF OrderInv, Frames, Producing
  <2>4. Output'
    BY <1>0, <2>0, <2>1, <2>2 DEF OrderInv, Output, Producing, Waiting, Stream
  <2>5. Handlers'
    BY <1>0, <2>0, <2>1 DEF OrderInv, Handlers, Waiting, Stream, Suspended
  <2>6. Counts'
    BY <1>0, <2>0, <2>1 DEF OrderInv, Counts, Producing
  <2>7. Bytes' /\ ResponsesInOrder' /\ Uncongested' /\ Lockstep'
    BY <1>0, <2>0, <2>1
       DEF OrderInv, Bytes, NoByteLost, ResponsesInOrder, Uncongested, Lockstep
  <2> QED BY <2>3, <2>4, <2>5, <2>6, <2>7 DEF OrderInv
<1>23. CASE WriteError
  <2>1. Frames'
    BY <1>23 DEF OrderInv, Frames, WriteError, CloseOnly, Close, Unwind, Producing
  <2> QED BY <1>0, <1>23, <2>1, Closing DEF WriteError, CloseOnly, Close, Unwind
<1>24. CASE WriteComplete
  <2>0. pc = "written" /\ ~closed /\ in_flight /\ ~cycle_pending /\ ~Stream(current)
        /\ Len(ended) = current /\ Len(begun) = current /\ write_buf = 0 /\ file_fd = 0
    BY <1>24 DEF WriteComplete, OrderInv, Frames, Output, Counts, Producing
  <2>1. in_flight' = FALSE /\ UNCHANGED <<client, cur, parser, pending_buf, current>>
    BY <1>24 DEF WriteComplete
  <2>2. CASE CloseOnly /\ Unwind /\ UNCHANGED cycle_pending
    <3>1. Frames'
      BY <2>0, <2>1, <2>2 DEF CloseOnly, Close, Unwind, OrderInv, Frames, Producing
    <3> QED BY <1>0, <2>1, <2>2, <3>1, Closing DEF CloseOnly, Close, Unwind
  <2>3. CASE keep_alive /\ ~(CloseOnly /\ Unwind /\ UNCHANGED cycle_pending)
    <3>1. /\ IF feeding = "read" THEN cycle_pending' /\ pc' = "pause"
                                 ELSE pc' = "cycle" /\ ~cycle_pending'
          /\ UNCHANGED <<reading, feeding, buf, life, output>>
      BY <1>24, <2>0, <2>3 DEF WriteComplete, InParser
    <3>2. Frames'
      BY <2>0, <2>1, <3>1 DEF OrderInv, Frames, Producing
    <3>3. Output'
      BY <1>0, <2>0, <2>1, <3>1 DEF OrderInv, Frames, Output, Producing, Waiting, Stream
    <3>4. Handlers'
      BY <1>0, <2>0, <2>1, <3>1
         DEF OrderInv, Handlers, Waiting, Producing, Stream, Suspended
    <3>5. Counts'
      BY <1>0, <2>0, <2>1, <3>1 DEF Counts, Producing
    <3>6. Bytes'
      BY <1>0, <2>0, <2>1, <3>1 DEF OrderInv, Frames, Bytes, NoByteLost, Stream
    <3>7. ResponsesInOrder' /\ Uncongested' /\ Lockstep'
      BY <1>0, <2>1, <3>1 DEF OrderInv, ResponsesInOrder, Uncongested, Lockstep
    <3> QED BY <3>2, <3>3, <3>4, <3>5, <3>6, <3>7 DEF OrderInv
  <2> QED BY <1>24, <2>2, <2>3 DEF WriteComplete
<1>25. CASE FinishCycle
  <2>0. pc = "cycle" /\ ~closed /\ ~in_flight /\ ~cycle_pending
        /\ ~(current > 0 /\ Stream(current)) /\ (\A i \in Ids : ~Suspended(i))
        /\ Len(ended) = current /\ Len(begun) = current /\ write_buf = 0 /\ file_fd = 0
        /\ feeding \in {"no", "replay"}
    BY <1>25 DEF FinishCycle, OrderInv, Frames, Output, Counts, Handlers, Waiting, DataInv,
                 DataOK
  <2>1. UNCHANGED <<client, cur, in_flight, cycle_pending, current, life, keep_alive,
                    write_buf, file_fd, begun, ended>>
    BY <1>25 DEF FinishCycle
  <2>2. CASE pending_buf # <<>>
    <3>1. buf' = pending_buf /\ pending_buf' = <<>> /\ feeding' = "replay" /\ pc' = "feed"
          /\ epoll' = epoll /\ epoll = "in" /\ buf = <<>>
      BY <1>25, <2>0, <2>2 DEF FinishCycle, OrderInv, Frames, Output, DataInv, DataOK
    <3>2. Frames' /\ Output' /\ Handlers' /\ Counts'
      BY <1>0, <2>0, <2>1, <3>1 DEF Frames, Output, Handlers, Counts, Producing, Waiting,
                                    Stream, Suspended
    <3>3. Bytes'
      <4>1. sent - Len(net) \in Int /\ sent - Len(net) - 0 = sent - Len(net)
        BY <1>n
      <4>2. Segment(pending_buf', sent - Len(net))
        BY <3>1, <4>1, SegmentEmpty
      <4>3. Len(buf') + Len(pending_buf') + Len(net') = Len(buf) + Len(pending_buf) + Len(net)
        <5>1. Len(buf) = 0 /\ Len(pending_buf') = 0
          BY <3>1, Lengths
        <5>2. \A a, b \in Nat : a + 0 + b = 0 + a + b
          OBVIOUS
        <5> QED BY <1>n, <2>1, <3>1, <5>1, <5>2
      <4>4. Len(pending_buf') = 0
        BY <3>1, Lengths
      <4>5. NoByteLost'
        BY <1>0, <2>0, <2>1, <3>1, <4>1, <4>2, <4>4 DEF OrderInv, Bytes, NoByteLost
      <4> QED BY <2>0, <2>1, <3>1, <4>3, <4>5 DEF OrderInv, Bytes
    <3>4. ResponsesInOrder' /\ Uncongested' /\ Lockstep'
      BY <1>0, <2>1 DEF OrderInv, ResponsesInOrder, Uncongested, Lockstep
    <3> QED BY <3>2, <3>3, <3>4 DEF OrderInv
  <2>3. CASE pending_buf = <<>>
    <3>1. /\ epoll' = "in" /\ pending_buf' = <<>>
          /\ IF feeding = "replay" THEN pc' = "pause" /\ UNCHANGED <<feeding, buf>>
                                   ELSE pc' \in {"loop", "read"} /\ feeding' = "no" /\ buf' = <<>>
      BY <1>25, <2>0, <2>3 DEF FinishCycle, Rearm, AfterCycle
    <3>2. buf' = buf
      BY <2>0, <3>1 DEF OrderInv, Frames
    <3>3. Frames' /\ Output' /\ Handlers' /\ Counts'
      BY <1>0, <2>0, <2>1, <3>1 DEF Frames, Output, Handlers, Counts, Producing, Waiting,
                                    Stream, Suspended
    <3>4. Bytes'
      BY <1>0, <2>1, <2>3, <3>1, <3>2 DEF OrderInv, Bytes, NoByteLost
    <3>5. ResponsesInOrder' /\ Uncongested' /\ Lockstep'
      BY <1>0, <2>1 DEF OrderInv, ResponsesInOrder, Uncongested, Lockstep
    <3> QED BY <3>3, <3>4, <3>5 DEF OrderInv
  <2> QED BY <2>2, <2>3
<1>26. CASE UNCHANGED vars
  BY <1>26, Quiet DEF vars
<1> QED
  BY <1>1, <1>2, <1>3, <1>4, <1>5, <1>6, <1>7, <1>8, <1>9, <1>10, <1>11, <1>12, <1>13,
     <1>14, <1>15, <1>16, <1>17, <1>18, <1>19, <1>20, <1>21, <1>22, <1>23, <1>24, <1>25,
     <1>26 DEF Next, Environment, Timeouts, ReadPath, FeedPath, WritePath

LEMMA OrderInit == Orderly /\ Init => OrderInv
<1> SUFFICES ASSUME Orderly, Init PROVE OrderInv
  OBVIOUS
<1>1. \A i \in Ids : ~Suspended(i)
  BY DEF Init, Suspended
<1>2. Len(<<>>) = 0 /\ 0 \in Int /\ 0 - 0 = 0 /\ 0 + 0 + 0 = 0 - 2 * 0
  BY Lengths
<1>3. ResponsesInOrder
  BY <1>2, InTurn DEF Init, ResponsesInOrder
<1>4. Bytes
  BY <1>2, SegmentEmpty DEF Init, Bytes, NoByteLost
<1>5. Uncongested /\ Frames /\ Output /\ Handlers /\ Counts /\ Lockstep
  BY <1>1, <1>2 DEF Init, Orderly, Uncongested, Frames, Output, Handlers, Counts, Lockstep,
                    Producing, Waiting, Stream
<1> QED BY <1>3, <1>4, <1>5 DEF OrderInv

LEMMA Order == ASSUME Orderly PROVE Spec => [](DataInv /\ OrderInv)
<1>1. Init => DataInv /\ OrderInv
  BY TypeInit, OrderInit
<1>2. DataInv /\ OrderInv /\ [Next]_vars => (DataInv /\ OrderInv)'
  BY DataStep, OrderStep
<1> QED BY <1>1, <1>2, PTL DEF Spec

\* The client reads the responses in the order of its requests, each one whole before
\* the next one begins, unless it pipelines into a socket that fills up.
THEOREM InOrder == ASSUME Orderly PROVE Spec => []ResponsesInOrder
BY Order, PTL DEF OrderInv

\* "While a request's response is being produced and written, no second dispatch may run
\* on the same connection" (http_connection.hpp:47), under the same condition.
THEOREM OneAtATime == ASSUME Orderly PROVE Spec => []OneDispatchAtATime
<1>1. OrderInv => OneDispatchAtATime
  BY DEF OrderInv, Handlers, OneDispatchAtATime
<1> QED BY <1>1, Order, PTL

\* do_read(), feed() and finish_cycle() hand the client's stream from the socket to
\* pending_buf_ and to the parser without a gap, for every limit of pending_buf_.
THEOREM ReadAheadIsLossless == ASSUME Orderly PROVE Spec => []NoByteLost
<1>1. OrderInv => NoByteLost
  BY DEF OrderInv, Bytes
<1> QED BY <1>1, Order, PTL

\* The bytes that wait for EPOLLOUT are those of the request in flight.
THEOREM OutputHasOneOwner == ASSUME Orderly PROVE Spec => []OutputIsCurrent
<1>1. DataInv /\ OrderInv => OutputIsCurrent
  <2> SUFFICES ASSUME DataInv, OrderInv, ~closed, NEW i \in {write_buf, file_fd} \ {0}
               PROVE  i = current /\ in_flight /\ \A k \in 1..Len(ended) : ended[k] # i
    BY DEF OutputIsCurrent
  <2>1. i = current /\ in_flight /\ pc # "written"
    BY DEF OrderInv, Output, Producing
  <2>2. Len(ended) = current - 1 /\ current \in Nat
    BY <2>1, ConnectionAssumption DEF OrderInv, Counts, DataInv, DataOK
  <2>3. \A k \in 1..Len(ended) : ended[k] = k
    BY DEF OrderInv, ResponsesInOrder, Ordered
  <2> QED BY <2>1, <2>2, <2>3
<1> QED BY <1>1, Order, PTL

\* The descriptor is registered for EPOLLOUT exactly while something is left to send.
THEOREM RightEvent == ASSUME Orderly PROVE Spec => []WaitsForTheRightEvent
<1>1. DataInv /\ OrderInv => WaitsForTheRightEvent
  BY DEF DataInv, DataOK, OrderInv, Output, Waiting, WaitsForTheRightEvent
<1> QED BY <1>1, Order, PTL

-----------------------------------------------------------------------------
(* The connection implements Exchange.                                     *)

LEMMA CloseOrStutter ==
  ASSUME closed' \/ closed' = closed, UNCHANGED <<current, begun, ended>>
  PROVE  [Promise!Next]_(Promise!vars)
BY DEF Promise!Next, Promise!Close, Promise!vars

LEMMA EndOrStutter ==
  ASSUME ~closed, Len(ended) < Len(begun), ended' = Append(ended, current),
         UNCHANGED <<current, begun>>
  PROVE  [Promise!Next]_(Promise!vars)
<1>1. (~closed)' \in BOOLEAN
  OBVIOUS
<1> QED BY <1>1, Zenon DEF Promise!Next, Promise!End

LEMMA RefinementStep ==
  DataInv /\ OrderInv /\ DataInv' /\ OrderInv' /\ [Next]_vars => [Promise!Next]_(Promise!vars)
<1> SUFFICES ASSUME DataInv, OrderInv, DataInv', OrderInv', [Next]_vars
             PROVE  [Promise!Next]_(Promise!vars)
  OBVIOUS
<1> USE DEF client, control, pipeline, life, deadline, output
<1>n. current \in Nat /\ Len(begun) \in Nat /\ Len(ended) \in Nat
  BY InTurn, ConnectionAssumption DEF DataInv, DataOK
<1>1. CASE Environment
  BY <1>1, CloseOrStutter
     DEF Environment, ClientSends, ClientShutsDown, HangUp, HandlerResumes, CloseOnly, Close
<1>2. CASE Timeouts
  BY <1>2, CloseOrStutter
     DEF Timeouts, HeaderTimeout, LateHeaderTimeout, RequestTimeout, Abort, Close
<1>3. CASE ReadPath
  <2>1. CASE Readable \/ ReadNothing \/ ReadEnd
    BY <2>1, CloseOrStutter DEF Readable, ReadNothing, ReadEnd, CloseOnly, Close
  <2>2. CASE Read
    BY <2>2, CloseOrStutter DEF Read, ReadFrames, ReadAhead, ReadRequest, Abort, Close
  <2> QED BY <1>3, <2>1, <2>2 DEF ReadPath
<1>4. CASE Dispatch
  <2>1. /\ in_flight' /\ ~closed' /\ ~closed /\ ended' = ended
        /\ begun' = begun \/ begun' = Append(begun, current')
    BY <1>4 DEF Dispatch, OrderInv, Frames
  <2>2. Len(ended) = current /\ current' = current + 1 /\ current' <= Requests
    <3>1. current' \in 0..Requests /\ Len(ended') = current' - 1
      BY <1>4, <2>1 DEF Dispatch, OrderInv, Counts, DataInv, DataOK
    <3>2. Len(ended) = current
      BY <1>4 DEF Dispatch, OrderInv, Frames, Counts
    <3>3. current' \in Nat /\ current' <= Requests
      BY <3>1, ConnectionAssumption
    <3>4. current = current' - 1
      BY <2>1, <3>1, <3>2
    <3>5. \A a, b \in Nat : a = b - 1 => b = a + 1
      OBVIOUS
    <3> QED BY <1>n, <3>2, <3>3, <3>4, <3>5
  <2> QED BY <1>n, <2>1, <2>2, ConnectionAssumption DEF Promise!Next, Promise!Ask, Promise!Idle
<1>5. CASE FeedPart \/ FeedError \/ FeedPaused \/ FeedDrained
  BY <1>5, CloseOrStutter
     DEF FeedPart, FeedError, FeedPaused, FeedDrained, Fed, ReadFed, ReplayFed, Abort, Close
<1>6. CASE FinishDispatch
  <2>0. /\ UNCHANGED current
        /\ ~closed => /\ cur = current /\ Len(ended) = current - 1
                       /\ Len(begun) = IF Stream(current) THEN current ELSE current - 1
    BY <1>6 DEF FinishDispatch, OrderInv, Frames, Output, Counts, Producing
  <2>1. CASE EndStream /\ ~closed
    <3>1. Stream(current) /\ ended' = Append(ended, current) /\ UNCHANGED begun
      BY <2>0, <2>1 DEF EndStream, Stream
    <3> QED BY <1>n, <2>0, <2>1, <3>1, EndOrStutter
  <2>2. CASE SendResponse /\ ~closed
    <3>1. ~Stream(current) /\ begun' = Append(begun, current) /\ UNCHANGED <<closed, ended>>
      BY <2>0, <2>2 DEF SendResponse, Stream
    <3> QED BY <1>n, <2>0, <2>2, <3>1 DEF Promise!Next, Promise!Begin
  <2>3. CASE ResponseTooLarge \/ ((EndStream \/ SendResponse) /\ closed)
    BY <2>0, <2>3, CloseOrStutter DEF ResponseTooLarge, EndStream, SendResponse, Close
  <2> QED BY <1>6, <2>1, <2>2, <2>3 DEF FinishDispatch
<1>7. CASE WriteAll
  <2>1. /\ cur = current /\ Len(ended) = current - 1 /\ Len(begun) = current /\ ~closed
        /\ ended' \in {ended, Append(ended, cur)} /\ UNCHANGED <<closed, current, begun>>
    BY <1>7 DEF WriteAll, Delivered, OrderInv, Frames, Counts, Producing
  <2> QED BY <1>n, <2>1, EndOrStutter, CloseOrStutter
<1>8. CASE Writable
  <2>1. /\ Len(ended) = current - 1 /\ Len(begun) = current
        /\ ~closed /\ write_buf \in {0, current} /\ UNCHANGED <<closed, current, begun>>
    BY <1>8 DEF Writable, OrderInv, Frames, Output, Counts, Waiting
  <2>2. ended' \in {ended, Append(ended, current)}
    BY <1>8, <2>1 DEF Writable, Delivered
  <2> QED BY <1>n, <2>1, <2>2, EndOrStutter, CloseOrStutter
<1>9. CASE SendfileAll
  <2>1. /\ Len(ended) = current - 1 /\ Len(begun) = current /\ ~closed /\ file_fd = current
        /\ UNCHANGED <<closed, current, begun>>
    BY <1>9 DEF SendfileAll, OrderInv, Frames, Output, Counts, Producing
  <2>2. ended' = Append(ended, current)
    BY <1>9, <2>1 DEF SendfileAll, Delivered
  <2> QED BY <1>n, <2>1, <2>2, EndOrStutter
<1>10. CASE WritePart \/ SendfilePart \/ WriteError \/ WriteComplete \/ FinishCycle
  BY <1>10, CloseOrStutter
     DEF WritePart, SendfilePart, WriteError, WriteComplete, FinishCycle, CloseOnly, Close
<1>11. CASE UNCHANGED vars
  BY <1>11, CloseOrStutter DEF vars
<1> QED
  BY <1>1, <1>2, <1>3, <1>4, <1>5, <1>6, <1>7, <1>8, <1>9, <1>10, <1>11
     DEF Next, FeedPath, WritePath

\* A connection is what Exchange promises the client: requests are taken one at a time,
\* the next one only when the response before it is complete.
THEOREM KeepsThePromise == ASSUME Orderly PROVE Spec => Implements
<1>1. Init => Promise!Init
  BY DEF Init, Promise!Init
<1>2. DataInv /\ OrderInv /\ DataInv' /\ OrderInv' /\ [Next]_vars
        => [Promise!Next]_(Promise!vars)
  BY RefinementStep
<1> QED BY <1>1, <1>2, Order, PTL DEF Spec, Implements, Promise!Spec
=============================================================================
