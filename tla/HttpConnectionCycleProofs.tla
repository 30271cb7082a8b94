---------------------- MODULE HttpConnectionCycleProofs ---------------------
(***************************************************************************)
(* Proofs about the cycles of HttpConnection: what dispatch() and          *)
(* finish_cycle() hand to one another. Where a client that pipelines meets *)
(* only handlers that wait, a cycle always ends with the parser ready,     *)
(* nothing held back, and one timer running.                               *)
(***************************************************************************)
EXTENDS HttpConnectionProofs

\* The second hypothesis, and what it means for one behaviour: a pipelined request
\* is never answered inside feed().
Patience == \A w \in Workloads : w.pipelining => \A s \in w.shapes : s.await # "none"

Patient == load.pipelining => \A s \in load.shapes : s.await # "none"

\* Without pipelining there is nothing to read ahead: a request is all that feed()
\* is given.
InStep ==
  ~load.pipelining /\ ~closed => pending_buf = <<>> /\ (pc # "feed" => buf = <<>>)

\* A stream that is in flight has a handler.
Tended == ~closed /\ in_flight /\ Stream(current) /\ Waiting => Suspended(current)

\* Where the parser is at each point of a cycle, and whose frames are on the stack:
\* in a pipeline the parser is on it only until the handler waits.
Cycle ==
  /\ parser = "error" => closed
  /\ ~closed /\ pc \in {"loop", "read"} /\ ~in_flight => parser = "ready" /\ pending_buf = <<>>
  /\ ~closed /\ pc = "feed" => parser = "ready"
  /\ ~closed /\ pc = "pause" => in_flight \/ cycle_pending
  /\ feeding = "replay" => pc \in {"feed", "pause"} /\ ~closed /\ load.pipelining
  /\ load.pipelining /\ (Producing \/ pc \in {"respond", "cycle"}) => feeding = "no"
  /\ cycle_pending => ~load.pipelining

\* A timer is armed only when the member that names it is free.
Clock ==
  /\ stray = 0
  /\ closed => ~header_tfd /\ ~timeout_tfd
  /\ ~closed =>
       /\ timeout_tfd <=> in_flight
       /\ header_tfd <=> /\ ~in_flight
                         /\ pc \in {"loop", "read"} \/ (pc = "feed" /\ feeding = "read")

CycleInv == Patient /\ InStep /\ Tended /\ Cycle /\ Clock

LEMMA CycleInit == ASSUME Patience, Init PROVE CycleInv
BY ConnectionAssumption DEF Patience, Init, CycleInv, Patient, InStep, Tended, Cycle, Clock,
   Producing

-----------------------------------------------------------------------------
\* A closed connection has no cycle and no timer.
LEMMA ClosedCycle ==
  ASSUME CycleInv, closed', load' = load, stray' = stray, ~header_tfd', ~timeout_tfd',
         feeding' # "replay", load.pipelining => feeding' = "no",
         cycle_pending' => cycle_pending
  PROVE  CycleInv'
BY DEF CycleInv, Patient, InStep, Tended, Cycle, Clock

\* Nothing of a cycle moves: the client, or a write that goes on.
LEMMA SameCycle ==
  ASSUME CycleInv, Frames, load' = load, script' = script,
         UNCHANGED <<feeding, buf, pipeline, life, deadline>>,
         \/ pc' = pc
         \/ Producing /\ ~closed /\ ~Stream(current)
              /\ (Producing' \/ (pc' = IF feeding = "no" THEN "loop" ELSE "pause"))
  PROVE  CycleInv'
BY DEF CycleInv, Frames, Patient, InStep, Tended, Cycle, Clock, Producing, Waiting, Stream,
       Suspended, pipeline, life, deadline

\* The request whose last unit the parser takes is the last that a client without
\* pipelining has sent.
LEMMA NothingBehind ==
  ASSUME DataInv, OrderInv, ~closed, ~load.pipelining, pc = "feed", buf # <<>>,
         Completes(Head(buf))
  PROVE  Tail(buf) = <<>>
<1>1. /\ sent \in Nat /\ current \in Nat /\ net \in Streams /\ buf \in Streams
      /\ Len(buf) \in Nat /\ Len(net) \in Nat /\ Len(pending_buf) = 0
      /\ pending_buf = <<>> /\ ~in_flight
  BY Lengths, ConnectionAssumption DEF DataInv, DataOK, OrderInv, Frames
<1>2. ~(current > 0 /\ Stream(current)) /\ Len(ended) = current
  BY <1>1 DEF OrderInv, Handlers, Counts
<1>3. sent - Len(net) \in Int /\ sent - Len(net) - Len(pending_buf) = sent - Len(net)
  BY <1>1
<1>4. Segment(buf, sent - Len(net))
  BY <1>2, <1>3 DEF OrderInv, Bytes, NoByteLost, Stream
<1>5. Head(buf) = sent - Len(net) - Len(buf) + 1 /\ Len(Tail(buf)) = Len(buf) - 1
      /\ Tail(buf) \in Streams
  BY <1>1, <1>3, <1>4, SegmentTail, Lengths, SequenceTypes
<1>6. Len(buf) + Len(net) \in {sent - 2 * current, sent - 2 * current - 1}
  BY <1>1 DEF OrderInv, Bytes
<1>7. Len(buf) + Len(net) = sent - 2 * current - 1
  BY <1>1, <1>5, <1>6 DEF Completes
<1>8. sent <= 2 * current + 2
  BY <1>2 DEF OrderInv, Lockstep
<1>9. Len(Tail(buf)) = 0
  BY <1>1, <1>5, <1>7, <1>8, Lengths
<1> QED BY <1>5, <1>9, Lengths

\* Nor does do_read() find anything of such a client while a request is in flight.
LEMMA NothingToKeep ==
  ASSUME DataInv, OrderInv, CycleInv, ~load.pipelining, pc = "read", NEW n \in 1..Len(net),
         ReadAhead(n)
  PROVE  FALSE
<1>1. /\ sent \in Nat /\ current \in Nat /\ Len(net) \in Nat /\ Len(buf) \in Nat
      /\ Len(pending_buf) \in Nat
  BY Lengths, ConnectionAssumption DEF DataInv, DataOK
<1>2. ~closed /\ in_flight /\ current > 0 /\ Len(ended) = current - 1
  BY DEF ReadAhead, MustKeep, OrderInv, Frames, Counts, CycleInv, Cycle
<1>3. script[current].out # "ws"
  BY <1>2 DEF ReadAhead, WebSocketMode, CycleInv, Tended, Stream, Waiting, Suspended
<1>4. Len(buf) + Len(pending_buf) + Len(net) = sent - 2 * current
  BY <1>2, <1>3 DEF OrderInv, Bytes, NoByteLost
<1>5. sent <= 2 * current
  BY <1>1, <1>2 DEF OrderInv, Lockstep
<1> QED BY <1>1, <1>4, <1>5

-----------------------------------------------------------------------------
LEMMA CycleStep == DataInv /\ DataInv' /\ OrderInv /\ CycleInv /\ [Next]_vars => CycleInv'
<1> SUFFICES ASSUME DataInv, DataInv', OrderInv, CycleInv, [Next]_vars PROVE CycleInv'
  OBVIOUS
<1>0. load' = load /\ script' = script /\ Frames
  BY SameWorkload DEF OrderInv
<1> USE DEF client, control, pipeline, life, deadline, output
<1>l. pc = "loop" => feeding = "no"
  BY <1>0 DEF Frames
<1>1. CASE ClientSends
  BY <1>0, <1>1, SameCycle DEF ClientSends
<1>2. CASE ClientShutsDown
  BY <1>0, <1>2, SameCycle DEF ClientShutsDown
<1>3. CASE HangUp
  BY <1>0, <1>3, <1>l, ClosedCycle DEF HangUp, CloseOnly, Close
<1>4. CASE HandlerResumes
  BY <1>0, <1>4, <1>l DEF HandlerResumes, OrderInv, Handlers, Suspended, CycleInv, Patient, InStep,
                     Tended, Cycle, Clock, Waiting, Stream, Producing
<1>5. CASE HeaderTimeout
  BY <1>0, <1>5, <1>l, ClosedCycle DEF HeaderTimeout, Abort, Close, CycleInv, Clock
<1>6. CASE LateHeaderTimeout
  BY <1>6 DEF LateHeaderTimeout, CycleInv, Clock
<1>7. CASE RequestTimeout
  BY <1>0, <1>7, <1>l, ClosedCycle DEF RequestTimeout, Abort, Close
<1>8. CASE Readable
  BY <1>0, <1>8, <1>l DEF Readable, CycleInv, Patient, InStep, Tended, Cycle, Clock, Waiting,
                          Stream, Suspended, Producing
<1>9. CASE ReadNothing
  BY <1>0, <1>9 DEF ReadNothing, ToLoop, CycleInv, Patient, InStep, Tended, Cycle, Clock, Waiting,
                    Stream, Suspended, Producing
<1>10. CASE ReadEnd
  BY <1>0, <1>10, ClosedCycle DEF ReadEnd, CloseOnly, Close, ToLoop
<1>11. CASE Read
  <2> PICK n \in 1..Len(net) : Take(n) /\ (ReadFrames(n) \/ ReadAhead(n) \/ ReadRequest(n))
    BY <1>11 DEF Read
  <2>0. pc = "read" /\ ~closed /\ feeding = "no"
    BY <1>0, <1>11 DEF Read, Frames
  <2>1. CASE ReadFrames(n)
    BY <1>0, <2>0, <2>1, SameCycle DEF ReadFrames
  <2>2. CASE ReadAhead(n) /\ Len(pending_buf) + n > MaxPending
    BY <1>0, <2>2, ClosedCycle DEF ReadAhead, Abort, Close, ToLoop
  <2>3. CASE ReadAhead(n) /\ ~(Len(pending_buf) + n > MaxPending)
    <3>1. in_flight /\ load.pipelining
      BY <2>0, <2>3, NothingToKeep DEF ReadAhead, MustKeep, CycleInv, Cycle
    <3>2. /\ pc' = "read"
          /\ UNCHANGED <<feeding, buf, parser, in_flight, cycle_pending, current, life, deadline>>
      BY <2>3 DEF ReadAhead
    <3> QED BY <1>0, <2>0, <3>1, <3>2 DEF CycleInv, Patient, InStep, Tended, Cycle, Clock, Waiting,
                                          Stream, Suspended, Producing
  <2>4. CASE ReadRequest(n)
    BY <1>0, <2>0, <2>4 DEF ReadRequest, MustKeep, CycleInv, Patient, InStep, Tended, Cycle, Clock,
                            Waiting, Stream, Suspended, Producing
  <2> QED BY <2>1, <2>2, <2>3, <2>4
<1>12. CASE FeedPart
  BY <1>0, <1>12 DEF FeedPart, CycleInv, Patient, InStep, Tended, Cycle, Clock, Waiting, Stream,
                     Suspended, Producing
<1>13. CASE FeedError
  BY <1>0, <1>13, ClosedCycle DEF FeedError, Abort, Close, ToLoop
<1>14. CASE Dispatch
  <2> DEFINE r == RequestOf(Head(buf))
  <2>1. r \in Ids /\ script[r] \in load.shapes /\ script[r].await \in {"none", "sleep", "db"}
    BY <1>14, UnitTypes, SequenceTypes, ShapeTypes DEF Dispatch, DataInv, DataOK
  <2>2. /\ pc = "feed" /\ ~closed /\ ~in_flight /\ feeding # "no" /\ pending_buf = <<>>
        /\ in_flight' /\ ~header_tfd' /\ timeout_tfd' /\ stray' = stray /\ buf' = Tail(buf)
        /\ current' = r
        /\ UNCHANGED <<feeding, parser, pending_buf, cycle_pending, closed>>
    BY <1>0, <1>14 DEF Dispatch, HeaderToRequestTimer, Frames
  <2>3. \/ script[r].await = "none" /\ pc' = "respond"
        \/ script[r].await \in {"sleep", "db"} /\ pc' = "pause" /\ hstate'[r] = script[r].await
    BY <1>14, <2>1 DEF Dispatch, DataInv, DataOK, HandlerStates
  <2>4. load.pipelining => pc' = "pause"
    BY <2>1, <2>3 DEF CycleInv, Patient
  <2>5. ~load.pipelining => Tail(buf) = <<>>
    BY <1>14, <2>2, NothingBehind DEF Dispatch
  <2> HIDE DEF r
  <2>6. Patient' /\ InStep'
    BY <1>0, <2>2, <2>5 DEF CycleInv, Patient, InStep
  <2>7. Tended'
    BY <2>2, <2>3 DEF Tended, Waiting, Suspended
  <2>8. Cycle'
    BY <1>0, <2>2, <2>3, <2>4 DEF CycleInv, Cycle, Producing
  <2>9. Clock'
    BY <2>2, <2>3 DEF CycleInv, Clock
  <2> QED BY <2>6, <2>7, <2>8, <2>9 DEF CycleInv
<1>15. CASE FeedPaused
  <2>0. /\ feeding \in {"read", "replay"} /\ pc = "pause" /\ pending_buf = <<>>
        /\ closed => feeding = "read" /\ ~cycle_pending
        /\ ~closed => in_flight \/ (cycle_pending /\ feeding = "read")
        /\ parser' = "paused" /\ current' = current
    BY <1>0, <1>15 DEF FeedPaused, Frames, CycleInv, Cycle, DataInv, DataOK
  <2>1. CASE Len(buf) > MaxPending
    <3>1. Abort /\ ToLoop /\ UNCHANGED <<stray, in_flight, cycle_pending>>
      BY <1>15, <2>1 DEF FeedPaused, Fed, ReadFed, ReplayFed
    <3> QED BY <1>0, <3>1, ClosedCycle DEF Abort, Close, ToLoop
  <2>2. CASE ~(Len(buf) > MaxPending)
    <3>1. <<>> \o buf = buf
      BY DEF DataInv, DataOK, Streams
    <3>2. /\ pending_buf' = buf /\ buf' = <<>> /\ feeding' = "no" /\ ~cycle_pending'
          /\ UNCHANGED <<in_flight, life, deadline>>
          /\ IF closed THEN pc' = "loop" ELSE
             IF cycle_pending THEN pc' = "cycle" ELSE pc' \in {"loop", "read"}
      <4>1. CASE feeding = "read"
        BY <1>15, <2>0, <2>2, <3>1, <4>1 DEF FeedPaused, Fed, ReadFed
      <4>2. CASE feeding = "replay"
        BY <1>0, <1>15, <2>0, <2>2, <4>2 DEF FeedPaused, Fed, ReplayFed, AfterCycle, Frames
      <4> QED BY <2>0, <4>1, <4>2
    <3>3. CASE closed
      BY <1>0, <2>0, <3>2, <3>3, ClosedCycle DEF CycleInv, Clock
    <3>4. CASE ~closed
      BY <1>0, <2>0, <3>2, <3>4 DEF Frames, CycleInv, Patient, InStep, Tended, Cycle, Clock, Waiting,
                                    Stream, Suspended, Producing
    <3> QED BY <3>3, <3>4
  <2> QED BY <2>1, <2>2
<1>16. CASE FeedDrained
  <2>0. /\ feeding \in {"read", "replay"} /\ ~cycle_pending /\ ~closed /\ ~in_flight
        /\ pc = "feed" /\ pending_buf = <<>> /\ UNCHANGED <<parser, current>>
    BY <1>0, <1>16 DEF FeedDrained, Frames, DataInv, DataOK
  <2>1. Len(<<>>) = 0 /\ ~(0 > MaxPending) /\ <<>> \o <<>> = <<>>
    BY Lengths, ConnectionAssumption
  <2>2. /\ pending_buf' = <<>> /\ buf' = <<>> /\ feeding' = "no" /\ ~cycle_pending'
        /\ pc' \in {"loop", "read"} /\ header_tfd' /\ stray' = 0
        /\ UNCHANGED <<in_flight, life, timeout_tfd>>
    <3>1. CASE feeding = "read"
      BY <1>16, <2>0, <2>1, <3>1 DEF FeedDrained, Fed, ReadFed, CycleInv, Clock
    <3>2. CASE feeding = "replay"
      BY <1>16, <2>0, <2>1, <3>2 DEF FeedDrained, Fed, ReplayFed, AfterCycle, Rearm, ArmHeader,
                                     CycleInv, Clock
    <3> QED BY <2>0, <3>1, <3>2
  <2> QED BY <1>0, <2>0, <2>2 DEF CycleInv, Patient, InStep, Tended, Cycle, Clock, Waiting, Producing
<1>17. CASE FinishDispatch
  <2>0. pc = "respond" /\ UNCHANGED <<client, cur, pipeline>> /\ feeding # "replay"
        /\ (load.pipelining => feeding = "no") /\ (~closed => in_flight /\ cur = current)
    BY <1>0, <1>17 DEF FinishDispatch, Frames, CycleInv, Cycle
  <2>1. CASE EndStream
    BY <1>0, <2>0, <2>1, ClosedCycle DEF EndStream, Close, Unwind, CycleInv, Clock
  <2>2. CASE SendResponse /\ closed
    BY <1>0, <2>0, <2>2, ClosedCycle DEF SendResponse, Unwind, CycleInv, Clock
  <2>3. CASE SendResponse /\ ~closed
    <3>1. pc' = "write" /\ UNCHANGED <<feeding, buf, life, deadline>>
      BY <2>3 DEF SendResponse
    <3> QED BY <1>0, <2>0, <2>3, <3>1 DEF CycleInv, Patient, InStep, Tended, Cycle, Clock, Waiting,
                                     Producing
  <2>4. CASE ResponseTooLarge
    BY <1>0, <2>0, <2>4, ClosedCycle DEF ResponseTooLarge, Close, Unwind
  <2> QED BY <1>17, <2>1, <2>2, <2>3, <2>4 DEF FinishDispatch
<1>p. Producing => ~closed /\ in_flight /\ ~Stream(current) /\ feeding # "replay"
                   /\ (load.pipelining => feeding = "no")
  BY <1>0 DEF OrderInv, Frames, Output, CycleInv, Cycle, Producing
<1>18. CASE WriteAll
  BY <1>0, <1>18, <1>p, SameCycle DEF WriteAll, Producing
<1>19. CASE WritePart
  BY <1>0, <1>19, <1>p, SameCycle DEF WritePart, Unwind, Producing
<1>20. CASE Writable
  BY <1>0, <1>20, <1>l DEF Writable, OrderInv, Output, Waiting, CycleInv, Patient, InStep, Tended,
                           Cycle, Clock, Producing
<1>21. CASE SendfileAll
  BY <1>0, <1>21, <1>p, SameCycle DEF SendfileAll, Producing
<1>22. CASE SendfilePart
  BY <1>0, <1>22, <1>p, SameCycle DEF SendfilePart, Unwind, Producing
<1>23. CASE WriteError
  BY <1>0, <1>23, <1>p, ClosedCycle DEF WriteError, CloseOnly, Close, Unwind, Producing
<1>24. CASE WriteComplete
  <2>0. pc = "written" /\ Producing /\ ~in_flight' /\ UNCHANGED <<client, parser, pending_buf, current>>
    BY <1>24 DEF WriteComplete, Producing
  <2>1. CASE CloseOnly /\ Unwind /\ UNCHANGED cycle_pending
    BY <1>0, <1>p, <2>0, <2>1, ClosedCycle DEF CloseOnly, Close, Unwind
  <2>2. CASE ~(CloseOnly /\ Unwind /\ UNCHANGED cycle_pending)
    <3>1. /\ ~timeout_tfd'
          /\ IF feeding = "read" THEN cycle_pending' /\ pc' = "pause"
                                 ELSE cycle_pending' = cycle_pending /\ pc' = "cycle"
          /\ UNCHANGED <<feeding, buf, header_tfd, stray, life>>
      BY <1>24, <2>2 DEF WriteComplete, InParser
    <3> QED BY <1>0, <1>p, <2>0, <3>1 DEF CycleInv, Patient, InStep, Tended, Cycle, Clock, Producing
  <2> QED BY <2>1, <2>2
<1>25. CASE FinishCycle
  <2>0. /\ pc = "cycle" /\ ~closed /\ ~in_flight /\ ~cycle_pending /\ feeding = "no"
        /\ parser' = "ready"
        /\ UNCHANGED <<client, in_flight, cycle_pending, current, life>>
    BY <1>0, <1>25 DEF FinishCycle, Frames, CycleInv, Cycle, DataInv, DataOK
  <2>1. CASE pending_buf # <<>>
    <3>1. /\ load.pipelining /\ feeding' = "replay" /\ pc' = "feed" /\ pending_buf' = <<>>
          /\ UNCHANGED deadline
      BY <1>25, <2>0, <2>1 DEF FinishCycle, CycleInv, InStep
    <3> QED BY <1>0, <2>0, <3>1 DEF CycleInv, Patient, InStep, Tended, Cycle, Clock, Producing
  <2>2. CASE pending_buf = <<>>
    <3>1. /\ feeding' = "no" /\ buf' = <<>> /\ pending_buf' = <<>> /\ pc' \in {"loop", "read"}
          /\ header_tfd' /\ stray' = 0 /\ timeout_tfd' = timeout_tfd
      BY <1>25, <2>0, <2>2 DEF FinishCycle, Rearm, ArmHeader, AfterCycle, CycleInv, Clock
    <3> QED BY <1>0, <2>0, <3>1 DEF CycleInv, Patient, InStep, Tended, Cycle, Clock, Producing
  <2> QED BY <2>1, <2>2
<1>26. CASE UNCHANGED vars
  BY <1>0, <1>26, SameCycle DEF vars
<1> QED
  BY <1>1, <1>2, <1>3, <1>4, <1>5, <1>6, <1>7, <1>8, <1>9, <1>10, <1>11, <1>12, <1>13,
     <1>14, <1>15, <1>16, <1>17, <1>18, <1>19, <1>20, <1>21, <1>22, <1>23, <1>24, <1>25,
     <1>26 DEF Next, Environment, Timeouts, ReadPath, FeedPath, WritePath

LEMMA CycleHolds == ASSUME Orderly, Patience PROVE Spec => [](DataInv /\ OrderInv /\ CycleInv)
<1>1. Init => CycleInv
  BY CycleInit
<1>2. DataInv /\ OrderInv /\ DataInv' /\ CycleInv /\ [Next]_vars => CycleInv'
  BY CycleStep
<1> QED BY <1>1, <1>2, Order, PTL DEF Spec

\* Between two events an open connection has exactly one of its two deadlines, and no
\* timer that it has forgotten, unless it pipelines to handlers that answer at once or
\* into a socket that fills up.
THEOREM OneTimer == ASSUME Orderly, Patience PROVE Spec => []OneDeadline
<1>1. CycleInv /\ TypeOK => OneDeadline
  BY DEF CycleInv, Clock, TypeOK, FlagsOK, OneDeadline
<1> QED BY <1>1, CycleHolds, TypeCorrect, PTL

\* Nor does an idle connection keep its parser paused, or a request that it has read
\* (http_connection.hpp:58), under the same conditions.
THEOREM NeverStuck == ASSUME Orderly, Patience PROVE Spec => []NotStuckPaused
<1>1. CycleInv => NotStuckPaused
  BY DEF CycleInv, Cycle, NotStuckPaused
<1> QED BY <1>1, CycleHolds, PTL
=============================================================================
