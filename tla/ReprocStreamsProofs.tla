-------------------------- MODULE ReprocStreamsProofs --------------------------
(***************************************************************************)
(* Theorems about ReprocStreams, for all sizes of pipes, inputs and reads. *)
(***************************************************************************)
EXTENDS ReprocStreams, TLAPS

LEMMA MinOfType == \A a, b \in Int : MinOf(a, b) \in Int /\ MinOf(a, b) <= a /\ MinOf(a, b) <= b
  BY DEF MinOf

\* ReadReturns sets the variables of a call and of a drain, and these keep
\* their types.
ReadTypes ==
    /\ pc \in {"setup", "failed", "idle", "closed", "inner", "recv", "outer", "write"}
    /\ op \in {"none", "start", "read", "drain", "write"}
    /\ stream \in Streams
    /\ events \subseteq Streams \cup {"exit"}
    /\ rout \in Int /\ ret \in Int
    /\ open0 \subseteq Streams
    /\ ends \in [Streams -> 0..2]
    /\ missed \in BOOLEAN

LEMMA DoneTypes ==
    ASSUME NEW r \in Int, Done(r)
    PROVE  /\ pc' = "idle" /\ op' = "none" /\ stream' = "out" /\ events' = {} /\ rout' = 0
           /\ ret' \in Int
  BY DEF Done

LEMMA NextRoundTypes ==
    ASSUME ReadTypes, NEW valid, NextRound(valid)
    PROVE  /\ pc' \in {"idle", "outer"} /\ op' \in {"none", "drain"} /\ stream' = "out" /\ events' = {}
           /\ rout' = 0 /\ ret' \in Int
  BY DoneTypes DEF NextRound, ReadTypes, ETIMEDOUT

LEMMA AfterSingleTypes ==
    ASSUME ReadTypes, NEW valid, NEW result \in Int, AfterSingle(valid, result)
    PROVE  /\ pc' \in {"closed", "inner", "recv", "idle", "outer"}
           /\ op' \in {"none", "start", "read", "drain", "write"}
           /\ stream' \in Streams
           /\ events' \subseteq Streams \cup {"exit"}
           /\ rout' \in Int /\ ret' \in Int
<1>1. CASE stream = "out" /\ events \cap {"err", "exit"} # {}
  BY <1>1 DEF AfterSingle, Entry, ReadTypes, Streams
<1>2. CASE ~(stream = "out" /\ events \cap {"err", "exit"} # {})
  <2>1. EndRound(valid, result)
    BY <1>2 DEF AfterSingle
  <2>2. \/ \E r \in Int : Done(r)
        \/ NextRound(valid)
    BY <2>1 DEF EndRound, ReadTypes
  <2>3. QED
    BY <2>2, DoneTypes, NextRoundTypes DEF Streams
<1>3. QED
  BY <1>1, <1>2

LEMMA ReadReturnsTypes ==
    ASSUME ReadTypes, NEW r \in Int, NEW valid, ReadReturns(r, valid)
    PROVE  ReadTypes' /\ pipe' = valid /\ pc' \in {"closed", "inner", "recv", "idle", "outer"}
<1>1. CASE op = "read" /\ Done(r) /\ UNCHANGED ends
  BY <1>1, DoneTypes DEF ReadReturns, ReadTypes, Streams
<1>2. CASE /\ ToSink(r)
           /\ ends' = IF r = EPIPE THEN [ends EXCEPT ![stream] = MinOf(2, @ + 1)] ELSE ends
           /\ \E result \in SinkResults : AfterSingle(valid, result)
  <2>1. PICK result \in SinkResults : AfterSingle(valid, result)
    BY <1>2
  <2>2. result \in Int
    BY DEF SinkResults, SINK_FAILED
  <2>3. ends' \in [Streams -> 0..2]
    BY <1>2 DEF ReadTypes, MinOf, Streams
  <2>4. QED
    BY <2>1, <2>2, <2>3, AfterSingleTypes DEF ReadReturns, ReadTypes
<1>3. CASE ~ToSink(r) /\ AfterSingle(valid, r) /\ UNCHANGED ends
  BY <1>3, AfterSingleTypes DEF ReadReturns, ReadTypes
<1>4. QED
  BY <1>1, <1>2, <1>3 DEF ReadReturns
-----------------------------------------------------------------------------
(* Type correctness. *)

USE StreamsAssumption

\* The types of the variables that ReadTypes leaves out.
OtherTypes ==
    /\ platform \in Platforms /\ nonblocking \in BOOLEAN /\ deadline \in BOOLEAN
    /\ piped \in Pipings /\ echo \in BOOLEAN /\ size \in Inputs
    /\ pipe \subseteq piped /\ kept \subseteq piped
    /\ stdin \in BOOLEAN /\ exit \in BOOLEAN
    /\ written \in 0..(IF size = NoInput THEN 0 ELSE size)
    /\ alive \in BOOLEAN /\ heirs \in BOOLEAN /\ held \subseteq Streams \cup {"in"}
    /\ todo \in [Streams -> Nat]
    /\ data \in [Streams -> 0..Capacity] /\ indata \in 0..InCapacity
    /\ expired \in BOOLEAN
    /\ fed \in Nat
    /\ closed \subseteq Streams

LEMMA TypeParts == TypeOK <=> ReadTypes /\ OtherTypes
  BY DEF TypeOK, ReadTypes, OtherTypes

LEMMA InitTypes == Init => ReadTypes /\ OtherTypes
<1> SUFFICES ASSUME Init PROVE ReadTypes /\ OtherTypes
  OBVIOUS
<1>1. /\ nonblocking \in BOOLEAN /\ deadline \in BOOLEAN /\ echo \in BOOLEAN /\ stdin \in BOOLEAN
      /\ exit \in BOOLEAN /\ alive \in BOOLEAN /\ heirs \in BOOLEAN /\ expired \in BOOLEAN
      /\ missed \in BOOLEAN
  BY Zenon DEF Init
<1>2. todo \in [Streams -> Nat] /\ data \in [Streams -> 0..Capacity] /\ ends \in [Streams -> 0..2]
  BY DEF Init
<1>3. written \in 0..(IF size = NoInput THEN 0 ELSE size)
  BY DEF Init, NoInput
<1>4. ReadTypes
  BY <1>1, <1>2 DEF Init, ReadTypes, Streams
<1>5. OtherTypes
  <2>1. platform \in Platforms /\ piped \in Pipings /\ size \in Inputs
    BY Zenon DEF Init
  <2>2. pipe \subseteq piped /\ kept \subseteq piped /\ held \subseteq Streams \cup {"in"}
        /\ closed \subseteq Streams
    BY Zenon DEF Init
  <2>3. indata \in 0..InCapacity /\ fed \in Nat
    BY DEF Init
  <2>4. QED
    BY <1>1, <1>2, <1>3, <2>1, <2>2, <2>3, Zenon DEF OtherTypes
<1>6. QED
  BY <1>4, <1>5

\* What reproc_poll may report is ready, and it reports the exit event alone only if
\* nothing else is ready.
LEMMA ReportsOf ==
    ASSUME NEW interests, NEW ev \in Reports(interests)
    PROVE  /\ ev \subseteq Ready(interests)
           /\ platform = "posix" => ev = Ready(interests)
           /\ OnlyExit(ev) => OnlyExit(Ready(interests))
<1>1. CASE platform = "posix" \/ Ready(interests) = {}
  BY <1>1 DEF Reports
<1>2. CASE ~(platform = "posix" \/ Ready(interests) = {})
  <2>1. ev \subseteq Ready(interests) /\ Middle(Ready(interests)) \in ev
    BY <1>2 DEF Reports
  <2>2. OnlyExit(ev) => Middle(Ready(interests)) = "exit"
    BY <2>1 DEF OnlyExit, Middle, Streams
  <2>3. Middle(Ready(interests)) = "exit" => Ready(interests) \cap Streams = {}
    BY DEF Middle, Streams
  <2>4. QED
    BY <1>2, <2>1, <2>2, <2>3 DEF OnlyExit
<1>3. QED
  BY <1>1, <1>2

\* The child or the heirs come to their end: only ends that were open stay open.
LEMMA GoneOf ==
    ASSUME ChildExits \/ ChildDies \/ HeirsEnd
    PROVE  \E left \in SUBSET held : Gone(left)
  BY DEF ChildExits, ChildDies, HeirsEnd

\* The actions that read leave the other types alone, one by one.
LEMMA ReadStepTypes ==
    ASSUME ReadTypes, OtherTypes,
           \/ ReadClosed \/ InnerEvents \/ InnerDeadline \/ InnerBlocks \/ RecvData
           \/ RecvEnd \/ RecvBlocks \/ RecvInterrupted
    PROVE  ReadTypes' /\ OtherTypes'
<1>1. CASE ReadClosed
  BY <1>1, ReadReturnsTypes DEF ReadClosed, OtherTypes, fixed, child, pipes, EPIPE
<1>2. CASE InnerEvents
  <2>1. missed' \in BOOLEAN
    BY <1>2, Zenon DEF InnerEvents
  <2>2. kept' \subseteq kept
    BY <1>2 DEF InnerEvents, KeptAfter
  <2>3. QED
    BY <1>2, <2>1, <2>2 DEF InnerEvents, ReadTypes, OtherTypes, fixed, child, pipes
<1>3. CASE InnerDeadline
  BY <1>3 DEF InnerDeadline, ReadTypes, OtherTypes, fixed, handle, child, pipes, drain
<1>4. CASE InnerBlocks
  BY <1>4, ReadReturnsTypes DEF InnerBlocks, OtherTypes, fixed, child, pipes, EWOULDBLOCK
<1>5. CASE RecvData
  <2>1. stream \in Streams /\ data[stream] \in 0..Capacity /\ data[stream] > 0
    BY <1>5 DEF RecvData, ReadTypes, OtherTypes
  <2>2. MinOf(Chunk, data[stream]) \in 1..data[stream]
    BY <2>1 DEF MinOf
  <2>3. ReadTypes' /\ pipe' = pipe
    BY <1>5, <2>2, ReadReturnsTypes DEF RecvData
  <2>4. data' \in [Streams -> 0..Capacity]
    BY <1>5, <2>1, <2>2 DEF RecvData, OtherTypes
  <2>5. QED
    BY <1>5, <2>3, <2>4 DEF RecvData, OtherTypes, fixed, child
<1>6. CASE RecvEnd
  BY <1>6, ReadReturnsTypes DEF RecvEnd, OtherTypes, fixed, child, pipes, EPIPE, PipesAfterEnd
<1>7. CASE RecvBlocks
  BY <1>7, ReadReturnsTypes DEF RecvBlocks, OtherTypes, fixed, child, pipes, EWOULDBLOCK, BlockedPipes
<1>8. CASE RecvInterrupted
  BY <1>8, ReadReturnsTypes DEF RecvInterrupted, OtherTypes, fixed, child, pipes, EINTR
<1>9. QED
  BY <1>1, <1>2, <1>3, <1>4, <1>5, <1>6, <1>7, <1>8

LEMMA StartStepTypes ==
    ASSUME ReadTypes, OtherTypes, SetupWrites \/ SetupFails \/ StartChild
    PROVE  ReadTypes' /\ OtherTypes'
<1>1. CASE SetupWrites
  <2>1. PICK n \in 1..MinOf(size - written, InCapacity - indata) :
                written' = written + n /\ indata' = indata + n
    BY <1>1 DEF SetupWrites
  <2>2. size \in Nat /\ written \in 0..size /\ indata \in 0..InCapacity
    BY <1>1 DEF SetupWrites, OtherTypes, NoInput
  <2>3. n \in Nat /\ n <= size - written /\ n <= InCapacity - indata
    BY <2>1, <2>2, MinOfType
  <2>4. written' \in 0..size /\ indata' \in 0..InCapacity
    BY <2>1, <2>2, <2>3
  <2>5. QED
    BY <1>1, <2>2, <2>4 DEF SetupWrites, ReadTypes, OtherTypes, NoInput, fixed, handle, call, child, drain
<1>2. CASE SetupFails
  <2>1. ReadTypes'
    BY <1>2 DEF SetupFails, ReadTypes, drain, EWOULDBLOCK
  <2>2. pipe' = {} /\ stdin' \in BOOLEAN /\ exit' \in BOOLEAN
    BY <1>2, Zenon DEF SetupFails
  <2>3. UNCHANGED <<fixed, kept, written, child, pipes, expired, closed>>
    BY <1>2, Zenon DEF SetupFails
  <2>4. QED
    BY <2>1, <2>2, <2>3 DEF OtherTypes, fixed, child, pipes
<1>3. CASE StartChild
  BY <1>3, DoneTypes DEF StartChild, ReadTypes, OtherTypes, fixed, pipes, drain, KeepEnds, CloseInput, Streams
<1>4. QED
  BY <1>1, <1>2, <1>3

LEMMA DrainStepTypes ==
    ASSUME ReadTypes, OtherTypes,
           CallRead \/ CallDrain \/ OuterEvents \/ OuterDeadline \/ OuterInterrupted
    PROVE  ReadTypes' /\ OtherTypes'
<1>1. CASE CallRead
  <2>1. missed' \in BOOLEAN
    BY <1>1, Zenon DEF CallRead, Forget
  <2>2. QED
    BY <1>1, <2>1 DEF CallRead, Entry, Forget, ReadTypes, OtherTypes, fixed, handle, child, pipes, Streams
<1>2. CASE CallDrain
  <2>1. missed' \in BOOLEAN
    BY <1>2, Zenon DEF CallDrain
  <2>2. QED
    BY <1>2, <2>1, DoneTypes, NextRoundTypes
       DEF CallDrain, ReadTypes, OtherTypes, fixed, handle, child, pipes, SINK_FAILED, Streams
<1>3. CASE OuterEvents
  <2>1. missed' \in BOOLEAN
    BY <1>3, Zenon DEF OuterEvents
  <2>2. PICK ev \in Reports(Streams) :
            /\ events' = ev
            /\ stream' = IF ev \cap {"out", "exit"} # {} THEN "out" ELSE "err"
            /\ pc' = Entry(stream')
    BY <1>3 DEF OuterEvents
  <2>3. ev \subseteq Streams \cup {"exit"}
    BY <2>2, ReportsOf DEF Ready, Polled
  <2>4. QED
    BY <1>3, <2>1, <2>2, <2>3
       DEF OuterEvents, Entry, ReadTypes, OtherTypes, fixed, handle, child, pipes, Streams
<1>4. CASE OuterDeadline
  BY <1>4, DoneTypes DEF OuterDeadline, ReadTypes, OtherTypes, fixed, handle, child, pipes, drain, ETIMEDOUT, Streams
<1>5. CASE OuterInterrupted
  BY <1>5, DoneTypes DEF OuterInterrupted, ReadTypes, OtherTypes, fixed, handle, child, pipes, drain, EINTR, Streams
<1>6. QED
  BY <1>1, <1>2, <1>3, <1>4, <1>5

LEMMA WriteStepTypes ==
    ASSUME ReadTypes, OtherTypes,
           \/ CallWrite \/ WriteData \/ WriteEnd \/ WriteBlocks \/ WriteInterrupted
           \/ CloseStdin \/ CloseStream \/ Reap
    PROVE  ReadTypes' /\ OtherTypes'
<1>1. CASE CallWrite
  <2>1. missed' \in BOOLEAN
    BY <1>1, Zenon DEF CallWrite, Forget
  <2>2. QED
    BY <1>1, <2>1 DEF CallWrite, Forget, ReadTypes, OtherTypes, fixed, handle, child, pipes, Streams
<1>2. CASE WriteData
  BY <1>2, DoneTypes DEF WriteData, ReadTypes, OtherTypes, fixed, handle, child, drain, Streams
<1>3. CASE WriteEnd
  <2>1. \E r \in Int : Done(r)
    BY <1>3 DEF WriteEnd, EPIPE, ECONNRESET
  <2>2. UNCHANGED <<fixed, pipe, kept, exit, written, child, pipes, expired, closed, drain>>
    BY <1>3, Zenon DEF WriteEnd
  <2>3. stdin' \in BOOLEAN
    BY <1>3, Zenon DEF WriteEnd, OtherTypes
  <2>4. QED
    BY <2>1, <2>2, <2>3, DoneTypes DEF ReadTypes, OtherTypes, fixed, child, pipes, drain, Streams
<1>4. CASE WriteBlocks
  BY <1>4, DoneTypes DEF WriteBlocks, ReadTypes, OtherTypes, fixed, handle, child, pipes, drain, EWOULDBLOCK, Streams
<1>5. CASE WriteInterrupted
  BY <1>5, DoneTypes DEF WriteInterrupted, ReadTypes, OtherTypes, fixed, handle, child, pipes, drain, EINTR, Streams
<1>6. CASE CloseStdin
  <2>1. stdin' \in BOOLEAN /\ ret' = 0
    BY <1>6, Zenon DEF CloseStdin
  <2>2. UNCHANGED <<fixed, pipe, kept, exit, pc, op, stream, events, rout, written, child, pipes, expired,
                    closed, drain>>
    BY <1>6, Zenon DEF CloseStdin
  <2>3. QED
    BY <2>1, <2>2 DEF ReadTypes, OtherTypes, fixed, child, pipes, drain
<1>7. CASE CloseStream
  BY <1>7 DEF CloseStream, ReadTypes, OtherTypes, fixed, child, pipes, drain
<1>8. CASE Reap
  BY <1>8 DEF Reap, ReadTypes, OtherTypes, fixed, call, child, pipes, drain
<1>9. QED
  BY <1>1, <1>2, <1>3, <1>4, <1>5, <1>6, <1>7, <1>8

LEMMA ChildStepTypes ==
    ASSUME ReadTypes, OtherTypes,
           \/ \E s \in Streams : ChildWrites(s)
           \/ ChildReads \/ ChildExits \/ ChildDies \/ HeirsEnd \/ Expire
           \/ \E s \in Streams \cup {"in"} : ChildCloses(s)
    PROVE  ReadTypes' /\ OtherTypes'
<1>1. ASSUME NEW s \in Streams, ChildWrites(s) PROVE ReadTypes' /\ OtherTypes'
  <2>1. data' \in [Streams -> 0..Capacity]
    <3>1. CASE s \in pipe
      BY <1>1, <3>1 DEF ChildWrites, OtherTypes
    <3>2. CASE s \notin pipe
      BY <1>1, <3>2 DEF ChildWrites, OtherTypes
    <3>3. QED
      BY <3>1, <3>2
  <2>2. todo' \in [Streams -> Nat]
    BY <1>1 DEF ChildWrites, OtherTypes
  <2>3. QED
    BY <1>1, <2>1, <2>2 DEF ChildWrites, ReadTypes, OtherTypes, fixed, handle, call, drain
<1>2. CASE ChildReads
  <2>1. todo' \in [Streams -> Nat]
    BY <1>2 DEF ChildReads, OtherTypes
  <2>2. QED
    BY <1>2, <2>1 DEF ChildReads, ReadTypes, OtherTypes, fixed, handle, call, drain
<1>3. CASE ChildExits \/ ChildDies \/ HeirsEnd
  <2>1. PICK left \in SUBSET held : Gone(left)
    BY <1>3, GoneOf
  <2>2. alive' \in BOOLEAN /\ heirs' \in BOOLEAN /\ held' = left
    BY <2>1, Zenon DEF Gone
  <2>3. todo' \in [Streams -> Nat]
    BY <2>1 DEF Gone, OtherTypes
  <2>4. UNCHANGED <<fixed, handle, call, written, fed, pipes, expired, closed, drain>>
    BY <2>1, Zenon DEF Gone
  <2>5. QED
    BY <2>2, <2>3, <2>4 DEF ReadTypes, OtherTypes, fixed, handle, call, pipes, drain
<1>4. CASE Expire
  BY <1>4 DEF Expire, ReadTypes, OtherTypes, fixed, handle, call, child, pipes, drain
<1>5. ASSUME NEW s \in Streams \cup {"in"}, ChildCloses(s) PROVE ReadTypes' /\ OtherTypes'
  BY <1>5 DEF ChildCloses, ReadTypes, OtherTypes, fixed, handle, call, pipes, drain
<1>6. QED
  BY <1>1, <1>2, <1>3, <1>4, <1>5

LEMMA StutterTypes == ReadTypes /\ OtherTypes /\ UNCHANGED vars => ReadTypes' /\ OtherTypes'
  BY DEF vars, ReadTypes, OtherTypes, fixed, handle, call, child, pipes, drain

\* Every variable of ReprocStreams keeps its type: no pipe holds more than it
\* can, no sum of what is written to the input pipe exceeds the input.
THEOREM StreamsTypeCorrect == Spec => []TypeOK
<1>1. Init => TypeOK
  BY InitTypes, TypeParts
<1>2. TypeOK /\ [Next]_vars => TypeOK'
  <2>1. SUFFICES ASSUME ReadTypes, OtherTypes, [Next]_vars PROVE ReadTypes' /\ OtherTypes'
    BY TypeParts DEF TypeOK, ReadTypes, OtherTypes
  <2>2. QED
    BY <2>1, ReadStepTypes, StartStepTypes, DrainStepTypes, WriteStepTypes, ChildStepTypes, StutterTypes
       DEF Next, Library, Child
<1>3. QED
  BY <1>1, <1>2, PTL DEF Spec
-----------------------------------------------------------------------------
(* What the library does to a stream that it gives up, and to the input. *)

\* Before the child is started nothing has been given up and all that was
\* written to the input pipe is still in it; a write is only in progress while
\* the pipe is open.
StreamsInv ==
    /\ TypeOK
    /\ pc = "setup" => pipe = piped /\ stdin /\ held = {} /\ fed = 0 /\ indata = written
    /\ pc = "write" => stdin
    /\ ClosedAtEnd
    /\ InputThenEnd

\* What the lemmas below start from; the types of the next state are known from
\* StreamsTypeCorrect.
Rest == StreamsInv /\ TypeOK'

LEMMA StartStepInv ==
    ASSUME Rest, SetupWrites \/ SetupFails \/ StartChild
    PROVE  StreamsInv'
<1>1. CASE SetupWrites
  BY <1>1 DEF Rest, StreamsInv, SetupWrites, TypeOK, Started, ClosedAtEnd, InputThenEnd, fixed, handle, call, child
<1>2. CASE SetupFails
  BY <1>2 DEF Rest, StreamsInv, SetupFails, Started, ClosedAtEnd, InputThenEnd
<1>3. CASE StartChild
  <2>1. pc' = "idle" /\ pipe' = piped' /\ size' = size
    BY <1>3 DEF Rest, StreamsInv, StartChild, Done, fixed
  <2>2. size # NoInput => fed' = 0 /\ indata' = size
    BY <1>3 DEF Rest, StreamsInv, StartChild, TypeOK, pipes, NoInput
  <2>3. size # NoInput => ~stdin'
    BY <1>3, Zenon DEF StartChild, CloseInput
  <2>4. ClosedAtEnd'
    BY <2>1 DEF ClosedAtEnd
  <2>5. InputThenEnd'
    BY <2>1, <2>2, <2>3 DEF InputThenEnd, NoInput, Rest, TypeOK
  <2>6. QED
    BY <2>1, <2>4, <2>5 DEF Rest, StreamsInv
<1>4. QED
  BY <1>1, <1>2, <1>3

\* A step that leaves the child, its pipes and the input alone, and gives up
\* no stream but one that has ended.
LEMMA QuietInv ==
    ASSUME Rest,
           pc \in {"idle", "closed", "inner", "recv", "outer", "write"},
           pc' \in {"idle", "closed", "inner", "recv", "outer", "write"},
           pc' = "write" => stdin',
           stdin' => stdin,
           kept' \subseteq kept, held' \subseteq held,
           \A s \in piped \ (pipe' \cup closed') :
                s \in piped \ (pipe \cup closed) \/ (Ended(s) /\ data[s] = 0),
           \A s \in Streams : data[s] = 0 => data'[s] = 0,
           piped' = piped, size' = size,
           size # NoInput /\ ~stdin => fed' + indata' = fed + indata
    PROVE  StreamsInv'
<1>1. Started /\ pc' # "setup"
  BY DEF Started
<1>2. ClosedAtEnd'
  <2>1. SUFFICES ASSUME NEW s \in piped \ (pipe' \cup closed')
                 PROVE  s \notin held' /\ s \notin kept' /\ data'[s] = 0
    BY DEF ClosedAtEnd, Ended
  <2>2. Ended(s) /\ data[s] = 0
    BY <1>1 DEF Rest, StreamsInv, ClosedAtEnd
  <2>3. s \in Streams
    BY DEF Rest, StreamsInv, TypeOK
  <2>4. QED
    BY <2>2, <2>3 DEF Ended
<1>3. InputThenEnd'
  BY <1>1 DEF Rest, StreamsInv, InputThenEnd
<1>4. QED
  BY <1>1, <1>2, <1>3 DEF Rest, StreamsInv

LEMMA ReadStepInv ==
    ASSUME Rest,
           \/ ReadClosed \/ InnerEvents \/ InnerDeadline \/ InnerBlocks \/ RecvData
           \/ RecvEnd \/ RecvBlocks \/ RecvInterrupted
    PROVE  StreamsInv'
<1> USE DEF Rest, StreamsInv, fixed, handle, child, pipes
<1>0. ReadTypes
  BY TypeParts
<1>1. CASE ReadClosed
  BY <1>0, <1>1, ReadReturnsTypes, QuietInv DEF ReadClosed, EPIPE
<1>2. CASE InnerEvents
  BY <1>2, QuietInv DEF InnerEvents, KeptAfter
<1>3. CASE InnerDeadline
  BY <1>3, QuietInv DEF InnerDeadline
<1>4. CASE InnerBlocks
  BY <1>0, <1>4, ReadReturnsTypes, QuietInv DEF InnerBlocks, EWOULDBLOCK
<1>5. CASE RecvData
  <2>1. MinOf(Chunk, data[stream]) \in Int
    BY DEF MinOf, TypeOK
  <2>2. pipe' = pipe /\ pc' \in {"closed", "inner", "recv", "idle", "outer"}
    BY <1>0, <1>5, <2>1, ReadReturnsTypes DEF RecvData
  <2>3. \A s \in Streams : data[s] = 0 => data'[s] = 0
    BY <1>5 DEF RecvData, TypeOK
  <2>4. QED
    BY <1>5, <2>2, <2>3, QuietInv DEF RecvData
<1>6. CASE RecvEnd
  BY <1>0, <1>6, ReadReturnsTypes, QuietInv DEF RecvEnd, EPIPE, PipesAfterEnd
<1>7. CASE RecvBlocks
  BY <1>0, <1>7, ReadReturnsTypes, QuietInv DEF RecvBlocks, EWOULDBLOCK, BlockedPipes
<1>8. CASE RecvInterrupted
  BY <1>0, <1>8, ReadReturnsTypes, QuietInv DEF RecvInterrupted, EINTR
<1>9. QED
  BY <1>1, <1>2, <1>3, <1>4, <1>5, <1>6, <1>7, <1>8

LEMMA DrainStepInv ==
    ASSUME Rest, CallRead \/ CallDrain \/ OuterEvents \/ OuterDeadline \/ OuterInterrupted
    PROVE  StreamsInv'
<1> USE DEF Rest, StreamsInv, fixed, handle, child, pipes
<1>1. CASE CallRead
  BY <1>1, QuietInv DEF CallRead, Entry
<1>2. CASE CallDrain
  BY <1>2, QuietInv DEF CallDrain, Done, NextRound
<1>3. CASE OuterEvents
  BY <1>3, QuietInv DEF OuterEvents, Entry
<1>4. CASE OuterDeadline
  BY <1>4, QuietInv DEF OuterDeadline, Done
<1>5. CASE OuterInterrupted
  BY <1>5, QuietInv DEF OuterInterrupted, Done
<1>6. QED
  BY <1>1, <1>2, <1>3, <1>4, <1>5

LEMMA WriteStepInv ==
    ASSUME Rest,
           \/ CallWrite \/ WriteData \/ WriteEnd \/ WriteBlocks \/ WriteInterrupted
           \/ CloseStdin \/ CloseStream \/ Reap
    PROVE  StreamsInv'
<1> USE DEF Rest, StreamsInv, fixed, handle, call, child, pipes
<1>1. CASE CallWrite
  BY <1>1, QuietInv DEF CallWrite
<1>2. CASE WriteData
  BY <1>2, QuietInv DEF WriteData, Done
<1>3. CASE WriteEnd
  BY <1>3, QuietInv DEF WriteEnd, Done
<1>4. CASE WriteBlocks
  BY <1>4, QuietInv DEF WriteBlocks, Done
<1>5. CASE WriteInterrupted
  BY <1>5, QuietInv DEF WriteInterrupted, Done
<1>6. CASE CloseStdin
  BY <1>6, QuietInv DEF CloseStdin
<1>7. CASE CloseStream
  BY <1>7, QuietInv DEF CloseStream
<1>8. CASE Reap
  BY <1>8, QuietInv DEF Reap
<1>9. QED
  BY <1>1, <1>2, <1>3, <1>4, <1>5, <1>6, <1>7, <1>8

\* Before the child is started it has nothing open; afterwards only an end that
\* it has open makes a difference.
LEMMA ChildStepInv ==
    ASSUME Rest,
           \/ \E s \in Streams : ChildWrites(s)
           \/ ChildReads \/ ChildExits \/ ChildDies \/ HeirsEnd \/ Expire
           \/ \E s \in Streams \cup {"in"} : ChildCloses(s)
    PROVE  StreamsInv'
<1> USE DEF Rest, StreamsInv, Started, fixed, handle, call
<1>1. ASSUME NEW s \in Streams, ChildWrites(s) PROVE StreamsInv'
  <2>1. \A t \in Streams : t # s => data'[t] = data[t]
    BY <1>1 DEF ChildWrites, TypeOK
  <2>2. ClosedAtEnd'
    BY <1>1, <2>1 DEF ChildWrites, ClosedAtEnd, Ended, TypeOK
  <2>3. QED
    BY <1>1, <2>2 DEF ChildWrites, InputThenEnd
<1>2. CASE ChildReads
  <2>1. pc # "setup" /\ fed' + indata' = fed + indata
    BY <1>2 DEF ChildReads, TypeOK
  <2>2. ClosedAtEnd'
    BY <1>2 DEF ChildReads, ClosedAtEnd, Ended
  <2>3. QED
    BY <1>2, <2>1, <2>2 DEF ChildReads, InputThenEnd
<1>3. CASE ChildExits \/ ChildDies \/ HeirsEnd
  <2>1. PICK left \in SUBSET held : Gone(left)
    BY <1>3, GoneOf
  <2>2. held' \subseteq held /\ UNCHANGED <<fixed, handle, call, written, fed, pipes, expired, closed, drain>>
    BY <2>1 DEF Gone
  <2>3. ClosedAtEnd'
    BY <2>2 DEF ClosedAtEnd, Ended, pipes
  <2>4. QED
    BY <2>2, <2>3 DEF InputThenEnd, pipes
<1>4. CASE Expire
  BY <1>4 DEF Expire, ClosedAtEnd, InputThenEnd, Ended, child, pipes
<1>5. ASSUME NEW s \in Streams \cup {"in"}, ChildCloses(s) PROVE StreamsInv'
  BY <1>5 DEF ChildCloses, ClosedAtEnd, InputThenEnd, Ended, pipes
<1>6. QED
  BY <1>1, <1>2, <1>3, <1>4, <1>5

LEMMA StutterInv == Rest /\ UNCHANGED vars => StreamsInv'
  BY DEF Rest, StreamsInv, ClosedAtEnd, InputThenEnd, Started, Ended,
         vars, fixed, handle, call, child, pipes

LEMMA InitInv == Init => StreamsInv
<1> SUFFICES ASSUME Init PROVE StreamsInv
  OBVIOUS
<1>1. TypeOK
  BY InitTypes, TypeParts
<1>2. pc = "setup" /\ pipe = piped /\ stdin /\ held = {} /\ fed = 0 /\ indata = written
  BY DEF Init
<1>3. QED
  BY <1>1, <1>2 DEF StreamsInv, ClosedAtEnd, InputThenEnd, Started

LEMMA StreamsInvariant == Spec => []StreamsInv
<1>1. StreamsInv /\ TypeOK' /\ [Next]_vars => StreamsInv'
  BY StartStepInv, ReadStepInv, DrainStepInv, WriteStepInv, ChildStepInv, StutterInv
     DEF Rest, Next, Library, Child
<1>2. QED
  BY <1>1, InitInv, StreamsTypeCorrect, PTL DEF Spec

\* reproc_read and reproc_drain close an output pipe of their own accord only
\* when no process can write to it and all that was written has been read.
THEOREM StreamsClosedAtEnd == Spec => []ClosedAtEnd
<1>1. StreamsInv => ClosedAtEnd
  BY DEF StreamsInv
<1>2. QED
  BY <1>1, StreamsInvariant, PTL

\* reproc_start with options.input: a child that is started finds all of the
\* input, and after it the end of file, however large the input and the pipe.
THEOREM StreamsInputThenEnd == Spec => []InputThenEnd
<1>1. StreamsInv => InputThenEnd
  BY DEF StreamsInv
<1>2. QED
  BY <1>1, StreamsInvariant, PTL
-----------------------------------------------------------------------------
(* A drain that returns 0 has delivered everything. *)

ReadPcs == {"closed", "inner", "recv"}

\* No process is left that could write to a stream, and the exit pipe tells.
Nobody == ~alive /\ ~heirs

\* A drain in progress has told the sink of every stream that it found open and
\* has given up since.  A round that the exit event alone began finds nothing
\* in the pipes, and no process will fill them.
DrainInv ==
    /\ StreamsInv
    /\ Nobody => held = {}
    /\ closed \cap pipe = {}
    /\ pc = "closed" => stream \notin pipe
    /\ pc \in {"inner", "recv"} => stream \in pipe
    /\ op = "drain" =>
        /\ pc \in ReadPcs \cup {"outer"}
        /\ open0 \subseteq piped
        /\ open0 \cap closed = {}
        /\ \A s \in open0 \ pipe : ends[s] > 0
    /\ op = "drain" /\ pc # "outer" /\ OnlyExit(events) =>
        /\ Nobody
        /\ \A s \in pipe : data[s] = 0
        /\ stream = "err" /\ rout = 0 => "out" \notin pipe

\* What DrainComplete says of one step.
Delivered ==
    DrainEnds /\ ret' = 0 => \A s \in open0 :
        /\ s \notin pipe' \cup kept' \cup held'
        /\ data'[s] = 0
        /\ ends'[s] > 0

\* A step in the background of the call in progress: nothing that is dead
\* comes back to life or writes.
LEMMA BackgroundDrain ==
    ASSUME DrainInv, StreamsInv',
           UNCHANGED <<op, stream, events, rout, pipe, piped, closed, open0, ends>>,
           pc' = pc \/ (pc = "inner" /\ pc' = "recv"),
           Nobody' => held' = {},
           Nobody => Nobody' /\ data' = data
    PROVE  DrainInv' /\ Delivered
<1>1. Delivered
  BY DEF Delivered, DrainEnds
<1>2. op' = "drain" => pc' \in ReadPcs \cup {"outer"}
  BY DEF DrainInv, ReadPcs
<1>3. QED
  BY <1>1, <1>2 DEF DrainInv, OnlyExit

\* A step of another call than reproc_drain.
LEMMA OtherDrain ==
    ASSUME DrainInv, StreamsInv',
           op # "drain", op' # "drain",
           Nobody' => held' = {},
           closed' \cap pipe' = {},
           pc' = "closed" => stream' \notin pipe',
           pc' \in {"inner", "recv"} => stream' \in pipe'
    PROVE  DrainInv' /\ Delivered
  BY DEF DrainInv, Delivered, DrainEnds

\* After one stream of a round: the other one is next, or the round is over, and
\* the drain returns 0 only if no pipe is left.
LEMMA AfterSingleDrain ==
    ASSUME DrainInv, op = "drain", pc \in ReadPcs,
           NEW valid, valid \subseteq pipe, pipe \ {stream} \subseteq valid,
           NEW result \in Int,
           OnlyExit(events) /\ result = 0 => stream \notin valid,
           AfterSingle(valid, result),
           pipe' = valid
    PROVE  /\ op' \in {"none", "drain"}
           /\ op' = "none" => pc' = "idle" /\ (ret' = 0 => valid = {})
           /\ op' = "drain" => pc' \in ReadPcs \cup {"outer"}
           /\ pc' = "closed" => stream' \notin valid
           /\ pc' \in {"inner", "recv"} => stream' \in valid
           /\ op' = "drain" /\ pc' # "outer" =>
                /\ events' = events
                /\ OnlyExit(events) /\ rout' = 0 => "out" \notin valid
<1> USE DEF DrainInv, ReadPcs
<1>1. CASE stream = "out" /\ events \cap {"err", "exit"} # {}
  <2>1. op' = "drain" /\ events' = events /\ rout' = result /\ stream' = "err"
    BY <1>1 DEF AfterSingle
  <2>2. pc' = Entry("err")
    BY <1>1 DEF AfterSingle
  <2>3. IF "err" \in valid THEN pc' \in {"inner", "recv"} ELSE pc' = "closed"
    BY <1>1, <2>2 DEF Entry
  <2>4. OnlyExit(events) /\ rout' = 0 => "out" \notin valid
    BY <1>1, <2>1
  <2>5. QED
    BY <2>1, <2>3, <2>4
<1>2. CASE ~(stream = "out" /\ events \cap {"err", "exit"} # {})
  <2>1. EndRound(valid, result)
    BY <1>2 DEF AfterSingle
  <2>2. CASE rout # 0 \/ result # 0
    BY <2>1, <2>2 DEF EndRound, Done
  <2>3. CASE rout = 0 /\ result = 0 /\ OnlyExit(events)
    <3>1. stream = "err"
      BY <1>2, <2>3 DEF OnlyExit, StreamsInv, TypeOK, Streams
    <3>2. "out" \notin valid /\ "err" \notin valid
      BY <2>3, <3>1
    <3>3. valid = {}
      BY <3>2 DEF StreamsInv, TypeOK, Streams
    <3>4. Done(0)
      BY <2>1, <2>3 DEF EndRound
    <3>5. QED
      BY <3>3, <3>4 DEF Done
  <2>4. CASE rout = 0 /\ result = 0 /\ ~OnlyExit(events)
    <3>1. NextRound(valid)
      BY <2>1, <2>4 DEF EndRound
    <3>2. QED
      BY <3>1 DEF NextRound, Done, ETIMEDOUT
  <2>5. QED
    BY <2>2, <2>3, <2>4
<1>3. QED
  BY <1>1, <1>2

\* reproc_read returns, to the application or to the drain.  What it returns and
\* what it leaves of the pipes is one of three things: the end, a failure, data.
LEMMA ReadReturnsDrain ==
    ASSUME DrainInv, StreamsInv', pc \in ReadPcs, op \in {"read", "drain"},
           NEW r \in Int, NEW valid,
           \/ r = EPIPE /\ valid = pipe \ {stream}
           \/ r < 0 /\ r # EPIPE /\ valid = pipe
           \/ r >= 0 /\ valid = pipe /\ (op = "drain" => ~OnlyExit(events)),
           ReadReturns(r, valid),
           UNCHANGED <<alive, heirs, held, piped, closed>>,
           op = "drain" /\ OnlyExit(events) => data' = data
    PROVE  DrainInv' /\ Delivered
<1>0. valid \subseteq pipe /\ pipe \ {stream} \subseteq valid /\ pipe' = valid /\ open0' = open0
  BY DEF ReadReturns
<1>1. CASE op = "read"
  <2>1. op' = "none" /\ pc' = "idle"
    BY <1>1 DEF ReadReturns, Done
  <2>2. QED
    BY <1>0, <1>1, <2>1, OtherDrain DEF DrainInv, Nobody
<1>2. CASE op = "drain"
  <2>1. stream \in Streams /\ open0 \subseteq Streams /\ ends \in [Streams -> 0..2]
    BY DEF DrainInv, StreamsInv, TypeOK
  <2>2. PICK result \in Int :
            /\ AfterSingle(valid, result)
            /\ OnlyExit(events) /\ result = 0 => stream \notin valid
            /\ \A s \in open0 \ valid : ends'[s] > 0
    <3>1. CASE ToSink(r)
      <4>1. PICK result \in SinkResults : AfterSingle(valid, result)
        BY <1>2, <3>1 DEF ReadReturns
      <4>2. result \in Int
        BY DEF SinkResults, SINK_FAILED
      <4>3. OnlyExit(events) => stream \notin valid
        BY <1>2, <3>1 DEF ToSink, EPIPE
      <4>4. \A s \in open0 \ valid : ends'[s] > 0
        <5>1. ends' = IF r = EPIPE THEN [ends EXCEPT ![stream] = MinOf(2, @ + 1)] ELSE ends
          BY <1>2, <3>1 DEF ReadReturns
        <5>2. CASE r = EPIPE
          <6>1. ends'[stream] > 0 /\ \A s \in Streams \ {stream} : ends'[s] = ends[s]
            BY <2>1, <5>1, <5>2 DEF MinOf
          <6>2. \A s \in open0 \ valid : s = stream \/ s \notin pipe
            BY <1>0
          <6>3. QED
            BY <1>2, <2>1, <6>1, <6>2 DEF DrainInv
        <5>3. CASE r # EPIPE
          BY <1>2, <5>1, <5>3 DEF DrainInv
        <5>4. QED
          BY <5>2, <5>3
      <4>5. QED
        BY <4>1, <4>2, <4>3, <4>4
    <3>2. CASE ~ToSink(r)
      <4>1. r # 0 /\ valid = pipe
        BY <3>2 DEF ToSink, EPIPE
      <4>2. AfterSingle(valid, r) /\ ends' = ends
        BY <1>2, <3>2 DEF ReadReturns
      <4>3. QED
        BY <1>2, <4>1, <4>2 DEF DrainInv
    <3>3. QED
      BY <3>1, <3>2
  <2>3. /\ op' \in {"none", "drain"}
        /\ op' = "none" => pc' = "idle" /\ (ret' = 0 => valid = {})
        /\ op' = "drain" => pc' \in ReadPcs \cup {"outer"}
        /\ pc' = "closed" => stream' \notin valid
        /\ pc' \in {"inner", "recv"} => stream' \in valid
        /\ op' = "drain" /\ pc' # "outer" =>
             /\ events' = events
             /\ OnlyExit(events) /\ rout' = 0 => "out" \notin valid
    BY <1>0, <1>2, <2>2, AfterSingleDrain
  <2>4. Delivered
    <3>1. SUFFICES ASSUME op' = "none", ret' = 0, NEW s \in open0
                   PROVE  s \notin pipe' \cup kept' \cup held' /\ data'[s] = 0 /\ ends'[s] > 0
      BY DEF Delivered, DrainEnds
    <3>2. pipe' = {} /\ pc' = "idle"
      BY <1>0, <2>3, <3>1
    <3>3. s \in piped' \ (pipe' \cup closed')
      BY <1>2, <3>2 DEF DrainInv
    <3>4. Ended(s)' /\ data'[s] = 0
      BY <3>2, <3>3 DEF StreamsInv, ClosedAtEnd, Started
    <3>5. ends'[s] > 0
      BY <1>0, <2>2, <3>2
    <3>6. QED
      BY <3>2, <3>4, <3>5 DEF Ended
  <2>5. op' = "drain" /\ pc' # "outer" /\ OnlyExit(events') =>
            Nobody' /\ (\A s \in pipe' : data'[s] = 0) /\ (rout' = 0 => "out" \notin pipe')
    <3>1. SUFFICES ASSUME op' = "drain", pc' # "outer", OnlyExit(events')
                   PROVE  Nobody' /\ (\A s \in pipe' : data'[s] = 0) /\ (rout' = 0 => "out" \notin pipe')
      OBVIOUS
    <3>2. OnlyExit(events) /\ pc # "outer"
      BY <2>3, <3>1 DEF ReadPcs
    <3>3. Nobody /\ \A s \in pipe : data[s] = 0
      BY <1>2, <3>2 DEF DrainInv
    <3>4. data' = data /\ Nobody'
      BY <1>2, <3>2, <3>3 DEF Nobody
    <3>5. QED
      BY <1>0, <2>3, <3>1, <3>2, <3>3, <3>4
  <2>6. DrainInv'
    BY <1>0, <1>2, <2>2, <2>3, <2>5 DEF DrainInv, OnlyExit, ReadPcs, Nobody
  <2>7. QED
    BY <2>4, <2>6
<1>3. QED
  BY <1>1, <1>2

LEMMA ReadStepDrain ==
    ASSUME DrainInv, StreamsInv',
           \/ ReadClosed \/ InnerEvents \/ InnerDeadline \/ InnerBlocks \/ RecvData
           \/ RecvEnd \/ RecvBlocks \/ RecvInterrupted
    PROVE  DrainInv' /\ Delivered
<1> USE DEF fixed, handle, child, pipes, drain, ReadPcs, Nobody
<1>1. CASE ReadClosed
  <2>1. pipe = pipe \ {stream}
    BY <1>1 DEF ReadClosed, DrainInv
  <2>2. ReadReturns(EPIPE, pipe) /\ EPIPE \in Int /\ op \in {"read", "drain"}
    BY <1>1 DEF ReadClosed, ReadReturns, EPIPE
  <2>3. QED
    BY <1>1, <2>1, <2>2, ReadReturnsDrain DEF ReadClosed
<1>2. CASE InnerEvents
  BY <1>2, BackgroundDrain DEF InnerEvents, DrainInv
<1>3. CASE InnerDeadline
  BY <1>3, BackgroundDrain DEF InnerDeadline, DrainInv
<1>4. CASE InnerBlocks
  <2>1. ReadReturns(EWOULDBLOCK, pipe) /\ op \in {"read", "drain"}
    BY <1>4 DEF InnerBlocks, ReadReturns
  <2>2. QED
    BY <1>4, <2>1, ReadReturnsDrain DEF InnerBlocks, EWOULDBLOCK, EPIPE
<1>5. CASE RecvData
  <2>1. PICK n \in Nat : n > 0 /\ ReadReturns(n, pipe)
    BY <1>5 DEF RecvData, MinOf, DrainInv, StreamsInv, TypeOK
  <2>2. op = "drain" => ~OnlyExit(events)
    BY <1>5 DEF RecvData, DrainInv
  <2>3. op \in {"read", "drain"}
    BY <2>1 DEF ReadReturns
  <2>4. QED
    BY <1>5, <2>1, <2>2, <2>3, ReadReturnsDrain DEF RecvData
<1>6. CASE RecvEnd
  <2>1. ReadReturns(EPIPE, PipesAfterEnd)
    BY <1>6, Zenon DEF RecvEnd
  <2>2. PipesAfterEnd = pipe \ {stream} /\ EPIPE \in Int
    BY DEF PipesAfterEnd, EPIPE
  <2>3. op \in {"read", "drain"}
    BY <2>1 DEF ReadReturns
  <2>4. QED
    BY <1>6, <2>1, <2>2, <2>3, ReadReturnsDrain DEF RecvEnd
<1>7. CASE RecvBlocks
  <2>1. ReadReturns(EWOULDBLOCK, pipe) /\ op \in {"read", "drain"}
    BY <1>7 DEF RecvBlocks, ReadReturns, BlockedPipes
  <2>2. QED
    BY <1>7, <2>1, ReadReturnsDrain DEF RecvBlocks, EWOULDBLOCK, EPIPE
<1>8. CASE RecvInterrupted
  <2>1. ReadReturns(EINTR, pipe) /\ op \in {"read", "drain"}
    BY <1>8 DEF RecvInterrupted, ReadReturns
  <2>2. QED
    BY <1>8, <2>1, ReadReturnsDrain DEF RecvInterrupted, EINTR, EPIPE
<1>9. QED
  BY <1>1, <1>2, <1>3, <1>4, <1>5, <1>6, <1>7, <1>8

LEMMA DrainStepDrain ==
    ASSUME DrainInv, StreamsInv', CallDrain \/ OuterEvents \/ OuterDeadline \/ OuterInterrupted
    PROVE  DrainInv' /\ Delivered
<1> USE DEF fixed, handle, child, pipes, drain, Nobody
<1>1. CASE CallDrain
  <2>1. op # "drain" /\ open0' = pipe' /\ pc' \in {"idle", "outer"}
    BY <1>1 DEF CallDrain, NextRound, Done, DrainInv, ReadPcs
  <2>2. Delivered
    BY <2>1 DEF Delivered, DrainEnds
  <2>3. QED
    BY <1>1, <2>1, <2>2 DEF CallDrain, NextRound, Done, DrainInv, StreamsInv, TypeOK, ReadPcs
<1>2. CASE OuterEvents
  <2>0. PICK ev \in Reports(Streams) :
            /\ events' = ev /\ pc' = Entry(stream')
            /\ stream' = IF ev \cap {"out", "exit"} # {} THEN "out" ELSE "err"
    BY <1>2 DEF OuterEvents
  <2>1. PICK first \in Streams :
            /\ stream' = first /\ events' = ev /\ pc' = Entry(first)
            /\ OnlyExit(ev) => first = "out"
    BY <2>0 DEF OnlyExit, Streams
  <2>2. OnlyExit(events') => Nobody' /\ \A s \in pipe' : data'[s] = 0
    <3>0. SUFFICES ASSUME OnlyExit(events') PROVE Nobody /\ \A s \in pipe : data[s] = 0
      BY <1>2 DEF OuterEvents, Nobody
    <3>1. OnlyExit(Ready(Streams))
      BY <2>1, <3>0, ReportsOf
    <3>2. \A s \in pipe : s \in Streams /\ s \in Polled(Streams) /\ s \notin Ready(Streams)
      BY <3>1 DEF OnlyExit, Polled, DrainInv, StreamsInv, TypeOK
    <3>3. Nobody
      BY <3>1 DEF OnlyExit, Ready, Nobody
    <3>4. \A s \in pipe : ~(data[s] > 0) /\ data[s] \in Nat
      BY <3>2 DEF Ready, Streams, DrainInv, StreamsInv, TypeOK
    <3>5. QED
      BY <3>3, <3>4
  <2>3. stream' = "err" => ~OnlyExit(events')
    BY <2>1
  <2>4. /\ pc' \in ReadPcs /\ op' = op
        /\ pc' = "closed" => stream' \notin pipe'
        /\ pc' \in {"inner", "recv"} => stream' \in pipe'
    BY <1>2, <2>1 DEF OuterEvents, Entry, ReadPcs
  <2>5. Delivered
    BY <2>4 DEF Delivered, DrainEnds
  <2>6. DrainInv'
    BY <1>2, <2>2, <2>3, <2>4 DEF OuterEvents, DrainInv
  <2>7. QED
    BY <2>5, <2>6
<1>3. CASE OuterDeadline
  <2>1. op' = "none" /\ pc' = "idle" /\ (op = "drain" => ret' # 0)
    BY <1>3 DEF OuterDeadline, Done, ETIMEDOUT
  <2>2. QED
    BY <1>3, <2>1 DEF OuterDeadline, DrainInv, Delivered, DrainEnds
<1>4. CASE OuterInterrupted
  <2>1. op' = "none" /\ pc' = "idle" /\ (op = "drain" => ret' # 0)
    BY <1>4 DEF OuterInterrupted, Done, EINTR
  <2>2. QED
    BY <1>4, <2>1 DEF OuterInterrupted, DrainInv, Delivered, DrainEnds
<1>5. QED
  BY <1>1, <1>2, <1>3, <1>4

LEMMA OtherStepDrain ==
    ASSUME DrainInv, StreamsInv',
           \/ SetupFails \/ StartChild \/ CallRead
           \/ CallWrite \/ WriteData \/ WriteEnd \/ WriteBlocks \/ WriteInterrupted \/ CloseStream
    PROVE  DrainInv' /\ Delivered
<1> USE DEF DrainInv, ReadPcs, fixed, handle, child, pipes, drain, Nobody
<1>1. CASE SetupFails
  BY <1>1, OtherDrain DEF SetupFails
<1>2. CASE StartChild
  BY <1>2, OtherDrain DEF StartChild, Done
<1>3. CASE CallRead
  BY <1>3, OtherDrain DEF CallRead, Entry
<1>4. CASE CallWrite
  BY <1>4, OtherDrain DEF CallWrite
<1>5. CASE WriteData \/ WriteBlocks \/ WriteInterrupted
  BY <1>5, OtherDrain DEF WriteData, WriteBlocks, WriteInterrupted, Done
<1>6. CASE WriteEnd
  BY <1>6, OtherDrain DEF WriteEnd, Done
<1>7. CASE CloseStream
  <2>1. op # "drain" /\ op' = op /\ pc' = "idle" /\ alive' = alive /\ heirs' = heirs /\ held' = held
    BY <1>7 DEF CloseStream
  <2>2. PICK s \in Streams : pipe' = pipe \ {s} /\ closed' = closed \cup ({s} \cap pipe)
    BY <1>7 DEF CloseStream
  <2>3. closed' \cap pipe' = {}
    BY <2>2
  <2>4. QED
    BY <2>1, <2>3, OtherDrain
<1>8. QED
  BY <1>1, <1>2, <1>3, <1>4, <1>5, <1>6, <1>7

LEMMA BackgroundStepDrain ==
    ASSUME DrainInv, StreamsInv',
           \/ SetupWrites \/ CloseStdin \/ Reap
           \/ \E s \in Streams : ChildWrites(s)
           \/ ChildReads \/ ChildExits \/ ChildDies \/ HeirsEnd \/ Expire
           \/ \E s \in Streams \cup {"in"} : ChildCloses(s)
           \/ UNCHANGED vars
    PROVE  DrainInv' /\ Delivered
<1> USE DEF fixed, handle, call, child, pipes, drain, Nobody
<1>1. CASE SetupWrites
  BY <1>1, BackgroundDrain DEF SetupWrites, DrainInv
<1>2. CASE CloseStdin
  BY <1>2, BackgroundDrain DEF CloseStdin, DrainInv
<1>3. CASE Reap
  BY <1>3, BackgroundDrain DEF Reap, DrainInv
<1>4. CASE \E s \in Streams : ChildWrites(s)
  BY <1>4, BackgroundDrain DEF ChildWrites, DrainInv
<1>5. CASE ChildReads
  BY <1>5, BackgroundDrain DEF ChildReads, DrainInv
<1>6. CASE ChildExits \/ ChildDies \/ HeirsEnd
  <2>1. PICK left \in SUBSET held : Gone(left)
    BY <1>6, GoneOf
  <2>2. /\ Nobody' => held' = {}
        /\ UNCHANGED <<handle, call, fixed, pipes, closed, drain>>
    BY <2>1 DEF Gone, Nobody
  <2>3. Nobody => Nobody'
    BY <2>1 DEF Gone, Nobody, DrainInv
  <2>4. QED
    BY <2>2, <2>3, BackgroundDrain
<1>7. CASE Expire
  BY <1>7, BackgroundDrain DEF Expire, DrainInv
<1>8. CASE \E s \in Streams \cup {"in"} : ChildCloses(s)
  BY <1>8, BackgroundDrain DEF ChildCloses, DrainInv
<1>9. CASE UNCHANGED vars
  BY <1>9, BackgroundDrain DEF vars, DrainInv
<1>10. QED
  BY <1>1, <1>2, <1>3, <1>4, <1>5, <1>6, <1>7, <1>8, <1>9

LEMMA DrainStep == DrainInv /\ StreamsInv' /\ [Next]_vars => DrainInv' /\ Delivered
  BY ReadStepDrain, DrainStepDrain, OtherStepDrain, BackgroundStepDrain DEF Next, Library, Child

LEMMA DrainInvariant == Spec => []DrainInv
<1>1. Init => DrainInv
  <2>1. Init => /\ StreamsInv /\ held = {} /\ closed = {} /\ pc = "setup" /\ op = "start"
    BY InitInv DEF Init
  <2>2. QED
    BY <2>1 DEF DrainInv
<1>2. DrainInv /\ StreamsInv' /\ [Next]_vars => DrainInv'
  BY DrainStep
<1>3. QED
  BY <1>1, <1>2, StreamsInvariant, PTL DEF Spec

\* reproc_drain returns 0 only when every stream that it found open is closed:
\* all that any process wrote to it has gone to its sink, the sink has been told
\* of the end, and no end of the pipe is left over in parent or child.
THEOREM StreamsDrainComplete == Spec => DrainComplete
<1>1. DrainInv /\ StreamsInv' /\ [Next]_vars =>
        [DrainEnds /\ ret' = 0 => \A s \in open0 :
            /\ s \notin pipe' \cup kept' \cup held'
            /\ data'[s] = 0
            /\ ends'[s] > 0]_vars
  BY DrainStep DEF Delivered
<1>2. QED
  BY <1>1, DrainInvariant, StreamsInvariant, PTL DEF Spec, DrainComplete
-----------------------------------------------------------------------------
(* A drain tells each sink of the end once. *)

\* A drain is only disturbed where the parent keeps the child's ends: by a stream that
\* the application has closed, and by an event that poll_win32 has missed.
Single == platform = "posix" \/ (closed = {} /\ ~missed)

\* The parent keeps the child's ends on Windows alone, and lets go of one only
\* when the child is gone; reproc_read polls only for a stream whose end is kept.
KeptInv ==
    /\ platform = "posix" => kept = {}
    /\ platform = "windows" /\ ~Nobody => kept = piped
    /\ pc = "inner" => stream \in kept

\* A stream that the drain has yet to give up has not been told of; once one has
\* been given up, no exit event begins another round.  In a round that the exit
\* event began no end stays kept behind the stream at hand; in any other round
\* the streams to read have data, unless there is no exit event to come.
RoundInv ==
    op = "drain" /\ Single =>
        /\ \A s \in open0 \cap pipe : ends[s] = 0
        /\ pc = "outer" => open0 \subseteq pipe \/ kept = {} \/ ~exit
        /\ pc # "outer" =>
            /\ stream \in open0 => stream \in pipe
            /\ stream = "out" /\ events \cap {"err", "exit"} # {} /\ "err" \in open0 => "err" \in pipe
            /\ "exit" \in events =>
                 /\ Nobody /\ exit
                 /\ stream = "err" /\ rout = 0 => "out" \notin kept \/ Overdue
                 /\ pc = "recv" => stream \notin kept \/ Overdue
            /\ "exit" \notin events =>
                 \/ kept = {} \/ ~exit
                 \/ /\ open0 \subseteq pipe
                    /\ data[stream] > 0
                    /\ stream = "out" /\ "err" \in events => data["err"] > 0

OnceInv == DrainInv /\ KeptInv /\ RoundInv /\ ToldOnce

\* The end of a stream is not kept where the drain finds the stream given up.
LEMMA NotKept ==
    ASSUME DrainInv, KeptInv, Single, Started, NEW s \in Streams, s \notin pipe
    PROVE  s \notin kept
<1>1. CASE platform = "posix"
  BY <1>1 DEF KeptInv
<1>2. CASE closed = {}
  BY <1>2 DEF DrainInv, StreamsInv, ClosedAtEnd, Ended, TypeOK
<1>3. QED
  BY <1>1, <1>2 DEF Single

LEMMA EntryOf ==
    ASSUME NEW s \in Streams
    PROVE  /\ Entry(s) \in ReadPcs
           /\ Entry(s) = "inner" => s \in kept
           /\ Entry(s) = "recv" => s \notin kept \/ Overdue
  BY DEF Entry, ReadPcs

\* A step after which no drain is in progress.
LEMMA OtherOnce ==
    ASSUME OnceInv, op' # "drain",
           platform' = platform, closed \subseteq closed',
           open0' = {} \/ (open0' = open0 /\ ends' = ends /\ missed' = missed)
    PROVE  RoundInv' /\ ToldOnce'
<1>1. RoundInv'
  BY DEF RoundInv
<1>2. ToldOnce'
  BY DEF OnceInv, ToldOnce
<1>3. QED
  BY <1>1, <1>2

\* A step in the background of the call in progress.
LEMMA BackgroundOnce ==
    ASSUME OnceInv,
           UNCHANGED <<platform, piped, closed, pipe, kept, open0, ends, pc, op, stream, events, rout>>,
           Nobody => Nobody',
           missed' = missed,
           op = "drain" => exit' = exit,
           \A s \in Streams : data[s] > 0 => data'[s] > 0,
           Overdue => Overdue'
    PROVE  KeptInv' /\ RoundInv' /\ ToldOnce'
<1>1. KeptInv'
  BY DEF OnceInv, KeptInv
<1>2. ToldOnce'
  BY DEF OnceInv, ToldOnce
<1>3. RoundInv'
  <2>1. stream \in Streams /\ "err" \in Streams
    BY DEF OnceInv, DrainInv, StreamsInv, TypeOK, Streams
  <2>2. data[stream] > 0 => data'[stream'] > 0
    BY <2>1
  <2>3. data["err"] > 0 => data'["err"] > 0
    BY <2>1
  <2>4. Single' = Single
    BY DEF Single
  <2>5. QED
    BY <2>2, <2>3, <2>4 DEF OnceInv, RoundInv
<1>4. QED
  BY <1>1, <1>2, <1>3

\* What becomes of the drain, or of the call of reproc_read, when a read returns.
LEMMA ReadReturnsCases ==
    ASSUME NEW r \in Int, NEW valid, ReadReturns(r, valid), op \in {"read", "drain"}
    PROVE  /\ pipe' = valid /\ open0' = open0 /\ missed' = missed
           /\ ends' = IF op = "drain" /\ r = EPIPE THEN [ends EXCEPT ![stream] = MinOf(2, @ + 1)] ELSE ends
           /\ \/ op' = "none" /\ pc' = "idle"
              \/ /\ op = "drain" /\ op' = "drain" /\ pc' = Entry("err")
                 /\ stream = "out" /\ stream' = "err"
                 /\ events \cap {"err", "exit"} # {} /\ events' = events
                 /\ rout' = 0 => ToSink(r)
              \/ /\ op = "drain" /\ op' = "drain" /\ pc' = "outer"
                 /\ ~Overdue /\ rout = 0 /\ ToSink(r)
                 /\ ~(stream = "out" /\ events \cap {"err", "exit"} # {})
<1>1. pipe' = valid /\ open0' = open0 /\ missed' = missed
  BY DEF ReadReturns
<1>2. CASE op = "read"
  BY <1>1, <1>2 DEF ReadReturns, Done
<1>3. CASE op = "drain"
  <2>1. PICK result :
            /\ AfterSingle(valid, result)
            /\ result = 0 => ToSink(r)
    <3>1. CASE ToSink(r)
      BY <1>3, <3>1 DEF ReadReturns
    <3>2. CASE ~ToSink(r)
      BY <1>3, <3>2 DEF ReadReturns, ToSink
    <3>3. QED
      BY <3>1, <3>2
  <2>2. ends' = IF r = EPIPE THEN [ends EXCEPT ![stream] = MinOf(2, @ + 1)] ELSE ends
    BY <1>3 DEF ReadReturns, ToSink
  <2>3. CASE stream = "out" /\ events \cap {"err", "exit"} # {}
    <3>1. op' = op /\ pc' = Entry("err") /\ stream' = "err" /\ events' = events /\ rout' = result
      BY <2>1, <2>3 DEF AfterSingle
    <3>2. QED
      BY <1>1, <1>3, <2>1, <2>2, <2>3, <3>1
  <2>4. CASE ~(stream = "out" /\ events \cap {"err", "exit"} # {})
    <3>1. EndRound(valid, result)
      BY <2>1, <2>4 DEF AfterSingle
    <3>2. CASE rout # 0 \/ result # 0 \/ OnlyExit(events)
      <4>1. op' = "none" /\ pc' = "idle"
        BY <3>1, <3>2 DEF EndRound, Done
      <4>2. QED
        BY <1>1, <1>3, <2>2, <4>1
    <3>3. CASE rout = 0 /\ result = 0 /\ ~OnlyExit(events)
      <4>1. NextRound(valid)
        BY <3>1, <3>3 DEF EndRound
      <4>2. \/ op' = "none" /\ pc' = "idle"
            \/ op' = "drain" /\ pc' = "outer" /\ ~Overdue
        BY <4>1 DEF NextRound, Done
      <4>3. QED
        BY <1>1, <1>3, <2>1, <2>2, <2>4, <3>3, <4>2
    <3>4. QED
      BY <3>2, <3>3
  <2>5. QED
    BY <2>3, <2>4
<1>4. QED
  BY <1>2, <1>3

\* A read returns: the end at most once for a stream, and when the round is over
\* after an end, no kept end is left that could cause an exit event.
LEMMA ReadReturnsOnce ==
    ASSUME OnceInv, pc \in ReadPcs, op \in {"read", "drain"},
           NEW r \in Int, NEW valid, ReadReturns(r, valid),
           valid = IF r = EPIPE THEN pipe \ {stream} ELSE pipe,
           r = EPIPE => pc = "closed" \/ (pc = "recv" /\ data[stream] = 0),
           ToSink(r) => pc # "inner",
           UNCHANGED <<platform, deadline, piped, expired, closed, kept, exit, alive, heirs>>,
           \A s \in Streams \ {stream} : data'[s] = data[s]
    PROVE  KeptInv' /\ RoundInv' /\ ToldOnce'
<1>1. /\ stream \in Streams /\ open0 \subseteq Streams /\ ends \in [Streams -> 0..2]
      /\ kept \subseteq Streams /\ "err" \in Streams /\ Streams = {"out", "err"}
      /\ data[stream] \in Nat
  BY DEF OnceInv, DrainInv, StreamsInv, TypeOK, Streams
<1>2. /\ pipe' = valid /\ open0' = open0 /\ missed' = missed
      /\ ends' = IF op = "drain" /\ r = EPIPE THEN [ends EXCEPT ![stream] = MinOf(2, @ + 1)] ELSE ends
  BY ReadReturnsCases
<1>3. \/ op' = "none" /\ pc' = "idle"
      \/ /\ op = "drain" /\ op' = "drain" /\ pc' = Entry("err")
         /\ stream = "out" /\ stream' = "err"
         /\ events \cap {"err", "exit"} # {} /\ events' = events
         /\ rout' = 0 => ToSink(r)
      \/ /\ op = "drain" /\ op' = "drain" /\ pc' = "outer"
         /\ ~Overdue /\ rout = 0 /\ ToSink(r)
         /\ ~(stream = "out" /\ events \cap {"err", "exit"} # {})
  BY ReadReturnsCases
<1>4. KeptInv'
  <2>1. pc' = "inner" => stream' \in kept
    BY <1>1, <1>3, EntryOf
  <2>2. QED
    BY <2>1 DEF OnceInv, KeptInv, Nobody
<1>5. (Single' <=> Single) /\ (Overdue' <=> Overdue)
  BY <1>2 DEF Single, Overdue
<1>6. ASSUME op = "drain", Single
      PROVE  /\ \A s \in open0 : ends'[s] <= 1
             /\ \A s \in open0 \cap valid : ends'[s] = 0
  <2>1. /\ \A s \in open0 \cap pipe : ends[s] = 0
        /\ stream \in open0 => stream \in pipe
    BY <1>6 DEF OnceInv, RoundInv, ReadPcs
  <2>2. \A s \in open0 : ends[s] <= 1
    BY <1>6 DEF OnceInv, ToldOnce, Single
  <2>3. \A s \in Streams \ {stream} : ends'[s] = ends[s]
    BY <1>1, <1>2
  <2>4. r # EPIPE => ends' = ends
    BY <1>2
  <2>5. stream \in open0 => ends'[stream] <= 1
    <3>1. SUFFICES ASSUME stream \in open0 PROVE ends'[stream] <= 1
      OBVIOUS
    <3>2. ends[stream] = 0
      BY <2>1, <3>1
    <3>3. ends'[stream] = ends[stream] \/ ends'[stream] = MinOf(2, ends[stream] + 1)
      BY <1>1, <1>2
    <3>4. QED
      BY <3>2, <3>3 DEF MinOf
  <2>6. \A s \in open0 \cap valid : s \in pipe /\ (s = stream => ends' = ends)
    BY <2>4
  <2>7. QED
    BY <1>1, <2>1, <2>2, <2>3, <2>5, <2>6
<1>7. ToldOnce'
  <2>1. CASE op = "drain"
    BY <1>2, <1>5, <1>6, <2>1 DEF ToldOnce, Single
  <2>2. CASE op = "read"
    BY <1>2, <2>2 DEF OnceInv, ToldOnce
  <2>3. QED
    BY <2>1, <2>2
\* No end of the stream at hand is kept when its sink is called.
<1>8. ASSUME op = "drain", Single, "exit" \in events, ToSink(r)
      PROVE  stream \notin kept \/ Overdue
  <2>1. CASE pc = "recv"
    BY <1>8, <2>1 DEF OnceInv, RoundInv
  <2>2. CASE pc = "closed"
    BY <1>1, <1>8, <2>2, NotKept DEF OnceInv, DrainInv, Started
  <2>3. QED
    BY <1>8, <2>1, <2>2 DEF ReadPcs
\* A stream with data is not given up.
<1>9. ASSUME op = "drain", Single, "exit" \notin events, kept # {}, exit
      PROVE  open0 \subseteq valid /\ (stream = "out" /\ "err" \in events => data["err"] > 0)
  <2>1. /\ open0 \subseteq pipe /\ data[stream] > 0
        /\ stream = "out" /\ "err" \in events => data["err"] > 0
    BY <1>9 DEF OnceInv, RoundInv, ReadPcs
  <2>2. CASE r = EPIPE
    <3>1. pc = "closed"
      BY <1>1, <2>1, <2>2
    <3>2. stream \notin pipe
      BY <3>1 DEF OnceInv, DrainInv
    <3>3. QED
      BY <2>1, <3>2
  <2>3. CASE r # EPIPE
    BY <2>1, <2>3
  <2>4. QED
    BY <2>2, <2>3
<1>10. RoundInv'
  <2>1. CASE op' = "none"
    BY <2>1 DEF RoundInv
  <2>2. CASE /\ op = "drain" /\ op' = "drain" /\ pc' = "outer"
             /\ ~Overdue /\ rout = 0 /\ ToSink(r)
             /\ ~(stream = "out" /\ events \cap {"err", "exit"} # {})
    <3>1. ASSUME Single PROVE open0 \subseteq valid \/ kept = {} \/ ~exit
      <4>1. CASE "exit" \in events
        <5>1. stream = "err"
          BY <1>1, <2>2, <4>1
        <5>2. "out" \notin kept
          BY <2>2, <3>1, <4>1, <5>1 DEF OnceInv, RoundInv, ReadPcs
        <5>3. "err" \notin kept
          BY <1>8, <2>2, <3>1, <4>1, <5>1
        <5>4. QED
          BY <1>1, <5>2, <5>3
      <4>2. CASE "exit" \notin events
        BY <1>9, <2>2, <3>1, <4>2
      <4>3. QED
        BY <4>1, <4>2
    <3>2. QED
      BY <1>2, <1>5, <1>6, <2>2, <3>1 DEF RoundInv
  <2>3. CASE /\ op = "drain" /\ op' = "drain" /\ pc' = Entry("err")
             /\ stream = "out" /\ stream' = "err"
             /\ events \cap {"err", "exit"} # {} /\ events' = events
             /\ rout' = 0 => ToSink(r)
    <3>1. ASSUME Single
          PROVE  /\ "err" \in open0 => "err" \in valid
                 /\ "exit" \in events =>
                      /\ Nobody /\ exit
                      /\ rout' = 0 => "out" \notin kept \/ Overdue
                      /\ pc' = "recv" => "err" \notin kept \/ Overdue
                 /\ "exit" \notin events =>
                      \/ kept = {} \/ ~exit
                      \/ open0 \subseteq valid /\ data'["err"] > 0
      <4>1. "err" \in open0 => "err" \in valid
        BY <2>3, <3>1 DEF OnceInv, RoundInv, ReadPcs
      <4>2. "exit" \in events => Nobody /\ exit
        BY <2>3, <3>1 DEF OnceInv, RoundInv, ReadPcs
      <4>3. "exit" \in events /\ rout' = 0 => "out" \notin kept \/ Overdue
        BY <1>8, <2>3, <3>1
      <4>4. pc' = "recv" => "err" \notin kept \/ Overdue
        BY <1>1, <2>3, EntryOf
      <4>5. data'["err"] = data["err"]
        BY <1>1, <2>3
      <4>6. "exit" \notin events => kept = {} \/ ~exit \/ (open0 \subseteq valid /\ data'["err"] > 0)
        BY <1>9, <2>3, <3>1, <4>5
      <4>7. QED
        BY <4>1, <4>2, <4>3, <4>4, <4>6
    <3>2. pc' # "outer"
      BY <1>1, <2>3, EntryOf DEF ReadPcs
    <3>3. QED
      BY <1>2, <1>5, <1>6, <2>3, <3>1, <3>2 DEF RoundInv, Nobody
  <2>4. QED
    BY <1>3, <2>1, <2>2, <2>3
<1>11. QED
  BY <1>4, <1>7, <1>10

LEMMA ReadStepOnce ==
    ASSUME OnceInv,
           \/ ReadClosed \/ InnerBlocks \/ RecvData \/ RecvEnd \/ RecvBlocks \/ RecvInterrupted
    PROVE  KeptInv' /\ RoundInv' /\ ToldOnce'
<1> USE DEF fixed, child, pipes, ReadPcs
<1>1. CASE ReadClosed
  <2>1. pipe = pipe \ {stream}
    BY <1>1 DEF ReadClosed, OnceInv, DrainInv
  <2>2. ReadReturns(EPIPE, pipe) /\ EPIPE \in Int /\ op \in {"read", "drain"}
    BY <1>1 DEF ReadClosed, ReadReturns, EPIPE
  <2>3. QED
    BY <1>1, <2>1, <2>2, ReadReturnsOnce DEF ReadClosed
<1>2. CASE InnerBlocks
  <2>1. ReadReturns(EWOULDBLOCK, pipe) /\ op \in {"read", "drain"}
    BY <1>2 DEF InnerBlocks, ReadReturns
  <2>2. EWOULDBLOCK \in Int /\ ~ToSink(EWOULDBLOCK) /\ EWOULDBLOCK # EPIPE
    BY DEF ToSink, EWOULDBLOCK, EPIPE
  <2>3. QED
    BY <1>2, <2>1, <2>2, ReadReturnsOnce DEF InnerBlocks
<1>3. CASE RecvData
  <2>1. stream \in Streams /\ data \in [Streams -> 0..Capacity]
    BY DEF OnceInv, DrainInv, StreamsInv, TypeOK
  <2> DEFINE n == MinOf(Chunk, data[stream])
  <2>2. n \in Nat /\ n > 0
    BY <1>3, <2>1, StreamsAssumption DEF RecvData, MinOf
  <2>3. ReadReturns(n, pipe) /\ data' = [data EXCEPT ![stream] = @ - n]
    BY <1>3, Zenon DEF RecvData
  <2> HIDE DEF n
  <2>4. \A s \in Streams \ {stream} : data'[s] = data[s]
    BY <2>1, <2>3
  <2>5. op \in {"read", "drain"} /\ n # EPIPE
    BY <2>2, <2>3 DEF ReadReturns, EPIPE
  <2>6. QED
    BY <1>3, <2>2, <2>3, <2>4, <2>5, ReadReturnsOnce DEF RecvData
<1>4. CASE RecvEnd
  <2>1. ReadReturns(EPIPE, pipe \ {stream})
    BY <1>4, Zenon DEF RecvEnd, PipesAfterEnd
  <2>2. EPIPE \in Int /\ op \in {"read", "drain"}
    BY <2>1 DEF ReadReturns, EPIPE
  <2>3. QED
    BY <1>4, <2>1, <2>2, ReadReturnsOnce DEF RecvEnd
<1>5. CASE RecvBlocks
  <2>1. ReadReturns(EWOULDBLOCK, pipe) /\ op \in {"read", "drain"}
    BY <1>5 DEF RecvBlocks, ReadReturns, BlockedPipes
  <2>2. EWOULDBLOCK \in Int /\ EWOULDBLOCK # EPIPE
    BY DEF EWOULDBLOCK, EPIPE
  <2>3. QED
    BY <1>5, <2>1, <2>2, ReadReturnsOnce DEF RecvBlocks
<1>6. CASE RecvInterrupted
  <2>1. ReadReturns(EINTR, pipe) /\ op \in {"read", "drain"}
    BY <1>6 DEF RecvInterrupted, ReadReturns
  <2>2. EINTR \in Int /\ EINTR # EPIPE
    BY DEF EINTR, EPIPE
  <2>3. QED
    BY <1>6, <2>1, <2>2, ReadReturnsOnce DEF RecvInterrupted
<1>7. QED
  BY <1>1, <1>2, <1>3, <1>4, <1>5, <1>6

\* The reproc_poll of reproc_read lets go of the end of a child that is gone.
LEMMA InnerStepOnce ==
    ASSUME OnceInv, InnerEvents \/ InnerDeadline
    PROVE  KeptInv' /\ RoundInv' /\ ToldOnce'
<1> USE DEF fixed, handle, child, pipes
<1>1. /\ pc = "inner" /\ pc' = "recv" /\ stream \in Streams /\ stream \in kept
      /\ UNCHANGED <<platform, deadline, piped, expired, closed, pipe, exit, alive, heirs, open0, ends, op, stream,
                     events, rout, data>>
  BY DEF InnerEvents, InnerDeadline, OnceInv, KeptInv, DrainInv, StreamsInv, TypeOK, drain
<1>2. /\ kept' \subseteq kept
      /\ op = "drain" /\ Single' => Single
      /\ op # "drain" => missed' = missed
      /\ op = "drain" /\ Single' /\ Nobody /\ exit => stream \notin kept' \/ Overdue
      /\ ~Nobody => kept' = kept
  <2>1. CASE InnerEvents
    <3>1. PICK ev \in Reports({stream}) :
              /\ kept' = KeptAfter(ev)
              /\ missed' = (missed \/ (op = "drain" /\ ev # Ready({stream})))
      BY <2>1 DEF InnerEvents
    <3>2. "exit" \in Ready({stream}) <=> Nobody /\ exit
      BY <1>1 DEF Ready, Polled, Streams, OnceInv, DrainInv, StreamsInv, TypeOK, Nobody
    <3>3. "exit" \in ev => Nobody
      BY <3>2, ReportsOf
    <3>4. op = "drain" /\ Single' => Single /\ ev = Ready({stream})
      <4>1. platform = "posix" => ev = Ready({stream})
        BY ReportsOf
      <4>2. op = "drain" /\ ~missed' => ~missed /\ ev = Ready({stream})
        BY <3>1, Zenon
      <4>3. QED
        BY <1>1, <4>1, <4>2 DEF Single
    <3>5. op # "drain" => missed' = missed
      <4>1. missed \in BOOLEAN
        BY DEF OnceInv, DrainInv, StreamsInv, TypeOK
      <4>2. QED
        BY <3>1, <4>1
    <3>6. kept' \subseteq kept /\ (~Nobody => kept' = kept)
      BY <3>1, <3>3 DEF KeptAfter
    <3>7. op = "drain" /\ Single' /\ Nobody /\ exit => stream \notin kept' \/ Overdue
      BY <3>1, <3>2, <3>4 DEF KeptAfter
    <3>8. QED
      BY <3>4, <3>5, <3>6, <3>7
  <2>2. CASE InnerDeadline
    BY <1>1, <2>2 DEF InnerDeadline, Single, drain
  <2>3. QED
    BY <2>1, <2>2
<1>3. KeptInv'
  BY <1>1, <1>2 DEF OnceInv, KeptInv, Nobody
<1>4. ToldOnce'
  <2>1. Single' => Single
    BY <1>1, <1>2 DEF Single
  <2>2. QED
    BY <1>1, <2>1 DEF OnceInv, ToldOnce, Single
<1>5. RoundInv'
  <2>1. SUFFICES ASSUME op = "drain", Single' PROVE RoundInv'
    BY <1>1 DEF RoundInv
  <2>2. Single /\ (Overdue' <=> Overdue) /\ (Nobody' <=> Nobody)
    BY <1>1, <1>2, <2>1 DEF Overdue, Nobody
  <2>3. QED
    BY <1>1, <1>2, <2>1, <2>2 DEF OnceInv, RoundInv
<1>6. QED
  BY <1>3, <1>4, <1>5

LEMMA DrainStepOnce ==
    ASSUME OnceInv, CallDrain \/ OuterEvents \/ OuterDeadline \/ OuterInterrupted
    PROVE  KeptInv' /\ RoundInv' /\ ToldOnce'
<1> USE DEF fixed, handle, child, pipes, drain
<1>1. CASE CallDrain
  <2>1. /\ pc' \in {"idle", "outer"} /\ open0' = pipe /\ ends' = [s \in Streams |-> 0]
        /\ UNCHANGED <<platform, piped, pipe, kept, alive, heirs>>
    BY <1>1 DEF CallDrain, NextRound, Done
  <2>2. \A s \in pipe : ends'[s] = 0
    BY <2>1 DEF OnceInv, DrainInv, StreamsInv, TypeOK
  <2>3. op' = "drain" => pc' = "outer"
    BY <1>1 DEF CallDrain, NextRound, Done
  <2>4. KeptInv' /\ ToldOnce'
    BY <2>1, <2>2 DEF OnceInv, KeptInv, ToldOnce, Nobody
  <2>5. RoundInv'
    BY <2>1, <2>2, <2>3 DEF RoundInv
  <2>6. QED
    BY <2>4, <2>5
<1>2. CASE OuterEvents
  <2>0. PICK ev \in Reports(Streams) :
            /\ events' = ev /\ ev # {} /\ pc' = Entry(stream')
            /\ missed' = (missed \/ ev # Ready(Streams))
            /\ stream' = IF ev \cap {"out", "exit"} # {} THEN "out" ELSE "err"
    BY <1>2 DEF OuterEvents
  <2>1. /\ pc = "outer" /\ ev # {} /\ events' = ev
        /\ UNCHANGED <<platform, deadline, piped, expired, closed, pipe, kept, exit, alive, heirs, open0, ends, op,
                       rout, data>>
    BY <1>2, <2>0 DEF OuterEvents
  <2>2. /\ stream' = IF ev \cap {"out", "exit"} # {} THEN "out" ELSE "err"
        /\ pc' = Entry(stream')
    BY <2>0
  <2>3. /\ pipe \subseteq Streams /\ pipe \subseteq piped /\ Streams = {"out", "err"} /\ kept \subseteq Streams
        /\ platform \in {"posix", "windows"} /\ stream' \in Streams
    BY <2>2, StreamsAssumption DEF OnceInv, DrainInv, StreamsInv, TypeOK, Streams
  <2>4. /\ pc' \in ReadPcs /\ (pc' = "inner" => stream' \in kept)
        /\ pc' = "recv" => stream' \notin kept \/ Overdue
    BY <2>2, <2>3, EntryOf
  <2>12. Single' => Single /\ ev = Ready(Streams)
    <3>1. platform = "posix" => ev = Ready(Streams)
      BY ReportsOf
    <3>2. ~missed' => ~missed /\ ev = Ready(Streams)
      BY <2>0, Zenon
    <3>3. QED
      BY <2>1, <3>1, <3>2 DEF Single
  <2>6. KeptInv' /\ ToldOnce'
    BY <2>1, <2>4, <2>12 DEF OnceInv, KeptInv, ToldOnce, Nobody, Single
  <2>13. SUFFICES ASSUME Single' PROVE RoundInv'
    BY <2>6 DEF RoundInv
  <2>5. /\ "exit" \in ev <=> exit /\ kept # {} /\ Nobody
        /\ \A s \in Streams : s \in ev => s \in pipe /\ (data[s] > 0 \/ s \notin kept)
        /\ ev \subseteq Streams \cup {"exit"}
    <3>1. ev = Ready(Streams)
      BY <2>12, <2>13
    <3>2. Streams \cap kept = kept /\ Streams \cap pipe = pipe
      BY <2>3, Zenon
    <3>3. \A p : p \in Polled(Streams) <=> p \in pipe \/ (p = "exit" /\ exit /\ kept # {})
      BY <3>2 DEF Polled
    <3>4. \A p : p \in ev <=> /\ p \in Polled(Streams)
                            /\ IF p = "exit" THEN Nobody ELSE data[p] > 0 \/ Ended(p)
      BY <3>1 DEF Ready, Nobody
    <3>5. "exit" \in ev <=> exit /\ kept # {} /\ Nobody
      BY <2>3, <3>3, <3>4
    <3>6. \A s \in Streams : s \in ev => s \in pipe /\ (data[s] > 0 \/ s \notin kept)
      BY <2>3, <3>3, <3>4 DEF Ended
    <3>7. ev \subseteq Streams \cup {"exit"}
      BY <2>3, <3>3, <3>4
    <3>8. QED
      BY <3>5, <3>6, <3>7
  <2>7. Single /\ (Overdue' <=> Overdue) /\ (Nobody' <=> Nobody)
    BY <2>1, <2>12, <2>13 DEF Overdue, Nobody
  <2>8. ASSUME op = "drain", Single
        PROVE  /\ \A s \in open0 \cap pipe : ends[s] = 0
               /\ open0 \subseteq pipe \/ kept = {} \/ ~exit
    BY <2>1, <2>8 DEF OnceInv, RoundInv
  <2>9. CASE "exit" \in ev
    <3>1. stream' = "out" /\ Nobody /\ exit /\ kept # {}
      BY <2>2, <2>5, <2>9
    <3>2. op = "drain" /\ Single => open0 \subseteq pipe
      BY <2>8, <3>1
    <3>3. RoundInv'
      <4>1. events' = ev /\ "exit" \in events' /\ Nobody' /\ exit'
        BY <2>1, <2>7, <2>9, <3>1
      <4>2. pc' # "outer" /\ stream' = "out"
        BY <2>4, <3>1 DEF ReadPcs
      <4>3. QED
        BY <2>1, <2>4, <2>7, <2>8, <3>1, <3>2, <4>1, <4>2 DEF RoundInv
    <3>4. QED
      BY <3>3
  <2>10. CASE "exit" \notin ev
    <3>0. ev \subseteq {"out", "err"} /\ ev # {}
      BY <2>1, <2>3, <2>5, <2>10
    <3>1. stream' \in ev
      BY <2>2, <2>10, <3>0
    <3>2. stream' \in pipe /\ ("err" \in ev => "err" \in pipe)
      BY <2>3, <2>5, <3>1
    <3>3. ASSUME kept # {}, exit
          PROVE  kept = piped
      <4>1. ~Nobody
        BY <2>5, <2>10, <3>3
      <4>2. platform = "windows"
        BY <2>3, <3>3 DEF OnceInv, KeptInv
      <4>3. QED
        BY <4>1, <4>2 DEF OnceInv, KeptInv
    <3>4. ASSUME kept # {}, exit
          PROVE  data[stream'] > 0 /\ ("err" \in ev => data["err"] > 0)
      BY <2>3, <2>5, <3>1, <3>2, <3>3, <3>4
    <3>5. events' \cap {"err", "exit"} # {} => "err" \in ev
      BY <2>1, <2>10
    <3>6. RoundInv'
      BY <2>1, <2>4, <2>7, <2>8, <2>10, <3>2, <3>4, <3>5 DEF RoundInv, ReadPcs
    <3>7. QED
      BY <3>6
  <2>11. QED
    BY <2>9, <2>10
<1>3. CASE OuterDeadline \/ OuterInterrupted
  <2>1. op' = "none" /\ pc' = "idle" /\ UNCHANGED <<platform, piped, closed, kept, alive, heirs, open0, ends, missed>>
    BY <1>3 DEF OuterDeadline, OuterInterrupted, Done
  <2>2. KeptInv'
    BY <2>1 DEF OnceInv, KeptInv, Nobody
  <2>3. QED
    BY <2>1, <2>2, OtherOnce
<1>4. QED
  BY <1>1, <1>2, <1>3

LEMMA OtherStepOnce ==
    ASSUME OnceInv,
           \/ SetupWrites \/ SetupFails \/ StartChild \/ CallRead
           \/ CallWrite \/ WriteData \/ WriteEnd \/ WriteBlocks \/ WriteInterrupted
           \/ CloseStdin \/ CloseStream \/ Reap
    PROVE  KeptInv' /\ RoundInv' /\ ToldOnce'
<1> USE DEF fixed, handle, call, child, pipes, drain
<1>1. /\ platform' = platform /\ closed \subseteq closed' /\ piped' = piped
      /\ open0' = {} \/ (open0' = open0 /\ ends' = ends /\ missed' = missed)
  BY DEF SetupWrites, SetupFails, StartChild, CallRead, CallWrite, WriteData, WriteEnd, WriteBlocks,
         WriteInterrupted, CloseStdin, CloseStream, Reap, Forget
<1>2. op' # "drain"
  <2>1. op # "drain"
    BY DEF SetupWrites, SetupFails, StartChild, CallRead, CallWrite, WriteData, WriteEnd, WriteBlocks,
           WriteInterrupted, CloseStdin, CloseStream, Reap, OnceInv, DrainInv, ReadPcs
  <2>2. op' \in {op, "none", "read", "write"}
    BY DEF SetupWrites, SetupFails, StartChild, CallRead, CallWrite, WriteData, WriteEnd, WriteBlocks,
           WriteInterrupted, CloseStdin, CloseStream, Reap, Done
  <2>3. QED
    BY <2>1, <2>2
<1>3. KeptInv'
  <2>1. CASE StartChild
    BY <2>1 DEF StartChild, KeepEnds, Done, KeptInv, Nobody
  <2>2. CASE CallRead
    <3>1. PICK s \in Streams : stream' = s /\ pc' = Entry(s)
      BY <2>2 DEF CallRead
    <3>2. pc' = "inner" => stream' \in kept
      BY <3>1, EntryOf
    <3>3. QED
      BY <2>2, <3>2 DEF CallRead, OnceInv, KeptInv, Nobody
  <2>3. CASE \/ SetupWrites \/ SetupFails \/ CallWrite \/ WriteData \/ WriteEnd \/ WriteBlocks
             \/ WriteInterrupted \/ CloseStdin \/ CloseStream \/ Reap
    <3>1. kept' = kept /\ alive' = alive /\ heirs' = heirs /\ pc' # "inner"
      BY <2>3 DEF SetupWrites, SetupFails, CallWrite, WriteData, WriteEnd, WriteBlocks,
                  WriteInterrupted, CloseStdin, CloseStream, Reap, Done
    <3>2. QED
      BY <1>1, <3>1 DEF OnceInv, KeptInv, Nobody
  <2>4. QED
    BY <2>1, <2>2, <2>3
<1>4. QED
  BY <1>1, <1>2, <1>3, OtherOnce

LEMMA BackgroundStepOnce ==
    ASSUME OnceInv,
           \/ \E s \in Streams : ChildWrites(s)
           \/ ChildReads \/ ChildExits \/ ChildDies \/ HeirsEnd \/ Expire
           \/ \E s \in Streams \cup {"in"} : ChildCloses(s)
           \/ UNCHANGED vars
    PROVE  KeptInv' /\ RoundInv' /\ ToldOnce'
<1> USE DEF fixed, handle, call, child, pipes, drain, Nobody
<1>1. CASE \E s \in Streams : ChildWrites(s)
  <2>1. data \in [Streams -> Nat]
    BY DEF OnceInv, DrainInv, StreamsInv, TypeOK
  <2>2. PICK p \in Streams : ChildWrites(p)
    BY <1>1
  <2>3. data' = data \/ data' = [data EXCEPT ![p] = @ + 1]
    BY <2>2 DEF ChildWrites
  <2>4. \A s \in Streams : data[s] > 0 => data'[s] > 0
    BY <2>1, <2>3
  <2>5. QED
    BY <2>2, <2>4, BackgroundOnce DEF ChildWrites, Overdue
<1>2. CASE ChildReads
  BY <1>2, BackgroundOnce DEF ChildReads, Overdue
<1>3. CASE ChildExits \/ ChildDies \/ HeirsEnd
  <2>1. PICK left \in SUBSET held : Gone(left)
    BY <1>3, GoneOf
  <2>2. UNCHANGED <<handle, call, fixed, pipes, closed, drain, expired>>
    BY <2>1 DEF Gone
  <2>3. Nobody => Nobody'
    BY <2>1 DEF Gone, OnceInv, DrainInv
  <2>4. QED
    BY <2>2, <2>3, BackgroundOnce DEF Overdue
<1>4. CASE Expire
  BY <1>4, BackgroundOnce DEF Expire, Overdue
<1>5. CASE \E s \in Streams \cup {"in"} : ChildCloses(s)
  BY <1>5, BackgroundOnce DEF ChildCloses, Overdue
<1>6. CASE UNCHANGED vars
  BY <1>6, BackgroundOnce DEF vars, Overdue
<1>7. QED
  BY <1>1, <1>2, <1>3, <1>4, <1>5, <1>6

\* A drain tells each sink of the end of its stream at most once, whatever rounds it
\* takes.  On Windows, where an exit event makes it read both streams, no such event
\* comes after it has given up one of them, unless the application has closed a stream
\* or poll_win32 has missed an event.
THEOREM StreamsToldOnce == Spec => []ToldOnce
<1>1. Init => KeptInv /\ RoundInv /\ ToldOnce
  BY DEF Init, KeptInv, RoundInv, ToldOnce, Nobody
<1>2. OnceInv /\ [Next]_vars => KeptInv' /\ RoundInv' /\ ToldOnce'
  BY ReadStepOnce, InnerStepOnce, DrainStepOnce, OtherStepOnce, BackgroundStepOnce DEF Next, Library, Child
<1>3. DrainInv /\ KeptInv /\ RoundInv /\ ToldOnce => OnceInv
  BY DEF OnceInv
<1>4. QED
  BY <1>1, <1>2, <1>3, DrainInvariant, PTL DEF Spec
=============================================================================
