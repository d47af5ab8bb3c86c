----------------------------- MODULE ReprocStreams -----------------------------
(***************************************************************************)
(* The streams of one child: reproc_read, reproc_write, reproc_close       *)
(* (reproc.c), reproc_drain (drain.c) and the input that reproc_start      *)
(* writes before there is a child.  On Windows the parent keeps the        *)
(* child's ends of the output pipes open (`kept`) until it learns from the *)
(* exit pipe that the child is gone.  One thread uses the handle.          *)
(***************************************************************************)
EXTENDS Integers, FiniteSets

CONSTANTS
    Platforms,    \* "posix", "windows"
    Pipings,      \* which of the output streams are pipes
    Inputs,       \* sizes of options.input; NoInput for none
    Capacity,     \* what an output pipe holds
    InCapacity,   \* what the pipe to stdin holds
    Chunk,        \* what one call reads at most
    Total,        \* bound: what the child writes to a stream of its own accord
    MaxWrites,    \* bound: what the application writes
    Closable,     \* bound: the output streams that the application may close
    Inherited,    \* bound: the ends that processes which outlive the child may have
    Fallible      \* whether system calls are interrupted and sinks refuse

NoInput == -1

\* Results.  SINK_FAILED is what a sink of the application returns.
EINTR == -4
EWOULDBLOCK == -11
EPIPE == -32
ECONNRESET == -104
ETIMEDOUT == -110
SINK_FAILED == 1

Streams == {"out", "err"}

ASSUME StreamsAssumption ==
    /\ Platforms \subseteq {"posix", "windows"}
    /\ Pipings \subseteq SUBSET Streams
    /\ Inputs \subseteq Nat \cup {NoInput}
    /\ Capacity \in Nat \ {0} /\ InCapacity \in Nat \ {0} /\ Chunk \in Nat \ {0}
    /\ Total \in Nat /\ MaxWrites \in Nat
    /\ Closable \subseteq Streams
    /\ Inherited \subseteq Streams \cup {"in"}
    /\ Fallible \in BOOLEAN

VARIABLES
    \* The handle.
    platform, nonblocking, deadline,  \* fixed at the start
    piped,      \* history: the output streams that were pipes at the start
    pipe,       \* output streams whose pipe.out, pipe.err is valid
    kept,       \* output streams whose child.out, child.err is valid
    stdin,      \* pipe.in is valid
    exit,       \* pipe.exit is valid
    \* The call in progress.
    pc, op,     \* where the call is, and which call it is
    stream,     \* the stream it reads
    events,     \* reproc_drain: source.events
    rout,       \* reproc_drain: r_out
    ret,        \* the result of the last reproc_start or reproc_drain
    written,    \* setup_input: written
    \* The child and the kernel.
    alive, echo, \* the child runs; it copies its input to its output
    heirs,      \* processes that the child has started outlive it and have its ends
    held,       \* the streams, "in" among them, whose end the child or an heir has open
    todo,       \* per output stream, what the child or its heirs have yet to write
    data,       \* per output stream, what is in the pipe
    indata,     \* what is in the pipe to the child's stdin
    expired,    \* the deadline has passed
    \* History.
    size,       \* options.input.size, or NoInput
    fed,        \* what the child has read
    closed,     \* output streams that the application has closed
    open0,      \* the valid output pipes when the last drain began
    ends,       \* per output stream, the calls of its sink with size zero
    missed      \* poll_win32 has missed an event in the last drain

fixed == <<platform, nonblocking, deadline, piped, echo, size>>
handle == <<pipe, kept, stdin, exit>>
call == <<pc, op, stream, events, rout, ret>>
child == <<alive, heirs, held, todo, fed>>
pipes == <<data, indata>>
drain == <<open0, ends, missed>>
vars == <<fixed, handle, call, written, child, pipes, expired, closed, drain>>

MinOf(a, b) == IF a < b THEN a ELSE b

\* Nobody is left to write to the stream.
Ended(s) == s \notin held /\ s \notin kept

\* reproc_poll for one handle: the streams and the exit pipe that it polls,
\* and those that are ready.  The heirs have the exit pipe open as well.
Polled(interests) ==
    (interests \cap pipe) \cup (IF exit /\ interests \cap kept # {} THEN {"exit"} ELSE {})
Ready(interests) ==
    {p \in Polled(interests) : IF p = "exit" THEN ~alive /\ ~heirs ELSE data[p] > 0 \/ Ended(p)}

\* The socket that a search by bisection looks at first, where the sockets of S are in
\* the order in which reproc_poll gives them: out, err, exit.
Middle(S) ==
    IF "err" \in S /\ S # Streams THEN "err" ELSE IF "out" \in S THEN "out" ELSE "exit"

\* The events that reproc_poll may report.  poll_win32 looks for each socket in an
\* answer that is not sorted (ReprocPollWin): it may find the middle one alone.
Reports(interests) ==
    IF platform = "posix" \/ Ready(interests) = {} THEN {Ready(interests)}
    ELSE {ev \in SUBSET Ready(interests) : Middle(Ready(interests)) \in ev}

\* Mutant: the deadline is not looked at.
OverdueNever == FALSE

\* The deadline of reproc_start has passed.
Overdue == deadline /\ expired

\* A call other than reproc_drain forgets the last drain.
Forget ==
    /\ open0' = {}
    /\ ends' = [s \in Streams |-> 0]
    /\ missed' = FALSE

\* A call returns r.  What a read or a write returned is for the application
\* alone and is not kept.
Done(r) ==
    /\ pc' = "idle"
    /\ op' = "none"
    /\ stream' = "out"
    /\ events' = {}
    /\ rout' = 0
    /\ ret' = IF op \in {"read", "write"} THEN 0 ELSE r
-----------------------------------------------------------------------------
(* reproc_start: setup_input, then the child. *)

Init ==
    /\ platform \in Platforms
    /\ nonblocking \in BOOLEAN
    /\ deadline \in BOOLEAN
    /\ piped \in Pipings
    /\ echo \in BOOLEAN
    /\ size \in Inputs
    /\ pipe = piped
    /\ kept = {}
    /\ stdin = TRUE
    /\ exit = TRUE
    /\ pc = "setup"
    /\ op = "start"
    /\ stream = "out"
    /\ events = {}
    /\ rout = 0
    /\ ret = 0
    /\ written = 0
    /\ alive = FALSE
    /\ heirs = FALSE
    /\ held = {}
    /\ todo = [s \in Streams |-> IF s \in piped /\ ~echo THEN Total ELSE 0]
    /\ data = [s \in Streams |-> 0]
    /\ indata = 0
    /\ expired = FALSE
    /\ fed = 0
    /\ closed = {}
    /\ open0 = {}
    /\ ends = [s \in Streams |-> 0]
    /\ missed = FALSE

SetupWrites ==
    /\ pc = "setup"
    /\ written < size
    /\ \E n \in 1..MinOf(size - written, InCapacity - indata) :
        /\ written' = written + n
        /\ indata' = indata + n
    /\ UNCHANGED <<fixed, handle, call, child, data, expired, closed, drain>>

\* EWOULDBLOCK: not all of the rest fits, and reproc_start undoes what it did.
SetupFails ==
    /\ pc = "setup"
    /\ written < size
    /\ size - written > InCapacity - indata
    /\ pc' = "failed"
    /\ ret' = EWOULDBLOCK
    /\ pipe' = {}
    /\ stdin' = FALSE
    /\ exit' = FALSE
    /\ UNCHANGED <<fixed, kept, op, stream, events, rout, written, child, pipes, expired, closed, drain>>

\* Mutant: the pipe stays open after the input.
CloseInputNever == stdin

\* *pipe = pipe_destroy(*pipe), if there was input.
CloseInput == stdin /\ size = NoInput

\* The child's ends that the parent does not close.
KeepEnds == IF platform = "windows" THEN piped ELSE {}

StartChild ==
    /\ pc = "setup"
    /\ written >= size
    /\ stdin' = CloseInput
    /\ kept' = KeepEnds
    /\ alive' = TRUE
    /\ held' = piped \cup {"in"}
    /\ Done(1)
    /\ UNCHANGED <<fixed, pipe, exit, written, heirs, todo, fed, pipes, expired, closed, drain>>
-----------------------------------------------------------------------------
(* reproc_read, on its own and from reproc_drain. *)

\* Where reproc_read goes first: the stream is closed; its child end is kept
\* and reproc_poll must wait; reproc_poll finds the deadline expired and
\* returns 1; no end is kept.
Entry(s) ==
    IF s \notin pipe THEN "closed"
    ELSE IF s \in kept /\ ~Overdue THEN "inner"
    ELSE "recv"

CallRead ==
    /\ pc = "idle"
    /\ \E s \in Streams :
        /\ stream' = s
        /\ pc' = Entry(s)
    /\ op' = "read"
    /\ ret' = 0
    /\ Forget
    /\ UNCHANGED <<fixed, handle, events, rout, written, child, pipes, expired, closed>>

\* The next round of reproc_drain, when `valid` is what is left of the pipes
\* and `over` says whether the deadline has passed.
NextRound(valid) ==
    IF Overdue THEN Done(ETIMEDOUT)
    ELSE IF valid = {} /\ ~(exit /\ kept # {}) THEN Done(0)
    ELSE /\ pc' = "outer"
         /\ op' = "drain"
         /\ stream' = "out"
         /\ events' = {}
         /\ rout' = 0
         /\ ret' = 0

\* Mutant: the exit event ends the drain although output is left.
OnlyExitAny(ev) == "exit" \in ev

\* Only the exit event is left behind.
OnlyExit(ev) == "exit" \in ev /\ ev \cap Streams = {}

EndRound(valid, r_err) ==
    LET r == IF rout # 0 THEN rout ELSE r_err
    IN  IF r # 0 THEN Done(r)
        ELSE IF OnlyExit(events) THEN Done(0)
        ELSE NextRound(valid)

\* After one stream, the other.
AfterSingle(valid, result) ==
    IF stream = "out" /\ events \cap {"err", "exit"} # {}
    THEN /\ stream' = "err"
         /\ pc' = Entry("err")
         /\ rout' = result
         /\ UNCHANGED <<op, events, ret>>
    ELSE EndRound(valid, result)

SinkResults == IF Fallible THEN {0, SINK_FAILED} ELSE {0}

\* reproc_drain_single: the sink gets what was read, and the end as size 0.
ToSink(r) == r >= 0 \/ r = EPIPE

\* reproc_read returns r, with `valid` the pipes left.
ReadReturns(r, valid) ==
    /\ pipe' = valid
    /\ \/ /\ op = "read"
          /\ Done(r)
          /\ UNCHANGED ends
       \/ /\ op = "drain"
          /\ ToSink(r)
          /\ ends' = IF r = EPIPE THEN [ends EXCEPT ![stream] = MinOf(2, @ + 1)] ELSE ends
          /\ \E result \in SinkResults : AfterSingle(valid, result)
       \/ /\ op = "drain"
          /\ ~ToSink(r)
          /\ AfterSingle(valid, r)
          /\ UNCHANGED ends
    /\ UNCHANGED <<open0, missed>>

ReadClosed ==
    /\ pc = "closed"
    /\ ReadReturns(EPIPE, pipe)
    /\ UNCHANGED <<fixed, kept, stdin, exit, written, child, pipes, expired, closed>>

\* Mutant: the kept end is not closed when the child is gone.
KeptForever(ev) == kept

\* The kept end is closed when the child is gone.
KeptAfter(ev) == IF "exit" \in ev THEN kept \ {stream} ELSE kept

\* The reproc_poll of reproc_read reports events, is over at the deadline (and
\* returns 1 all the same), times out at once, or is interrupted.
InnerEvents ==
    /\ pc = "inner"
    /\ \E ev \in Reports({stream}) :
        /\ ev # {}
        /\ kept' = KeptAfter(ev)
        /\ missed' = (missed \/ (op = "drain" /\ ev # Ready({stream})))
    /\ pc' = "recv"
    /\ UNCHANGED <<fixed, pipe, stdin, exit, op, stream, events, rout, ret, written, child, pipes, expired,
                   closed, open0, ends>>

InnerDeadline ==
    /\ pc = "inner"
    /\ Ready({stream}) = {}
    /\ ~nonblocking
    /\ Overdue
    /\ pc' = "recv"
    /\ UNCHANGED <<fixed, handle, op, stream, events, rout, ret, written, child, pipes, expired, closed, drain>>

InnerBlocks ==
    /\ pc = "inner"
    /\ Ready({stream}) = {}
    /\ nonblocking
    /\ ReadReturns(EWOULDBLOCK, pipe)
    /\ UNCHANGED <<fixed, kept, stdin, exit, written, child, pipes, expired, closed>>

\* pipe_read: data, the end, EWOULDBLOCK, or EINTR.
RecvData ==
    /\ pc = "recv"
    /\ data[stream] > 0
    /\ LET n == MinOf(Chunk, data[stream])
       IN  /\ data' = [data EXCEPT ![stream] = @ - n]
           /\ ReadReturns(n, pipe)
    /\ UNCHANGED <<fixed, kept, stdin, exit, written, child, indata, expired, closed>>

\* Mutant: the pipe stays open at the end of the stream.
PipesAfterEndAll == pipe

\* *pipe = pipe_destroy(*pipe)
PipesAfterEnd == pipe \ {stream}

RecvEnd ==
    /\ pc = "recv"
    /\ data[stream] = 0
    /\ Ended(stream)
    /\ ReadReturns(EPIPE, PipesAfterEnd)
    /\ UNCHANGED <<fixed, kept, stdin, exit, written, child, pipes, expired, closed>>

\* Mutant: any error of pipe_read closes the pipe.
BlockedClosed == pipe \ {stream}

\* The pipes that are left when pipe_read would block.
BlockedPipes == pipe

\* The parent's ends were made non-blocking when they were opened.
NonblockingEnds == nonblocking

RecvBlocks ==
    /\ pc = "recv"
    /\ data[stream] = 0
    /\ ~Ended(stream)
    /\ NonblockingEnds
    /\ ReadReturns(EWOULDBLOCK, BlockedPipes)
    /\ UNCHANGED <<fixed, kept, stdin, exit, written, child, pipes, expired, closed>>

RecvInterrupted ==
    /\ Fallible
    /\ platform = "posix"
    /\ pc = "recv"
    /\ data[stream] = 0
    /\ ~Ended(stream)
    /\ ~nonblocking
    /\ ReadReturns(EINTR, pipe)
    /\ UNCHANGED <<fixed, kept, stdin, exit, written, child, pipes, expired, closed>>
-----------------------------------------------------------------------------
(* reproc_drain. *)

\* Both sinks are called once before anything is read.
CallDrain ==
    /\ pc = "idle"
    /\ open0' = pipe
    /\ ends' = [s \in Streams |-> 0]
    /\ missed' = FALSE
    /\ \/ Fallible /\ Done(SINK_FAILED)
       \/ NextRound(pipe)
    /\ UNCHANGED <<fixed, handle, written, child, pipes, expired, closed>>

\* The reproc_poll of reproc_drain reports events: the streams that have one
\* are read, or both if the child is gone.
OuterEvents ==
    /\ pc = "outer"
    /\ \E ev \in Reports(Streams) :
        LET first == IF ev \cap {"out", "exit"} # {} THEN "out" ELSE "err"
        IN  /\ ev # {}
            /\ events' = ev
            /\ missed' = (missed \/ ev # Ready(Streams))
            /\ stream' = first
            /\ pc' = Entry(first)
    /\ UNCHANGED <<fixed, handle, op, rout, ret, written, child, pipes, expired, closed, open0, ends>>

OuterDeadline ==
    /\ pc = "outer"
    /\ Ready(Streams) = {}
    /\ Overdue
    /\ Done(ETIMEDOUT)
    /\ UNCHANGED <<fixed, handle, written, child, pipes, expired, closed, drain>>

OuterInterrupted ==
    /\ Fallible
    /\ platform = "posix"
    /\ pc = "outer"
    /\ Ready(Streams) = {}
    /\ Done(EINTR)
    /\ UNCHANGED <<fixed, handle, written, child, pipes, expired, closed, drain>>
-----------------------------------------------------------------------------
(* reproc_write of one byte, reproc_close, and reproc_wait when it reaps. *)

\* Without a pipe, EPIPE at once.
CallWrite ==
    /\ pc = "idle"
    /\ fed + indata < MaxWrites
    /\ IF stdin THEN pc' = "write" /\ op' = "write" ELSE UNCHANGED <<pc, op>>
    /\ ret' = 0
    /\ Forget
    /\ UNCHANGED <<fixed, handle, stream, events, rout, written, child, pipes, expired, closed>>

WriteData ==
    /\ pc = "write"
    /\ "in" \in held
    /\ indata < InCapacity
    /\ indata' = indata + 1
    /\ Done(1)
    /\ UNCHANGED <<fixed, handle, written, child, data, expired, closed, drain>>

\* Nobody reads any more.  SIGPIPE is ignored; a Windows socket was reset, an
\* error that reproc_write does not tell from others.
WriteEnd ==
    /\ pc = "write"
    /\ "in" \notin held
    /\ IF platform = "posix"
       THEN stdin' = FALSE /\ Done(EPIPE)
       ELSE Done(ECONNRESET) /\ UNCHANGED stdin
    /\ UNCHANGED <<fixed, pipe, kept, exit, written, child, pipes, expired, closed, drain>>

WriteBlocks ==
    /\ pc = "write"
    /\ "in" \in held
    /\ indata = InCapacity
    /\ NonblockingEnds
    /\ Done(EWOULDBLOCK)
    /\ UNCHANGED <<fixed, handle, written, child, pipes, expired, closed, drain>>

WriteInterrupted ==
    /\ Fallible
    /\ platform = "posix"
    /\ pc = "write"
    /\ "in" \in held
    /\ indata = InCapacity
    /\ ~nonblocking
    /\ Done(EINTR)
    /\ UNCHANGED <<fixed, handle, written, child, pipes, expired, closed, drain>>

CloseStdin ==
    /\ pc = "idle"
    /\ stdin' = FALSE
    /\ ret' = 0
    /\ UNCHANGED <<fixed, pipe, kept, exit, pc, op, stream, events, rout, written, child, pipes, expired, closed, drain>>

CloseStream ==
    /\ pc = "idle"
    /\ \E s \in Closable :
        /\ pipe' = pipe \ {s}
        /\ closed' = closed \cup ({s} \cap pipe)
    /\ ret' = 0
    /\ UNCHANGED <<fixed, kept, stdin, exit, pc, op, stream, events, rout, written, child, pipes, expired,
                   drain>>

\* reproc_wait polls the exit pipe first, which on POSIX an heir may have closed.
Reap ==
    /\ pc = "idle"
    /\ ~alive
    /\ platform = "windows" => ~heirs
    /\ exit' = FALSE
    /\ UNCHANGED <<fixed, pipe, kept, stdin, call, written, child, pipes, expired, closed, drain>>
-----------------------------------------------------------------------------
(* The child, its heirs and the clock. *)

\* What the child writes to a pipe that nobody reads is lost.
ChildWrites(s) ==
    /\ s \in held
    /\ todo[s] > 0
    /\ todo' = [todo EXCEPT ![s] = @ - 1]
    /\ IF s \in pipe
       THEN /\ data[s] < Capacity
            /\ data' = [data EXCEPT ![s] = @ + 1]
       ELSE UNCHANGED data
    /\ UNCHANGED <<fixed, handle, call, written, alive, heirs, held, fed, indata, expired, closed, drain>>

ChildReads ==
    /\ "in" \in held
    /\ indata > 0
    /\ indata' = indata - 1
    /\ fed' = fed + 1
    /\ todo' = IF echo /\ "out" \in held THEN [todo EXCEPT !["out"] = @ + 1] ELSE todo
    /\ UNCHANGED <<fixed, handle, call, written, alive, heirs, held, data, expired, closed, drain>>

ChildCloses(s) ==
    /\ s \in held
    /\ held' = held \ {s}
    /\ todo' = IF s \in Streams THEN [todo EXCEPT ![s] = 0] ELSE todo
    /\ UNCHANGED <<fixed, handle, call, written, alive, heirs, fed, pipes, expired, closed, drain>>

\* Only the ends in `left` stay open, those that the heirs have.  A process on Windows
\* inherits the handles of its parent together: an heir has the exit pipe as well.
Gone(left) ==
    /\ alive' = FALSE
    /\ heirs' = (left # {})
    /\ held' = left
    /\ todo' = [s \in Streams |-> IF s \in left THEN todo[s] ELSE 0]
    /\ UNCHANGED <<fixed, handle, call, written, fed, pipes, expired, closed, drain>>

\* The child has written all; one that copies its input has seen the end of it.
ChildExits ==
    /\ alive
    /\ \A s \in Streams : todo[s] = 0
    /\ echo /\ "in" \in held => ~stdin /\ indata = 0
    /\ \E left \in SUBSET (held \cap Inherited) : Gone(left)

ChildDies == alive /\ \E left \in SUBSET (held \cap Inherited) : Gone(left)

HeirsEnd == heirs /\ Gone({})

Expire ==
    /\ deadline
    /\ alive \/ pc # "setup"
    /\ ~expired
    /\ expired' = TRUE
    /\ UNCHANGED <<fixed, handle, call, written, child, pipes, closed, drain>>

Library ==
    \/ SetupWrites \/ SetupFails \/ StartChild
    \/ ReadClosed \/ InnerEvents \/ InnerDeadline \/ InnerBlocks \/ RecvData \/ RecvEnd \/ RecvBlocks
    \/ OuterEvents \/ OuterDeadline
    \/ WriteData \/ WriteEnd \/ WriteBlocks

Child == (\E s \in Streams : ChildWrites(s)) \/ ChildReads \/ ChildExits

Next ==
    \/ Library \/ RecvInterrupted \/ OuterInterrupted \/ WriteInterrupted
    \/ CallRead \/ CallDrain \/ CallWrite \/ CloseStdin \/ CloseStream \/ Reap
    \/ Child \/ (\E s \in Streams \cup {"in"} : ChildCloses(s)) \/ ChildDies \/ HeirsEnd \/ Expire

Spec == Init /\ [][Next]_vars

\* A call in progress and the child are scheduled, and time passes; the heirs, like
\* daemons, may stay for ever.
FairSpec == Spec /\ WF_vars(Library) /\ WF_vars(Child) /\ WF_vars(Expire)
-----------------------------------------------------------------------------
(* Properties. *)

\* Every variable keeps its type.
TypeOK ==
    /\ platform \in Platforms /\ nonblocking \in BOOLEAN /\ deadline \in BOOLEAN
    /\ piped \in Pipings /\ echo \in BOOLEAN /\ size \in Inputs
    /\ pipe \subseteq piped /\ kept \subseteq piped
    /\ stdin \in BOOLEAN /\ exit \in BOOLEAN
    /\ pc \in {"setup", "failed", "idle", "closed", "inner", "recv", "outer", "write"}
    /\ op \in {"none", "start", "read", "drain", "write"}
    /\ stream \in Streams
    /\ events \subseteq Streams \cup {"exit"}
    /\ rout \in Int /\ ret \in Int
    /\ written \in 0..(IF size = NoInput THEN 0 ELSE size)
    /\ alive \in BOOLEAN /\ heirs \in BOOLEAN /\ held \subseteq Streams \cup {"in"}
    /\ todo \in [Streams -> Nat]
    /\ data \in [Streams -> 0..Capacity] /\ indata \in 0..InCapacity
    /\ expired \in BOOLEAN
    /\ fed \in Nat
    /\ closed \subseteq Streams /\ open0 \subseteq Streams
    /\ ends \in [Streams -> 0..2]
    /\ missed \in BOOLEAN

Started == pc \notin {"setup", "failed"}

\* The library gives up an output pipe of its own accord only at the end of the
\* stream: nobody can write to it any more and every byte has been read.
ClosedAtEnd ==
    Started => \A s \in piped \ (pipe \cup closed) : Ended(s) /\ data[s] = 0

\* A child that was given input finds all of it in its stdin, and then the end
\* of file: the pipe is closed although the child was not there to read.
InputThenEnd == Started /\ size # NoInput => ~stdin /\ fed + indata = size

DrainEnds == op = "drain" /\ op' = "none"

\* drain.h: reproc_drain returns 0 when both streams are closed: all that the
\* child wrote has gone to the sinks, each has been told of the end, and no
\* child end is left over.
DrainComplete ==
    [][DrainEnds /\ ret' = 0 => \A s \in open0 :
        /\ s \notin pipe' \cup kept' \cup held'
        /\ data'[s] = 0
        /\ ends'[s] > 0]_vars

\* drain.h: "When a stream is closed, its corresponding `sink` is called once
\* with `size` set to zero", unless, on Windows, the application had closed the
\* other stream or poll_win32 has missed an event: the exit event then comes after
\* the end of a stream, and the drain reads that stream again.
ToldOnce ==
    platform = "posix" \/ (closed = {} /\ ~missed) => \A s \in open0 : ends[s] <= 1

\* What the Windows code promises to wait for: the exit event of a child whose
\* exit pipe has not been closed by reproc_wait, without a deadline in the way.
Detects == platform = "posix" \/ (exit /\ ~deadline)

\* No process can write to the stream at hand: none has it open, or on Windows, where
\* the parent has to learn of it from the exit pipe, none is left that has inherited it.
NoWriters == IF platform = "posix" THEN stream \notin held ELSE ~alive /\ ~heirs

\* Once nobody can write to the stream, reproc_read returns.  That the child is gone
\* is not enough: an heir may have the stream open for as long as it likes.
ReadEnds == op = "read" /\ NoWriters /\ Detects ~> op # "read"

\* A drain ends once the deadline has passed or once its child has no more
\* input to wait for: the parent and the child never wait for each other.  Heirs
\* that stay keep a drain without a deadline waiting.
DrainReturns ==
    op = "drain" /\ Detects /\ (deadline \/ ~stdin \/ ~echo)
        ~> op # "drain" \/ (heirs /\ ~deadline)

\* A non-blocking handle neither reads nor writes for ever, whatever the child does.
NonblockingReturns == op \in {"read", "write"} /\ nonblocking ~> op \notin {"read", "write"}

\* Both: the calls of which the code promises it end.
StreamCallsReturn == DrainReturns /\ NonblockingReturns

\* reproc.c: "make sure we use `reproc_poll` which closes the extra handles we
\* keep open when the child process exits. If we don't, `pipe_read` will block
\* forever".
ReadNeverBlocksForever == op = "read" /\ ~alive /\ ~heirs ~> op # "read"
=============================================================================
