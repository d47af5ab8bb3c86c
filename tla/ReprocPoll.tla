------------------------------- MODULE ReprocPoll -------------------------------
(***************************************************************************)
(* reproc_poll on several event sources (reproc.c): the search for the     *)
(* earliest deadline, which reads the clock once per source, the timeout   *)
(* handed to poll(2), and the conversion of pipe events back to sources.   *)
(* Between two calls the application reads from and closes pipes.          *)
(***************************************************************************)
EXTENDS Integers, FiniteSets

CONSTANTS
    N,            \* number of event sources
    Deadlines,    \* what process->deadline may be
    Timeouts,     \* what callers pass as timeout
    Interests,    \* combinations of events callers are interested in
    Piped,        \* the pipes a handle may start with
    Horizon,      \* bound: no call is made after it, nor does the clock pass it
                  \* while a call computes
    MaxClock      \* bound: the clock stands still after it

REPROC_INFINITE == -1
REPROC_DEADLINE == -2

EINTR == -4
EPIPE == -32

PIPES_PER_SOURCE == 4
Pipes == {"in", "out", "err", "exit"}

ASSUME PollAssumption ==
    /\ N \in Nat \ {0}
    /\ Deadlines \subseteq Nat \cup {REPROC_INFINITE}
    /\ Timeouts \subseteq Nat \cup {REPROC_INFINITE}
    /\ Interests \subseteq SUBSET Pipes
    /\ Piped \subseteq SUBSET Pipes
    /\ Horizon \in Nat /\ MaxClock \in Nat

Sources == 0..N - 1

VARIABLES
    null,       \* sources without a process
    deadline,   \* per source: process->deadline
    valid,      \* per source: the pipes of the handle that are valid
    kept,       \* per source: which of child.out and child.err are valid (Windows)
    ready,      \* per source: the pipes poll(2) would report
    clock,      \* now(), in milliseconds
    pc,         \* "idle", "find", "expiry" or "poll"
    timeout,    \* the timeout of the call
    interests,  \* sources[i].interests
    i, earliest, min,  \* locals of find_earliest_deadline
    first,      \* the timeout handed to poll(2)
    began,      \* history: the clock when the call began
    slept,      \* history: the clock when poll(2) was entered
    events,     \* sources[i].events
    ret         \* the result of the last call

processVars == <<null, deadline, valid, kept, ready>>
localVars == <<timeout, interests, i, earliest, min, first, began, slept>>
vars == <<processVars, clock, pc, localVars, events, ret>>

MinOf(a, b) == IF a < b THEN a ELSE b

\* Mutant: an infinite timeout wins.
ExpiryInfinite(t, d, n) ==
    IF d = REPROC_INFINITE \/ t = REPROC_INFINITE THEN t
    ELSE IF n >= d THEN REPROC_DEADLINE ELSE MinOf(t, d - n)

\* The first of a timeout and a deadline to expire, at time n.
Expiry(t, d, n) ==
    IF d = REPROC_INFINITE THEN t
    ELSE IF n >= d THEN REPROC_DEADLINE
    ELSE IF t = REPROC_INFINITE THEN d - n
    ELSE MinOf(t, d - n)

\* Mutant: the last deadline is taken for the earliest.
CloserLast(current) == TRUE

\* A source whose deadline is `current` away takes the place of the earliest so
\* far.  A source without a deadline is REPROC_INFINITE away.
Closer(current) == min = REPROC_INFINITE \/ current < min

Deadline(s) == IF s \in null THEN REPROC_INFINITE ELSE deadline[s]

\* Mutant: pipes are taken to be laid out from stdout on.
IndexPipeShifted(j) == <<"out", "err", "exit", "in">>[(j % PIPES_PER_SOURCE) + 1]

\* The pipes of all sources are laid out in one array.
IndexPipe(j) == <<"in", "out", "err", "exit">>[(j % PIPES_PER_SOURCE) + 1]
IndexSource(j) == j \div PIPES_PER_SOURCE
Indices == 0..N * PIPES_PER_SOURCE - 1

\* Pipe p of source s is polled: the exit pipe also where an output stream may
\* have to be closed for the child.
Polled(s, p) ==
    /\ s \notin null
    /\ p \in valid[s]
    /\ p \in interests[s] \/ (p = "exit" /\ interests[s] \cap kept[s] # {})

\* What pipes[j] becomes: its source and pipe, or nothing.
PipeAt(j) ==
    LET s == IndexSource(j)
        p == CASE j % PIPES_PER_SOURCE = 0 -> "in"
               [] j % PIPES_PER_SOURCE = 1 -> "out"
               [] j % PIPES_PER_SOURCE = 2 -> "err"
               [] OTHER -> "exit"
    IN  IF Polled(s, p) THEN {<<s, p>>} ELSE {}

PipeEvents(j) == \E e \in PipeAt(j) : e[2] \in ready[e[1]]

AnyPipe == \E j \in Indices : PipeAt(j) # {}
AnyEvent == \E j \in Indices : PipeEvents(j)

NoEvents == [s \in Sources |-> {}]

\* The locals of a call do not outlive it.
Forgotten ==
    /\ timeout' = 0
    /\ interests' = NoEvents
    /\ i' = 0
    /\ earliest' = 0
    /\ min' = REPROC_INFINITE
    /\ first' = 0
    /\ began' = 0
    /\ slept' = 0

Return(r, ev) ==
    /\ pc' = "idle"
    /\ ret' = r
    /\ events' = ev
    /\ Forgotten
    /\ UNCHANGED <<processVars, clock>>
-----------------------------------------------------------------------------
Init ==
    /\ null \in SUBSET Sources
    /\ deadline \in [Sources -> Deadlines]
    /\ valid \in [Sources -> Piped]
    /\ \E platform \in {"posix", "windows"} :
         kept = [s \in Sources |->
                   IF platform = "windows" /\ s \notin null THEN valid[s] \cap {"out", "err"} ELSE {}]
    /\ \A s \in null : deadline[s] = REPROC_INFINITE
    /\ ready = NoEvents
    /\ clock = 0
    /\ pc = "idle"
    /\ timeout = 0
    /\ interests = NoEvents
    /\ i = 0
    /\ earliest = 0
    /\ min = REPROC_INFINITE
    /\ first = 0
    /\ began = 0
    /\ slept = 0
    /\ events = NoEvents
    /\ ret = 0

Call ==
    /\ pc = "idle"
    /\ clock <= Horizon
    /\ pc' = "find"
    /\ timeout' \in Timeouts
    /\ interests' \in [Sources -> Interests]
    /\ i' = 0
    /\ earliest' = 0
    /\ min' = REPROC_INFINITE
    /\ first' = 0
    /\ began' = clock
    /\ slept' = 0
    /\ events' = NoEvents
    /\ ret' = 0
    /\ UNCHANGED <<processVars, clock>>

\* One iteration of find_earliest_deadline.
Find ==
    /\ pc = "find"
    /\ i < N
    /\ LET current == Expiry(REPROC_INFINITE, deadline[i], clock)
       IN IF i \in null
          THEN i' = i + 1 /\ UNCHANGED <<pc, earliest, min>>
          ELSE IF current = REPROC_DEADLINE
          THEN earliest' = i /\ pc' = "expiry" /\ UNCHANGED <<i, min>>
          ELSE /\ i' = i + 1
               /\ earliest' = IF Closer(current) THEN i ELSE earliest
               /\ min' = IF Closer(current) THEN current ELSE min
               /\ UNCHANGED pc
    /\ UNCHANGED <<processVars, clock, timeout, interests, first, began, slept, events, ret>>

FindEnds ==
    /\ pc = "find"
    /\ i = N
    /\ pc' = "expiry"
    /\ UNCHANGED <<processVars, clock, localVars, events, ret>>

\* The deadline has expired, no pipe is left to poll, or poll(2) is called.
ReturnDeadline ==
    /\ pc = "expiry"
    /\ Expiry(timeout, Deadline(earliest), clock) = REPROC_DEADLINE
    /\ Return(1, [NoEvents EXCEPT ![earliest] = {"deadline"}])

ReturnEPIPE ==
    /\ pc = "expiry"
    /\ Expiry(timeout, Deadline(earliest), clock) # REPROC_DEADLINE
    /\ ~AnyPipe
    /\ Return(EPIPE, events)

EnterPoll ==
    /\ pc = "expiry"
    /\ Expiry(timeout, Deadline(earliest), clock) # REPROC_DEADLINE
    /\ AnyPipe
    /\ pc' = "poll"
    /\ first' = Expiry(timeout, Deadline(earliest), clock)
    /\ slept' = clock
    /\ UNCHANGED <<processVars, clock, timeout, interests, i, earliest, min, began, events, ret>>

\* The number of processes with events.
CountSources(ev) == Cardinality({s \in Sources : ev[s] # {}})

\* pipe_poll reports pipes: their events go to their sources.  All pipes that are
\* ready are reported; poll_win32 may leave some out (ReprocPollWin).
PollEvents ==
    /\ pc = "poll"
    /\ AnyEvent
    /\ LET ev == [s \in Sources |->
                    {IndexPipe(j) : j \in {k \in Indices : PipeEvents(k) /\ IndexSource(k) = s}}]
       IN Return(CountSources(ev), ev)

\* Mutant: what has been waited for is not looked at.
AlwaysDeadline == TRUE

\* poll(2) has waited for the deadline rather than for the caller's timeout.
DeadlineWaited == first # timeout

\* poll(2) returns 0.
PollTimesOut ==
    /\ pc = "poll"
    /\ ~AnyEvent
    /\ first # REPROC_INFINITE
    /\ clock >= slept + first
    /\ IF DeadlineWaited
       THEN Return(1, [NoEvents EXCEPT ![earliest] = {"deadline"}])
       ELSE Return(0, NoEvents)

PollInterrupted ==
    /\ pc = "poll"
    /\ Return(EINTR, events)
-----------------------------------------------------------------------------
(* The children, the clock, and the application between two calls. *)

BecomesReady ==
    \E s \in Sources \ null : \E p \in valid[s] \ ready[s] :
        /\ ready' = [ready EXCEPT ![s] = @ \cup {p}]
        /\ UNCHANGED <<null, deadline, valid, kept, clock, pc, localVars, events, ret>>

\* The application reads or writes what it can.  The poll of reproc_read lets go of
\* the kept end of a child that is gone, and a pipe that is at its end is given up.
Consume ==
    /\ pc = "idle"
    /\ \E s \in Sources : \E p \in ready[s] \ {"exit"} :
        /\ ready' = [ready EXCEPT ![s] = @ \ {p}]
        /\ \/ UNCHANGED <<valid, kept>>
           \/ /\ "exit" \in ready[s]
              /\ kept' = [kept EXCEPT ![s] = @ \ {p}]
              /\ UNCHANGED valid
           \/ /\ kept' = [kept EXCEPT ![s] = @ \ {p}]
              /\ valid' = [valid EXCEPT ![s] = @ \ {p}]
    /\ UNCHANGED <<null, deadline, clock, pc, localVars, events, ret>>

\* reproc_close closes the pipe; an end of the child's stays as it is.
Close ==
    /\ pc = "idle"
    /\ \E s \in Sources \ null : \E p \in valid[s] \ {"exit"} :
        /\ ready' = [ready EXCEPT ![s] = @ \ {p}]
        /\ valid' = [valid EXCEPT ![s] = @ \ {p}]
    /\ UNCHANGED <<null, deadline, kept, clock, pc, localVars, events, ret>>

\* reproc_wait has reaped the child and closed the exit pipe.
Reaped ==
    /\ pc = "idle"
    /\ \E s \in Sources :
        /\ "exit" \in ready[s]
        /\ ready' = [ready EXCEPT ![s] = @ \ {"exit"}]
        /\ valid' = [valid EXCEPT ![s] = @ \ {"exit"}]
    /\ UNCHANGED <<null, deadline, kept, clock, pc, localVars, events, ret>>

Tick ==
    /\ clock < (IF pc = "poll" THEN MaxClock ELSE Horizon)
    /\ clock' = clock + 1
    /\ UNCHANGED <<processVars, pc, localVars, events, ret>>

Step ==
    \/ Find \/ FindEnds \/ ReturnDeadline \/ ReturnEPIPE \/ EnterPoll
    \/ PollEvents \/ PollTimesOut

Next == Call \/ Step \/ PollInterrupted \/ BecomesReady \/ Consume \/ Close \/ Reaped \/ Tick

Spec == Init /\ [][Next]_vars

\* A call in progress is scheduled, and time passes.
FairSpec == Spec /\ WF_vars(Step) /\ WF_vars(Tick)
-----------------------------------------------------------------------------
(* Properties. *)

\* Every variable keeps its type.
TypeOK ==
    /\ null \subseteq Sources
    /\ deadline \in [Sources -> Nat \cup {REPROC_INFINITE}]
    /\ valid \in [Sources -> SUBSET Pipes]
    /\ kept \in [Sources -> SUBSET Pipes]
    /\ ready \in [Sources -> SUBSET Pipes]
    /\ clock \in Nat
    /\ pc \in {"idle", "find", "expiry", "poll"}
    /\ timeout \in Nat \cup {REPROC_INFINITE}
    /\ interests \in [Sources -> SUBSET Pipes]
    /\ i \in 0..N
    /\ earliest \in Sources
    /\ min \in Nat \cup {REPROC_INFINITE}
    /\ first \in Nat \cup {REPROC_INFINITE}
    /\ began \in Nat
    /\ slept \in Nat
    /\ events \in [Sources -> SUBSET (Pipes \cup {"deadline"})]
    /\ ret \in 0..N \cup {EINTR, EPIPE, 1}

Returns == pc # "idle" /\ pc' = "idle"

\* Only some of the processes have a deadline: find_earliest_deadline may pick
\* one that has none.
Mixed ==
    \E s, t \in Sources \ null :
        deadline[s] = REPROC_INFINITE /\ deadline[t] # REPROC_INFINITE

\* A deadline and a timeout are not taken for each other: the event
\* REPROC_EVENT_DEADLINE is reported for a process whose deadline has expired, and
\* the result is 0 when the caller's timeout has passed without an event.
ExpiryTrue ==
    [][Returns =>
        /\ \A s \in Sources : "deadline" \in events'[s] /\ ret' > 0
            => Deadline(s) # REPROC_INFINITE /\ clock >= Deadline(s)
        /\ ret' = 0 => /\ timeout # REPROC_INFINITE
                       /\ clock >= began + timeout
                       /\ ~AnyEvent
                       /\ events' = NoEvents]_vars

\* Every event is reported at its own source: the pipes the caller asked for
\* (and the exit pipe where a child's end was kept) that are ready, and the
\* result counts the sources that have one.  (Of poll(2): poll_win32 may leave out
\* pipes that are ready, which is said of it in ReprocPollWin.)
EventsTrue ==
    [][pc = "poll" /\ Returns /\ ret' > 0 =>
        /\ \A s \in Sources : \/ events'[s] = {p \in Pipes : Polled(s, p) /\ p \in ready[s]}
                              \/ events'[s] = {"deadline"} /\ ~AnyEvent
        /\ ret' = Cardinality({s \in Sources : events'[s] # {}})]_vars

\* poll(2) never sleeps past a deadline, but for the time that the search for
\* the earliest one has taken.
SleepsWithinDeadlines ==
    pc = "poll" /\ ~Mixed =>
        \A s \in Sources : Deadline(s) # REPROC_INFINITE =>
            /\ first # REPROC_INFINITE
            /\ slept + first <= Deadline(s) + (slept - began)

\* A call that has a timeout, or for which every process has a deadline, returns.
PollReturns ==
    pc # "idle" /\ (timeout # REPROC_INFINITE \/ (~Mixed /\ \E s \in Sources : Deadline(s) # REPROC_INFINITE))
        ~> pc = "idle"

\* reproc.h: "If the deadline is exceeded, Any ongoing and future calls to
\* `reproc_poll` return": no call outlives any of the deadlines for good.
DeadlineEndsPoll ==
    pc # "idle" /\ (\E s \in Sources : Deadline(s) # REPROC_INFINITE) ~> pc = "idle"
=============================================================================
